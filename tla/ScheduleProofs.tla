--------------------------- MODULE ScheduleProofs ---------------------------
(***************************************************************************)
(* Proofs about the task scheduler, for any numbers of workers, tasks and  *)
(* channels and any operations of the scripts: the types of its words, that*)
(* no queued task is stranded and that every ready or blocked task can be  *)
(* found; that the counts of references are exact as long as no script     *)
(* opens tasks; and, with one worker, that nothing fails, that no wake-up  *)
(* is lost, that the counts are exact and that a task is queued once.      *)
(***************************************************************************)
EXTENDS Schedule, FiniteSetTheorems, SequenceTheorems, TLAPS

-----------------------------------------------------------------------------
(* The inductive invariants.                                               *)

\* The places in the code where a worker has a task's handle in hand, where it
\* works for a task, where for a channel, and where a loop's index is in use.
TokPCs == {"find", "claim", "claimed", "open_push", "open_id", "open_reg", "rel_check", "rel_push",
           "rel_drop", "send_find", "send_cas", "send_wake", "send_drop"}
CurPCs == SlicePCs \cup {"claimed", "resume", "close", "release", "rel_check", "rel_push", "rel_drop"}
SendPCs == {"send_push", "send_pop", "send_find", "send_cas", "send_wake", "send_drop", "send_done"}
LoopPCs == {"pop", "notify", "trigger", "sel_check", "sel_join", "open_new"}

\* Worker w's own variables fit the place it is at.
Fits(w) ==
  /\ at[w] \in TokPCs => tok[w] \in 1 .. opened
  /\ at[w] \in CurPCs => cur[w] \in 1 .. opened
  /\ at[w] \in SendPCs => ch[w] \in Channels
  /\ at[w] \notin LoopPCs => k[w] = 0
  /\ at[w] \in {"pop", "trigger", "open_new"} => k[w] < N
  /\ at[w] = "notify" => k[w] <= N
  /\ at[w] \in {"sel_check", "sel_join"} => k[w] <= Len(sel[w])

Typed ==
  /\ TypeOK
  /\ k \in [Workers -> Nat] /\ sel \in [Workers -> Seq(Channels)] /\ ch \in [Workers -> Channels \cup {0}]
  /\ waits \in [Tasks -> SUBSET Channels] /\ \A t \in Tasks : ltid[t] \in {0, t}
  /\ (\A t \in live : refs[t] > 0) /\ \A c \in chans : crefs[c] > 0
OpeningNow == {v \in Workers : at[v] = "open_new"}
TInv ==
  /\ Typed /\ \A w \in Workers : Fits(w)
  /\ opened + Cardinality(OpeningNow) <= MaxTasks

\* Worker v will yet look into queue q, if nothing else happens.
WillSee(v, q) ==
  \/ at[v] \notin {"pop", "idle", "wait"}
  \/ at[v] = "wait" /\ flag[v] = 1
  \/ at[v] = "pop" /\ \E j \in k[v] .. N - 1 : (v + j) % N = q
Watched == \A q \in Workers : runq[q] # <<>> => \E v \in Workers : WillSee(v, q)

\* A task's Lua state is used, and closed, by one worker at a time.
OneInside == \A v, w \in Workers : at[v] \in SlicePCs /\ at[w] \in SlicePCs /\ cur[v] = cur[w] => v = w
OneCloses == \A v, w \in Workers : at[v] = "close" /\ at[w] = "close" /\ cur[v] = cur[w] => v = w
LuaFits == \A w \in Workers : /\ at[w] \in SlicePCs => lua[cur[w]] = "open"
                              /\ at[w] = "close" => lua[cur[w]] = "closed"
Owners == OneInside /\ OneCloses /\ LuaFits

Has(s, t) == \E i \in DOMAIN s : s[i] = t

\* While a blocked task joins the readers, it is one of those of the channels
\* already visited.
Listed(t, c) ==
  \/ Has(reader[c], t)
  \/ \E w \in Workers : tok[w] = t /\ at[w] \in {"send_find", "send_cas"}
Joining(w) ==
  at[w] = "sel_join" =>
    /\ waits[cur[w]] = {sel[w][i] : i \in DOMAIN sel[w]}
    /\ cur[w] \in live /\ status[cur[w]] = "BLOCKED" =>
         \A i \in 1 .. k[w] : sel[w][i] \in chans => Listed(cur[w], sel[w][i])
Known ==
  /\ chans \cap fresh = {} /\ \A t \in Tasks : waits[t] \cap fresh = {}
  /\ \A w \in Workers : at[w] \in {"sel_check", "sel_block", "sel_join"} =>
       \A i \in DOMAIN sel[w] : sel[w][i] \notin fresh
FindInv == Findable /\ Known /\ \A w \in Workers : Joining(w)

\* A struct ltask holds its task's handle, save while its creator has yet to put
\* it there; as long as no other worker can run the task meanwhile, every task
\* that runs has its own.
OpenPCs == {"open_new", "open_push", "open_id", "open_reg"}
Settled ==
  /\ \A t \in 1 .. opened : ltid[t] = t \/ \E w \in Workers : tok[w] = t /\ at[w] \in {"open_push", "open_id"}
  /\ "open" \notin Ops => \A w \in Workers : at[w] \notin OpenPCs
  /\ \A w \in Workers : at[w] \in CurPCs => ltid[cur[w]] = cur[w]

\* The handle to which a worker holds a reference, or 0.
TokHoldPCs == {"claim", "claimed", "rel_check", "rel_push", "rel_drop", "send_cas", "send_wake", "send_drop"}
CurHoldPCs == {"sel_check", "sel_found", "sel_block", "sel_join", "sel_drop"}
Grip(w) == IF at[w] \in TokHoldPCs THEN tok[w] ELSE IF at[w] \in CurHoldPCs THEN cur[w] ELSE 0

TaskRefs ==
  /\ \A t \in 1 .. opened : refs[t] = (IF Unclosed(t) THEN 1 ELSE 0) + Cardinality(TaskHolders(t))
  /\ \A t \in 1 .. opened : t \in live <=> refs[t] > 0
  /\ \A t \in Tasks : t > opened => lua[t] = "open"
ChannelRefs ==
  /\ \A c \in Channels \ fresh :
       crefs[c] = (IF c \notin closed THEN 1 ELSE 0) + Cardinality(ChannelHolders(c))
  /\ \A c \in Channels \ fresh : c \in chans <=> crefs[c] > 0
  /\ fresh \cap chans = {} /\ fresh \cap closed = {}
  /\ \A w \in Workers : at[w] \in SendPCs => ch[w] \notin fresh

\* With one worker: what it works on, and what nobody else can change meanwhile.
RunPCs == {"claimed", "resume", "close"} \cup (SlicePCs \ {"sel_join", "sel_drop"})
HoldPCs == {"find", "claim", "open_push", "rel_push", "send_wake"}
Sending == {"send_pop", "send_find", "send_cas", "send_wake", "send_drop"}
Statused(w) ==
  /\ at[w] \in RunPCs => status[cur[w]] = "RUNNING"
  /\ at[w] \in {"sel_join", "sel_drop"} => status[cur[w]] = "BLOCKED"
  /\ at[w] \in {"release", "rel_check"} => status[cur[w]] \in {"RUNNING", "BLOCKED"}
  /\ at[w] \in {"claimed", "resume", "rel_check"} => lua[cur[w]] = "open"
  /\ at[w] \in {"rel_check", "rel_push", "rel_drop"} => tok[w] = cur[w]
  /\ at[w] \in {"rel_push", "rel_drop"} => status[cur[w]] # "RUNNING"
  /\ at[w] \in HoldPCs \cup {"open_id", "open_reg"} => status[tok[w]] = "READY"
\* A handle in the run queue is that of a ready task, and the only one.
Once(w) ==
  /\ \A t \in Tasks : Has(runq[w], t) => status[t] = "READY"
  /\ \A i, j \in DOMAIN runq[w] : runq[w][i] = runq[w][j] => i = j
  /\ at[w] \in HoldPCs => ~ Has(runq[w], tok[w])
Worked(w) ==
  /\ \A t \in Tasks : lua[t] = "closed" => status[t] = "RUNNING"
  /\ \A t \in live : status[t] = "RUNNING" => at[w] \in CurPCs /\ cur[w] = t
\* A blocked task waits for a message only while one is being sent.
Answered(w) ==
  /\ \A t \in live : status[t] = "BLOCKED" =>
       \A c \in waits[t] \cap chans : mq[c] = 0 \/ (at[w] \in Sending /\ ch[w] = c)
  /\ at[w] = "sel_check" => \A i \in 1 .. k[w] : sel[w][i] \in chans => mq[sel[w][i]] = 0
  /\ at[w] = "sel_block" => \A i \in DOMAIN sel[w] : sel[w][i] \in chans => mq[sel[w][i]] = 0
Solo == fault = "none" /\ \A w \in Workers : Statused(w) /\ Once(w) /\ Worked(w) /\ Answered(w)

-----------------------------------------------------------------------------
(* Types.                                                                  *)

LEMMA ConstantsFit ==
  /\ N \in Nat /\ N > 0 /\ MaxTasks \in Nat /\ 0 \in Workers /\ Workers = 0 .. N - 1
  /\ IsFiniteSet(Workers) /\ Tasks = 1 .. MaxTasks /\ Selects \subseteq Seq(Channels)
  /\ Initial \in Nat /\ Initial <= MaxTasks /\ Made \subseteq Channels
<1>1. N \in Nat /\ N > 0 /\ MaxTasks \in Nat /\ Initial \in Nat /\ Initial <= MaxTasks
  BY SizesOK
<1>2. IsFiniteSet(0 .. N - 1)
  BY <1>1, FS_Interval
<1> QED
  BY <1>1, <1>2, SizesOK DEF Workers, Tasks

\* A worker writes to its own variables only.
LEMMA OthersStand ==
  ASSUME TInv, NEW w \in Workers, Step(w), NEW v \in Workers, v # w
  PROVE  at'[v] = at[v] /\ cur'[v] = cur[v] /\ tok'[v] = tok[v] /\ ch'[v] = ch[v] /\ sel'[v] = sel[v] /\ k'[v] = k[v]
<1>0. /\ at \in [Workers -> PCs] /\ cur \in [Workers -> 0 .. opened] /\ tok \in [Workers -> 0 .. opened]
      /\ k \in [Workers -> Nat] /\ sel \in [Workers -> Seq(Channels)] /\ ch \in [Workers -> Channels \cup {0}]
  BY DEF TInv, Typed, TypeOK
<1>1. CASE Loop(w)
  <2>1. CASE Top(w) \/ Pop(w) \/ Find(w) \/ Claim(w) \/ Claimed(w) \/ Resume(w) \/ CloseTask(w)
    BY <1>0, <2>1 DEF Top, Pop, Find, Claim, Claimed, Resume, CloseTask, Go, From, Goto, Die, locals
  <2>2. CASE Release(w) \/ RelCheck(w) \/ RelPush(w) \/ RelDrop(w)
    BY <1>0, <2>2 DEF Release, RelCheck, RelPush, RelDrop, Go, From, Goto, Die, locals
  <2>3. CASE Notify(w) \/ Trigger(w) \/ Suspend(w) \/ Wait(w)
    BY <1>0, <2>3 DEF Notify, Trigger, Suspend, Wait, Go, From, Goto, locals
  <2> QED
    BY <1>1, <2>1, <2>2, <2>3 DEF Loop
<1>2. CASE EndSlice(w)
  BY <1>0, <1>2 DEF EndSlice, Yield, Finish, CloseLua, Go, From, Goto, Die, locals
<1>3. CASE Slice(w)
  <2>1. CASE CallOpen(w) \/ OpenNew(w) \/ OpenPush(w) \/ OpenId(w) \/ OpenReg(w)
    BY <1>0, <2>1 DEF CallOpen, OpenNew, OpenPush, OpenId, OpenReg, Go, From, Goto, Die, locals
  <2>2. CASE \E c \in Channels : Channel(w, c) \/ Close(w, c) \/ Recv(w, c) \/ CallSend(w, c)
    BY <1>0, <2>2 DEF Channel, Close, Recv, CallSend, Go, From, Goto, locals
  <2>3. CASE SendPush(w) \/ SendPop(w) \/ SendFind(w) \/ SendCas(w) \/ SendWake(w) \/ SendDrop(w) \/ SendDone(w)
    BY <1>0, <2>3 DEF SendPush, SendPop, SendFind, SendCas, SendWake, SendDrop, SendDone, Go, From, Goto, locals
  <2>4. CASE \E s \in Selects : CallSelect(w, s)
    BY <1>0, <2>4 DEF CallSelect, CloseLua, From, Goto, locals
  <2>5. CASE SelCheck(w) \/ SelFound(w) \/ SelBlock(w) \/ SelJoin(w) \/ SelDrop(w)
    BY <1>0, <2>5 DEF SelCheck, SelFound, SelBlock, SelJoin, SelDrop, Go, From, Goto, locals
  <2> QED
    BY <1>3, <2>1, <2>2, <2>3, <2>4, <2>5 DEF Slice
<1> QED
  BY <1>1, <1>2, <1>3 DEF Step

\* Which steps write to which variables.
LEMMA Frames ==
  ASSUME NEW w \in Workers, Step(w)
  PROVE  /\ runq' = runq \/ Pop(w) \/ RelPush(w) \/ OpenPush(w) \/ SendWake(w)
         /\ (current' = current /\ opened' = opened) \/ OpenNew(w)
         /\ suspend' = suspend \/ Top(w) \/ Suspend(w)
         /\ flag' = flag \/ Trigger(w) \/ Wait(w)
         /\ status' = status \/ Claim(w) \/ RelCheck(w) \/ OpenNew(w) \/ SendCas(w) \/ SelBlock(w)
         /\ home' = home \/ Claim(w) \/ OpenNew(w)
         /\ \/ live' = live /\ refs' = refs
            \/ Find(w) \/ Claimed(w) \/ CloseTask(w) \/ Release(w) \/ RelDrop(w) \/ OpenNew(w) \/ SendFind(w)
            \/ SendDrop(w) \/ (\E s \in Selects : CallSelect(w, s)) \/ SelFound(w) \/ SelDrop(w)
         /\ ltid' = ltid \/ OpenId(w)
         /\ lua' = lua \/ Finish(w) \/ \E s \in Selects : CallSelect(w, s)
         /\ registered' = registered \/ OpenReg(w)
         /\ fresh' = fresh \/ \E c \in Channels : Channel(w, c)
         /\ closed' = closed \/ \E c \in Channels : Close(w, c)
         /\ \/ chans' = chans /\ crefs' = crefs
            \/ (\E c \in Channels : Channel(w, c) \/ Close(w, c) \/ CallSend(w, c)) \/ SendDone(w)
         /\ mq' = mq \/ SendPush(w) \/ \E c \in Channels : Recv(w, c)
         /\ reader' = reader \/ SendPop(w) \/ SelJoin(w)
         /\ waits' = waits \/ SelBlock(w)
<1>1. CASE Loop(w)
  BY <1>1 DEF Loop, Top, Pop, Find, Claim, Claimed, Resume, CloseTask, Release, RelCheck, RelPush, RelDrop,
              Notify, Trigger, Suspend, Wait, schedvars, sleepvars, taskvars, luavars, chanvars
<1>2. CASE EndSlice(w)
  BY <1>2 DEF EndSlice, Yield, CloseLua, schedvars, sleepvars, taskvars, luavars, chanvars, Finish
<1>3. CASE Slice(w)
  BY <1>3 DEF Slice, CallOpen, OpenNew, OpenPush, OpenId, OpenReg, Channel, Close, Recv, CallSend, SendPush,
              SendPop, SendFind, SendCas, SendWake, SendDrop, SendDone, CallSelect, CloseLua, SelCheck, SelFound,
              SelBlock, SelJoin, SelDrop, schedvars, sleepvars, taskvars, luavars, chanvars
<1> QED
  BY <1>1, <1>2, <1>3 DEF Step
\* A worker writes to its own place and its own variables only.
LEMMA OwnOnly ==
  ASSUME TInv, NEW w \in Workers, Step(w)
  PROVE  /\ at' = [at EXCEPT ![w] = at'[w]] /\ cur' = [cur EXCEPT ![w] = cur'[w]]
         /\ tok' = [tok EXCEPT ![w] = tok'[w]] /\ ch' = [ch EXCEPT ![w] = ch'[w]]
         /\ sel' = [sel EXCEPT ![w] = sel'[w]] /\ k' = [k EXCEPT ![w] = k'[w]]
<1>0. /\ at \in [Workers -> PCs] /\ cur \in [Workers -> 0 .. opened] /\ tok \in [Workers -> 0 .. opened]
      /\ k \in [Workers -> Nat] /\ sel \in [Workers -> Seq(Channels)] /\ ch \in [Workers -> Channels \cup {0}]
  BY DEF TInv, Typed, TypeOK
<1>1. CASE Loop(w)
  BY <1>0, <1>1 DEF Loop, Top, Pop, Find, Claim, Claimed, Resume, CloseTask, Release, RelCheck, RelPush, RelDrop, Notify, Trigger, Suspend, Wait, Go, From, Goto, Die, locals
<1>2. CASE EndSlice(w)
  BY <1>0, <1>2 DEF EndSlice, Yield, Finish, CloseLua, Go, From, Goto, Die, locals
<1>3. CASE Slice(w)
  BY <1>0, <1>3 DEF Slice, CallOpen, OpenNew, OpenPush, OpenId, OpenReg, Channel, Close, Recv, CallSend, SendPush, SendPop, SendFind, SendCas, SendWake, SendDrop, SendDone, CallSelect, SelCheck, SelFound, SelBlock, SelJoin, SelDrop, CloseLua, Go, From, Goto, Die, locals
<1> QED
  BY <1>1, <1>2, <1>3 DEF Step
\* The next place of a worker, and what it carries there.
LEMMA OwnStep ==
  ASSUME TInv, NEW w \in Workers, Step(w)
  PROVE  /\ at'[w] \in PCs /\ cur'[w] \in 0 .. opened' /\ tok'[w] \in 0 .. opened' /\ k'[w] \in Nat
         /\ sel'[w] \in Seq(Channels) /\ ch'[w] \in Channels \cup {0} /\ opened' \in {opened, opened + 1} /\ Fits(w)'
<1> DEFINE Own == /\ at'[w] \in PCs /\ cur'[w] \in 0 .. opened' /\ tok'[w] \in 0 .. opened' /\ k'[w] \in Nat
                  /\ sel'[w] \in Seq(Channels) /\ ch'[w] \in Channels \cup {0} /\ opened' \in {opened, opened + 1} /\ Fits(w)'
<1>0. /\ at \in [Workers -> PCs] /\ cur \in [Workers -> 0 .. opened] /\ tok \in [Workers -> 0 .. opened]
      /\ k \in [Workers -> Nat] /\ sel \in [Workers -> Seq(Channels)] /\ ch \in [Workers -> Channels \cup {0}]
      /\ Fits(w) /\ opened \in Nat /\ N \in Nat /\ N > 0
  BY SMTT(20), ConstantsFit DEF TInv, Typed, TypeOK
<1>1. /\ cur[w] \in 0 .. opened /\ tok[w] \in 0 .. opened /\ k[w] \in Nat /\ sel[w] \in Seq(Channels)
      /\ ch[w] \in Channels \cup {0}
  BY <1>0
<1>2. CASE Top(w)
  BY <1>0, <1>1, <1>2 DEF Top, Go, From, Goto, Die, schedvars, locals, PCs, SlicePCs, Fits, TokPCs, CurPCs, SendPCs, LoopPCs
<1>3. ASSUME Pop(w) PROVE Own
  <2>1. (w + k[w]) % N \in Workers
    BY ConstantsFit, <1>1
  <2>2. runq[(w + k[w]) % N] # <<>> => Head(runq[(w + k[w]) % N]) \in 1 .. opened
    BY <2>1, HeadTailProperties DEF TInv, Typed, TypeOK
  <2>3. /\ at[w] = "pop" /\ cur'[w] = cur[w] /\ ch'[w] = ch[w] /\ sel'[w] = sel[w] /\ opened' = opened
        /\ \/ at'[w] = "find" /\ tok'[w] \in 1 .. opened /\ k'[w] = 0
           \/ at'[w] = "pop" /\ tok'[w] = tok[w] /\ k'[w] = k[w] + 1 /\ k[w] + 1 < N
           \/ at'[w] = "idle" /\ tok'[w] = tok[w] /\ k'[w] = 0
    BY <1>0, <1>1, <2>1, <2>2, <1>3 DEF Pop, Go, From, Goto, Die, schedvars, locals
  <2> QED
    BY <1>0, <1>1, <2>3 DEF PCs, SlicePCs, Fits, TokPCs, CurPCs, SendPCs, LoopPCs
<1>4. CASE Find(w)
  BY <1>0, <1>1, <1>4 DEF Find, Go, From, Goto, Die, schedvars, locals, PCs, SlicePCs, Fits, TokPCs, CurPCs, SendPCs, LoopPCs
<1>5. CASE Claim(w)
  BY <1>0, <1>1, <1>5 DEF Claim, Go, From, Goto, Die, schedvars, locals, PCs, SlicePCs, Fits, TokPCs, CurPCs, SendPCs, LoopPCs
<1>6. ASSUME Claimed(w) PROVE Own
  <2>1. /\ at[w] = "claimed" /\ cur'[w] = cur[w] /\ ch'[w] = ch[w] /\ sel'[w] = sel[w] /\ k'[w] = k[w] /\ opened' = opened
        /\ at'[w] = "resume" /\ tok'[w] = 0
    BY <1>0, <1>1, <1>6 DEF Claimed, Go, From, Goto, Die, schedvars, locals
  <2> QED
    BY <1>0, <1>1, <2>1 DEF PCs, SlicePCs, Fits, TokPCs, CurPCs, SendPCs, LoopPCs
<1>7. CASE Resume(w)
  BY <1>0, <1>1, <1>7 DEF Resume, Go, From, Goto, Die, schedvars, locals, PCs, SlicePCs, Fits, TokPCs, CurPCs, SendPCs, LoopPCs
<1>8. CASE Yield(w)
  BY <1>0, <1>1, <1>8 DEF Yield, Go, From, Goto, Die, schedvars, locals, PCs, SlicePCs, Fits, TokPCs, CurPCs, SendPCs, LoopPCs
<1>9. CASE Finish(w)
  BY <1>0, <1>1, <1>9 DEF Finish, CloseLua, Go, From, Goto, Die, schedvars, locals, PCs, SlicePCs, Fits, TokPCs, CurPCs, SendPCs, LoopPCs
<1>10. CASE CloseTask(w)
  BY <1>0, <1>1, <1>10 DEF CloseTask, Go, From, Goto, Die, schedvars, locals, PCs, SlicePCs, Fits, TokPCs, CurPCs, SendPCs, LoopPCs
<1>11. ASSUME Release(w) PROVE Own
  <2>1. live \subseteq 1 .. opened
    BY DEF TInv, Typed, TypeOK
  <2>2. /\ at[w] = "release" /\ cur'[w] = cur[w] /\ ch'[w] = ch[w] /\ sel'[w] = sel[w] /\ k'[w] = k[w] /\ opened' = opened
        /\ \/ at'[w] = "rel_check" /\ tok'[w] \in 1 .. opened
           \/ at'[w] = "notify" /\ tok'[w] = tok[w]
    BY <1>0, <1>1, <2>1, <1>11 DEF Release, Go, From, Goto, Die, schedvars, locals
  <2> QED
    BY <1>0, <1>1, <2>2 DEF PCs, SlicePCs, Fits, TokPCs, CurPCs, SendPCs, LoopPCs
<1>12. CASE RelCheck(w)
  BY <1>0, <1>1, <1>12 DEF RelCheck, Go, From, Goto, Die, schedvars, locals, PCs, SlicePCs, Fits, TokPCs, CurPCs, SendPCs, LoopPCs
<1>13. CASE RelPush(w)
  BY <1>0, <1>1, <1>13 DEF RelPush, Go, From, Goto, Die, schedvars, locals, PCs, SlicePCs, Fits, TokPCs, CurPCs, SendPCs, LoopPCs
<1>14. ASSUME RelDrop(w) PROVE Own
  <2>1. /\ at[w] = "rel_drop" /\ cur'[w] = cur[w] /\ ch'[w] = ch[w] /\ sel'[w] = sel[w] /\ k'[w] = k[w] /\ opened' = opened
        /\ at'[w] = "notify" /\ tok'[w] = 0
    BY <1>0, <1>1, <1>14 DEF RelDrop, Go, From, Goto, Die, schedvars, locals
  <2> QED
    BY <1>0, <1>1, <2>1 DEF PCs, SlicePCs, Fits, TokPCs, CurPCs, SendPCs, LoopPCs
<1>15. ASSUME Notify(w) PROVE Own
  <2>1. /\ at[w] = "notify" /\ cur'[w] = cur[w] /\ ch'[w] = ch[w] /\ sel'[w] = sel[w] /\ tok'[w] = tok[w] /\ opened' = opened
        /\ \/ at'[w] = "pop" /\ k'[w] = 0
           \/ at'[w] = "trigger" /\ k'[w] = k[w] /\ k[w] # N
           \/ at'[w] = "notify" /\ k'[w] = k[w] + 1 /\ k[w] # N
    BY <1>0, <1>1, <1>15 DEF Notify, Go, From, Goto, Die, schedvars, locals
  <2> QED
    BY <1>0, <1>1, <2>1 DEF PCs, SlicePCs, Fits, TokPCs, CurPCs, SendPCs, LoopPCs
<1>16. ASSUME Trigger(w) PROVE Own
  <2>1. /\ at[w] = "trigger" /\ cur'[w] = cur[w] /\ ch'[w] = ch[w] /\ sel'[w] = sel[w] /\ tok'[w] = tok[w] /\ opened' = opened
        /\ at'[w] = "notify" /\ k'[w] = k[w] + 1
    BY <1>0, <1>1, <1>16 DEF Trigger, Go, From, Goto, Die, schedvars, locals
  <2> QED
    BY <1>0, <1>1, <2>1 DEF PCs, SlicePCs, Fits, TokPCs, CurPCs, SendPCs, LoopPCs
<1>17. CASE Suspend(w)
  BY <1>0, <1>1, <1>17 DEF Suspend, Go, From, Goto, Die, schedvars, locals, PCs, SlicePCs, Fits, TokPCs, CurPCs, SendPCs, LoopPCs
<1>18. CASE Wait(w)
  BY <1>0, <1>1, <1>18 DEF Wait, Go, From, Goto, Die, schedvars, locals, PCs, SlicePCs, Fits, TokPCs, CurPCs, SendPCs, LoopPCs
<1>19. ASSUME CallOpen(w) PROVE Own
  <2>1. current \in 0 .. N - 1
    BY DEF TInv, Typed, TypeOK, Workers
  <2>2. /\ at[w] = "lua" /\ cur'[w] = cur[w] /\ ch'[w] = ch[w] /\ sel'[w] = sel[w] /\ tok'[w] = tok[w] /\ opened' = opened
        /\ at'[w] = "open_new" /\ k'[w] \in 0 .. N - 1
    BY <1>0, <1>1, <2>1, <1>19 DEF CallOpen, Go, From, Goto, Die, schedvars, locals
  <2> QED
    BY <1>0, <1>1, <2>2 DEF PCs, SlicePCs, Fits, TokPCs, CurPCs, SendPCs, LoopPCs
<1>20. ASSUME OpenNew(w) PROVE Own
  <2>1. /\ at[w] = "open_new" /\ cur'[w] = cur[w] /\ ch'[w] = ch[w] /\ sel'[w] = sel[w]
        /\ at'[w] = "open_push" /\ k'[w] = 0 /\ opened' = opened + 1 /\ tok'[w] = opened'
    BY <1>0, <1>1, <1>20 DEF OpenNew, Go, From, Goto, Die, schedvars, locals
  <2> QED
    BY <1>0, <1>1, <2>1 DEF PCs, SlicePCs, Fits, TokPCs, CurPCs, SendPCs, LoopPCs
<1>21. CASE OpenPush(w)
  BY <1>0, <1>1, <1>21 DEF OpenPush, Go, From, Goto, Die, schedvars, locals, PCs, SlicePCs, Fits, TokPCs, CurPCs, SendPCs, LoopPCs
<1>22. CASE OpenId(w)
  BY <1>0, <1>1, <1>22 DEF OpenId, Go, From, Goto, Die, schedvars, locals, PCs, SlicePCs, Fits, TokPCs, CurPCs, SendPCs, LoopPCs
<1>23. ASSUME OpenReg(w) PROVE Own
  <2>1. /\ at[w] = "open_reg" /\ cur'[w] = cur[w] /\ ch'[w] = ch[w] /\ sel'[w] = sel[w] /\ k'[w] = k[w] /\ opened' = opened
        /\ \/ at'[w] = "lua" /\ tok'[w] = 0
           \/ at'[w] = "open_reg" /\ tok'[w] = tok[w]
    BY <1>0, <1>1, <1>23 DEF OpenReg, Go, From, Goto, Die, schedvars, locals
  <2> QED
    BY <1>0, <1>1, <2>1 DEF PCs, SlicePCs, Fits, TokPCs, CurPCs, SendPCs, LoopPCs
<1>24. CASE \E c \in Channels : Channel(w, c)
  BY <1>0, <1>1, <1>24 DEF Channel, Go, From, Goto, Die, schedvars, locals, PCs, SlicePCs, Fits, TokPCs, CurPCs, SendPCs, LoopPCs
<1>25. CASE \E c \in Channels : Close(w, c)
  BY <1>0, <1>1, <1>25 DEF Close, Go, From, Goto, Die, schedvars, locals, PCs, SlicePCs, Fits, TokPCs, CurPCs, SendPCs, LoopPCs
<1>26. CASE \E c \in Channels : Recv(w, c)
  BY <1>0, <1>1, <1>26 DEF Recv, Go, From, Goto, Die, schedvars, locals, PCs, SlicePCs, Fits, TokPCs, CurPCs, SendPCs, LoopPCs
<1>27. ASSUME \E c \in Channels : CallSend(w, c) PROVE Own
  <2>1. /\ at[w] = "lua" /\ cur'[w] = cur[w] /\ tok'[w] = tok[w] /\ sel'[w] = sel[w] /\ k'[w] = k[w] /\ opened' = opened
        /\ \/ at'[w] = "send_push" /\ ch'[w] \in Channels
           \/ at'[w] = "lua" /\ ch'[w] = ch[w]
    BY <1>0, <1>1, <1>27 DEF CallSend, Go, From, Goto, Die, schedvars, locals
  <2> QED
    BY <1>0, <1>1, <2>1 DEF PCs, SlicePCs, Fits, TokPCs, CurPCs, SendPCs, LoopPCs
<1>28. CASE SendPush(w)
  BY <1>0, <1>1, <1>28 DEF SendPush, Go, From, Goto, Die, schedvars, locals, PCs, SlicePCs, Fits, TokPCs, CurPCs, SendPCs, LoopPCs
<1>29. ASSUME SendPop(w) PROVE Own
  <2>1. ch[w] \in Channels
    BY <1>0, <1>29 DEF SendPop, Fits, SendPCs, From
  <2>2. reader[ch[w]] # <<>> => Head(reader[ch[w]]) \in 1 .. opened
    BY <2>1, HeadTailProperties DEF TInv, Typed, TypeOK
  <2>3. /\ at[w] = "send_pop" /\ cur'[w] = cur[w] /\ ch'[w] = ch[w] /\ sel'[w] = sel[w] /\ k'[w] = k[w] /\ opened' = opened
        /\ \/ at'[w] = "send_find" /\ tok'[w] \in 1 .. opened
           \/ at'[w] = "send_done" /\ tok'[w] = tok[w]
    BY <1>0, <1>1, <2>1, <2>2, <1>29 DEF SendPop, Go, From, Goto, Die, schedvars, locals
  <2> QED
    BY <1>0, <1>1, <2>3 DEF PCs, SlicePCs, Fits, TokPCs, CurPCs, SendPCs, LoopPCs
<1>30. ASSUME SendFind(w) PROVE Own
  <2>1. /\ at[w] = "send_find" /\ cur'[w] = cur[w] /\ ch'[w] = ch[w] /\ sel'[w] = sel[w] /\ k'[w] = k[w] /\ opened' = opened
        /\ \/ at'[w] = "send_cas" /\ tok'[w] = tok[w]
           \/ at'[w] = "send_pop" /\ tok'[w] = 0
    BY <1>0, <1>1, <1>30 DEF SendFind, Go, From, Goto, Die, schedvars, locals
  <2> QED
    BY <1>0, <1>1, <2>1 DEF PCs, SlicePCs, Fits, TokPCs, CurPCs, SendPCs, LoopPCs
<1>31. CASE SendCas(w)
  BY <1>0, <1>1, <1>31 DEF SendCas, Go, From, Goto, Die, schedvars, locals, PCs, SlicePCs, Fits, TokPCs, CurPCs, SendPCs, LoopPCs
<1>32. CASE SendWake(w)
  BY <1>0, <1>1, <1>32 DEF SendWake, Go, From, Goto, Die, schedvars, locals, PCs, SlicePCs, Fits, TokPCs, CurPCs, SendPCs, LoopPCs
<1>33. ASSUME SendDrop(w) PROVE Own
  <2>1. /\ at[w] = "send_drop" /\ cur'[w] = cur[w] /\ ch'[w] = ch[w] /\ sel'[w] = sel[w] /\ k'[w] = k[w] /\ opened' = opened
        /\ at'[w] = "send_pop" /\ tok'[w] = 0
    BY <1>0, <1>1, <1>33 DEF SendDrop, Go, From, Goto, Die, schedvars, locals
  <2> QED
    BY <1>0, <1>1, <2>1 DEF PCs, SlicePCs, Fits, TokPCs, CurPCs, SendPCs, LoopPCs
<1>34. ASSUME SendDone(w) PROVE Own
  <2>1. /\ at[w] = "send_done" /\ cur'[w] = cur[w] /\ tok'[w] = tok[w] /\ sel'[w] = sel[w] /\ k'[w] = k[w] /\ opened' = opened
        /\ at'[w] = "lua" /\ ch'[w] = 0
    BY <1>0, <1>1, <1>34 DEF SendDone, Go, From, Goto, Die, schedvars, locals
  <2> QED
    BY <1>0, <1>1, <2>1 DEF PCs, SlicePCs, Fits, TokPCs, CurPCs, SendPCs, LoopPCs
<1>35. ASSUME \E s \in Selects : CallSelect(w, s) PROVE Own
  <2>1. Selects \subseteq Seq(Channels)
    BY ConstantsFit
  <2>2. /\ at[w] = "lua" /\ cur'[w] = cur[w] /\ tok'[w] = tok[w] /\ ch'[w] = ch[w] /\ k'[w] = k[w] /\ opened' = opened
        /\ \/ at'[w] = "sel_check" /\ sel'[w] \in Seq(Channels)
           \/ at'[w] \in {"release", "close"} /\ sel'[w] \in Seq(Channels)
    BY <1>0, <1>1, <2>1, <1>35 DEF CallSelect, CloseLua, Go, From, Goto, Die, schedvars, locals
  <2> QED
    BY <1>0, <1>1, <2>2 DEF PCs, SlicePCs, Fits, TokPCs, CurPCs, SendPCs, LoopPCs
<1>36. ASSUME SelCheck(w) PROVE Own
  <2>1. /\ at[w] = "sel_check" /\ cur'[w] = cur[w] /\ tok'[w] = tok[w] /\ ch'[w] = ch[w] /\ sel'[w] = sel[w] /\ opened' = opened
        /\ \/ at'[w] \in {"sel_block", "sel_found"} /\ k'[w] = 0
           \/ at'[w] = "sel_check" /\ k'[w] = k[w] + 1 /\ k[w] # Len(sel[w])
    BY <1>0, <1>1, <1>36 DEF SelCheck, Go, From, Goto, Die, schedvars, locals
  <2> QED
    BY <1>0, <1>1, <2>1 DEF PCs, SlicePCs, Fits, TokPCs, CurPCs, SendPCs, LoopPCs
<1>37. ASSUME SelFound(w) PROVE Own
  <2>1. /\ at[w] = "sel_found" /\ cur'[w] = cur[w] /\ tok'[w] = tok[w] /\ ch'[w] = ch[w] /\ k'[w] = k[w] /\ opened' = opened
        /\ at'[w] = "lua" /\ sel'[w] = <<>>
    BY <1>0, <1>1, <1>37 DEF SelFound, Go, From, Goto, Die, schedvars, locals
  <2> QED
    BY <1>0, <1>1, <2>1 DEF PCs, SlicePCs, Fits, TokPCs, CurPCs, SendPCs, LoopPCs
<1>38. ASSUME SelBlock(w) PROVE Own
  <2>1. /\ at[w] = "sel_block" /\ cur'[w] = cur[w] /\ tok'[w] = tok[w] /\ ch'[w] = ch[w] /\ sel'[w] = sel[w] /\ k'[w] = k[w] /\ opened' = opened
        /\ at'[w] = "sel_join"
    BY <1>0, <1>1, <1>38 DEF SelBlock, Go, From, Goto, Die, schedvars, locals
  <2> QED
    BY <1>0, <1>1, <2>1 DEF PCs, SlicePCs, Fits, TokPCs, CurPCs, SendPCs, LoopPCs
<1>39. ASSUME SelJoin(w) PROVE Own
  <2>1. /\ at[w] = "sel_join" /\ cur'[w] = cur[w] /\ tok'[w] = tok[w] /\ ch'[w] = ch[w] /\ sel'[w] = sel[w] /\ opened' = opened
        /\ \/ at'[w] = "sel_drop" /\ k'[w] = 0
           \/ at'[w] = "sel_join" /\ k'[w] = k[w] + 1 /\ k[w] # Len(sel[w])
    BY <1>0, <1>1, <1>39 DEF SelJoin, Go, From, Goto, Die, schedvars, locals
  <2> QED
    BY <1>0, <1>1, <2>1 DEF PCs, SlicePCs, Fits, TokPCs, CurPCs, SendPCs, LoopPCs
<1>40. ASSUME SelDrop(w) PROVE Own
  <2>1. /\ at[w] = "sel_drop" /\ cur'[w] = cur[w] /\ tok'[w] = tok[w] /\ ch'[w] = ch[w] /\ k'[w] = k[w] /\ opened' = opened
        /\ at'[w] = "release" /\ sel'[w] = <<>>
    BY <1>0, <1>1, <1>40 DEF SelDrop, Go, From, Goto, Die, schedvars, locals
  <2> QED
    BY <1>0, <1>1, <2>1 DEF PCs, SlicePCs, Fits, TokPCs, CurPCs, SendPCs, LoopPCs
<1> QED
  BY <1>2, <1>3, <1>4, <1>5, <1>6, <1>7, <1>8, <1>9, <1>10, <1>11, <1>12, <1>13, <1>14, <1>15, <1>16, <1>17, <1>18, <1>19, <1>20, <1>21, <1>22, <1>23, <1>24, <1>25, <1>26, <1>27, <1>28, <1>29, <1>30, <1>31, <1>32, <1>33, <1>34, <1>35, <1>36, <1>37, <1>38, <1>39, <1>40 DEF Step, Loop, EndSlice, Slice

\* What a grab or a release of a live task's handle leaves.
LEMMA RefSteps ==
  ASSUME Typed, NEW t, (GrabTask(t) /\ t \in live) \/ ReleaseTask(t)
  PROVE  refs' \in [Tasks -> Nat] /\ live' \subseteq live /\ \A u \in live' : refs'[u] > 0
<1>0. /\ refs \in [Tasks -> Nat] /\ live \subseteq 1 .. opened /\ opened \in 0 .. MaxTasks
      /\ \A u \in live : refs[u] > 0
  BY DEF Typed, TypeOK
<1>1. refs \in [Tasks -> Nat] /\ live \subseteq Tasks /\ \A u \in live : refs[u] > 0
  BY <1>0, ConstantsFit
<1>2. CASE GrabTask(t) /\ t \in live
  BY <1>1, <1>2 DEF GrabTask
<1>3. CASE t \in live /\ ReleaseTask(t)
  BY <1>1, <1>3 DEF ReleaseTask
<1>4. CASE t \notin live /\ ReleaseTask(t)
  BY <1>1, <1>4 DEF ReleaseTask
<1> QED
  BY <1>2, <1>3, <1>4

LEMMA ChannelRefSteps ==
  ASSUME Typed, NEW c, ReleaseChannel(c)
  PROVE  crefs' \in [Channels -> Nat] /\ chans' \subseteq chans /\ \A d \in chans' : crefs'[d] > 0
<1>1. crefs \in [Channels -> Nat] /\ chans \subseteq Channels /\ \A d \in chans : crefs[d] > 0
  BY DEF Typed, TypeOK
<1> QED
  BY <1>1 DEF ReleaseChannel

LEMMA SeqsGrow ==
  ASSUME NEW S, NEW T, S \subseteq T, NEW s \in Seq(S)
  PROVE  s \in Seq(T)
<1> DEFINE c == [i \in 1 .. Len(s) |-> s[i]]
<1>1. Len(s) \in Nat /\ s \in [1 .. Len(s) -> S]
  BY LenProperties
<1>2. \A i \in 1 .. Len(s) : s[i] \in T
  BY <1>1
<1>3. c \in Seq(T)
  BY <1>1, <1>2
<1>4. s = c
  BY <1>1
<1> QED
  BY <1>3, <1>4

\* Handles of opened tasks stay so.
LEMMA Opened ==
  ASSUME TInv, NEW w \in Workers, Step(w)
  PROVE  /\ opened \in Nat /\ opened' \in Nat /\ opened <= opened' /\ 1 .. opened \subseteq 1 .. opened'
         /\ 1 .. opened \subseteq Tasks
         /\ \A s \in Seq(1 .. opened) : s \in Seq(1 .. opened')
<1>1. opened \in Nat /\ opened' \in Nat /\ opened <= opened' /\ opened <= MaxTasks
  <2>1. opened \in 0 .. MaxTasks
    BY DEF TInv, Typed, TypeOK
  <2> QED
    BY <2>1, OwnStep, ConstantsFit
<1>2. 1 .. opened \subseteq 1 .. opened' /\ 1 .. opened \subseteq Tasks
  BY <1>1, ConstantsFit
<1>3. \A s \in Seq(1 .. opened) : s \in Seq(1 .. opened')
  BY <1>2, SeqsGrow
<1> QED
  BY <1>1, <1>2, <1>3

LEMMA QueuesStep ==
  ASSUME TInv, NEW w \in Workers, Step(w)
  PROVE  runq' \in [Workers -> Seq(1 .. opened')] /\ reader' \in [Channels -> Seq(1 .. opened')]
<1>1. /\ runq \in [Workers -> Seq(1 .. opened)] /\ reader \in [Channels -> Seq(1 .. opened)]
      /\ home \in [Tasks -> Workers] /\ 1 .. opened \subseteq Tasks
  BY Opened DEF TInv, Typed, TypeOK
<1>2. runq' \in [Workers -> Seq(1 .. opened)]
  <2>1. CASE Pop(w)
    <3>1. CASE runq[(w + k[w]) % N] = <<>>
      BY <3>1, <2>1, <1>1 DEF Pop
    <3>2. CASE runq[(w + k[w]) % N] # <<>>
      <4>1. runq' = [runq EXCEPT ![(w + k[w]) % N] = Tail(@)]
        BY <3>2, <2>1 DEF Pop
      <4>2. (w + k[w]) % N \in Workers => Tail(runq[(w + k[w]) % N]) \in Seq(1 .. opened)
        BY <1>1, <3>2, HeadTailProperties
      <4> QED
        BY <1>1, <4>1, <4>2
    <3> QED
      BY <3>1, <3>2
  <2>2. ASSUME tok[w] \in 1 .. opened, PushReady(tok[w]) PROVE runq' \in [Workers -> Seq(1 .. opened)]
    <3>1. home[tok[w]] \in Workers
      BY <2>2, <1>1
    <3>2. Append(runq[home[tok[w]]], tok[w]) \in Seq(1 .. opened)
      BY <2>2, <1>1, <3>1, AppendProperties
    <3> QED
      BY <2>2, <1>1, <3>1, <3>2 DEF PushReady
  <2>3. RelPush(w) \/ OpenPush(w) \/ SendWake(w) => tok[w] \in 1 .. opened /\ PushReady(tok[w])
    BY DEF RelPush, OpenPush, SendWake, Go, From, TInv, Fits, TokPCs
  <2> QED
    BY <1>1, <2>1, <2>2, <2>3, Frames
<1>3. reader' \in [Channels -> Seq(1 .. opened)]
  <2>1. CASE SendPop(w)
    <3>1. ch[w] \in Channels
      BY <2>1 DEF SendPop, From, TInv, Fits, SendPCs
    <3>2. reader[ch[w]] # <<>> => Tail(reader[ch[w]]) \in Seq(1 .. opened)
      BY <1>1, <3>1, HeadTailProperties
    <3> QED
      BY <2>1, <1>1, <3>1, <3>2 DEF SendPop
  <2>2. CASE SelJoin(w)
    <3>1. cur[w] \in 1 .. opened
      BY <2>2 DEF SelJoin, From, TInv, Fits, CurPCs, SlicePCs
    <3>2. \A c \in Channels : Append(reader[c], cur[w]) \in Seq(1 .. opened)
      BY <1>1, <3>1, AppendProperties
    <3>3. reader' = reader \/ \E c \in chans : reader' = [reader EXCEPT ![c] = Append(@, cur[w])]
      BY <2>2 DEF SelJoin
    <3>4. chans \subseteq Channels
      BY DEF TInv, Typed, TypeOK
    <3> QED
      BY <1>1, <3>2, <3>3, <3>4
  <2> QED
    BY <1>1, <2>1, <2>2, Frames
<1> QED
  BY <1>1, <1>2, <1>3, Opened

\* A worker that opens a task has a handle left.
LEMMA RoomToOpen ==
  ASSUME TInv, NEW w \in Workers, at[w] = "open_new"
  PROVE  opened + 1 \in Tasks /\ IsFiniteSet(OpeningNow) /\ Cardinality(OpeningNow) \in Nat
<1>1. IsFiniteSet(OpeningNow) /\ Cardinality(OpeningNow) \in Nat
  BY ConstantsFit, FS_Subset, FS_CardinalityType DEF OpeningNow
<1>2. OpeningNow # {}
  BY DEF OpeningNow
<1>3. Cardinality(OpeningNow) # 0
  BY <1>1, <1>2, FS_EmptySet
<1>4. opened \in Nat /\ opened + Cardinality(OpeningNow) <= MaxTasks
  BY DEF TInv, Typed, TypeOK
<1> QED
  BY <1>1, <1>3, <1>4, ConstantsFit

\* Apart from opening a task, a step grabs or releases one handle or leaves the map.
LEMMA Counted ==
  ASSUME NEW w \in Workers, Step(w), ~ OpenNew(w)
  PROVE  (live' = live /\ refs' = refs) \/ \E t : (GrabTask(t) /\ t \in live) \/ ReleaseTask(t)
<1> DEFINE Kept == live' = live /\ refs' = refs
           Taken == \E t : (GrabTask(t) /\ t \in live) \/ ReleaseTask(t)
<1>1. Find(w) => Kept \/ Taken
  BY DEF Find
<1>2. Release(w) => Kept \/ Taken
  BY DEF Release
<1>3. SendFind(w) => Kept \/ Taken
  BY DEF SendFind
<1>4. (\E s \in Selects : CallSelect(w, s)) => Kept \/ Taken
  BY DEF CallSelect, CloseLua, taskvars
<1>5. Claimed(w) \/ CloseTask(w) \/ RelDrop(w) \/ SendDrop(w) \/ SelFound(w) \/ SelDrop(w) => Taken
  BY DEF Claimed, CloseTask, RelDrop, SendDrop, SelFound, SelDrop
<1> HIDE DEF Kept, Taken
<1>6. Kept \/ Taken
  <2>1. Kept \/ Find(w) \/ Claimed(w) \/ CloseTask(w) \/ Release(w) \/ RelDrop(w) \/ OpenNew(w) \/ SendFind(w)
          \/ SendDrop(w) \/ (\E s \in Selects : CallSelect(w, s)) \/ SelFound(w) \/ SelDrop(w)
    BY Frames DEF Kept
  <2> QED
    BY <2>1, <1>1, <1>2, <1>3, <1>4, <1>5
<1> QED
  BY <1>6 DEF Kept, Taken

LEMMA LiveShrinks ==
  ASSUME TInv, NEW w \in Workers, Step(w), ~ OpenNew(w)
  PROVE  live' \subseteq live
BY Counted, RefSteps DEF TInv

\* The status, the home, the handle and the references of the tasks.
LEMMA TasksStep ==
  ASSUME TInv, NEW w \in Workers, Step(w)
  PROVE  /\ status' \in [Tasks -> Statuses] /\ home' \in [Tasks -> Workers]
         /\ live' \subseteq 1 .. opened' /\ refs' \in [Tasks -> Nat] /\ \A u \in live' : refs'[u] > 0
<1>1. /\ status \in [Tasks -> Statuses] /\ home \in [Tasks -> Workers] /\ live \subseteq 1 .. opened
      /\ refs \in [Tasks -> Nat] /\ (\A u \in live : refs[u] > 0) /\ opened \in 0 .. MaxTasks
      /\ Typed /\ Fits(w)
  BY DEF TInv, Typed, TypeOK
<1>2. status' \in [Tasks -> Statuses]
  <2>1. \A t : \A s \in Statuses : [status EXCEPT ![t] = s] \in [Tasks -> Statuses]
    BY <1>1
  <2>2. "READY" \in Statuses /\ "RUNNING" \in Statuses /\ "BLOCKED" \in Statuses
    BY DEF Statuses
  <2>3. status' = status \/ \E t : \E s \in Statuses : status' = [status EXCEPT ![t] = s]
    <3>1. Claim(w) \/ RelCheck(w) \/ SendCas(w) => status' = status \/ status' = [status EXCEPT ![tok[w]] = "RUNNING"]
                                                   \/ status' = [status EXCEPT ![tok[w]] = "READY"]
      BY DEF Claim, RelCheck, SendCas
    <3>2. OpenNew(w) => status' = [status EXCEPT ![opened + 1] = "READY"]
      BY DEF OpenNew
    <3>3. SelBlock(w) => status' = [status EXCEPT ![cur[w]] = "BLOCKED"]
      BY DEF SelBlock
    <3> QED
      BY <2>2, <3>1, <3>2, <3>3, Frames
  <2> QED
    BY <1>1, <2>3
<1>3. home' \in [Tasks -> Workers]
  <2>1. OpenNew(w) => k[w] \in Workers
    BY <1>1, ConstantsFit DEF OpenNew, Go, From, Fits, TInv, Typed
  <2> QED
    BY <1>1, <2>1, Frames DEF Claim, OpenNew
<1>4. live' \subseteq 1 .. opened' /\ refs' \in [Tasks -> Nat] /\ \A u \in live' : refs'[u] > 0
  <2>1. CASE OpenNew(w)
    <3>1. opened' = opened + 1 /\ live' = live \cup {opened + 1} /\ refs' = [refs EXCEPT ![opened + 1] = 1]
      BY <2>1 DEF OpenNew
    <3>2. opened + 1 \in Tasks
      BY <2>1, RoomToOpen DEF OpenNew, Go, From
    <3> QED
      BY <1>1, <3>1, <3>2, ConstantsFit
  <2>2. CASE ~ OpenNew(w)
    <3>1. (live' = live /\ refs' = refs) \/ \E t : (GrabTask(t) /\ t \in live) \/ ReleaseTask(t)
      BY <2>2, Counted
    <3> QED
      BY <1>1, <3>1, RefSteps, Opened
  <2> QED
    BY <2>1, <2>2
<1> QED
  BY <1>2, <1>3, <1>4

LEMMA WordsStep ==
  ASSUME TInv, NEW w \in Workers, Step(w)
  PROVE  /\ current' \in Workers /\ suspend' \in [Workers -> {0, 1}] /\ flag' \in [Workers -> {0, 1}]
         /\ ltid' \in [Tasks -> 0 .. MaxTasks] /\ (\A t \in Tasks : ltid'[t] \in {0, t})
         /\ lua' \in [Tasks -> {"open", "closed"}] /\ registered' \subseteq 1 .. opened'
         /\ waits' \in [Tasks -> SUBSET Channels]
<1>1. /\ current \in Workers /\ suspend \in [Workers -> {0, 1}] /\ flag \in [Workers -> {0, 1}]
      /\ ltid \in [Tasks -> 0 .. MaxTasks] /\ (\A t \in Tasks : ltid[t] \in {0, t})
      /\ lua \in [Tasks -> {"open", "closed"}] /\ registered \subseteq 1 .. opened
      /\ waits \in [Tasks -> SUBSET Channels] /\ Fits(w) /\ sel[w] \in Seq(Channels) /\ k[w] \in Nat
      /\ tok[w] \in 0 .. opened
  BY DEF TInv, Typed, TypeOK
<1>2. current' \in Workers
  <2>1. OpenNew(w) => k[w] < N /\ current' = NextWorker(k[w])
    BY <1>1 DEF OpenNew, Go, From, Fits
  <2> QED
    BY <1>1, <2>1, Frames, ConstantsFit DEF NextWorker
<1>3. suspend' \in [Workers -> {0, 1}] /\ flag' \in [Workers -> {0, 1}]
  <2>1. suspend' = suspend \/ \E b \in {0, 1} : suspend' = [suspend EXCEPT ![w] = b]
    BY Frames DEF Top, Suspend
  <2>2. flag' = flag \/ \E v : \E b \in {0, 1} : flag' = [flag EXCEPT ![v] = b]
    BY Frames DEF Trigger, Wait
  <2>3. \A v : \A b \in {0, 1} : [flag EXCEPT ![v] = b] \in [Workers -> {0, 1}]
    BY <1>1
  <2>4. \A b \in {0, 1} : [suspend EXCEPT ![w] = b] \in [Workers -> {0, 1}]
    BY <1>1
  <2> QED
    BY ONLY <1>1, <2>1, <2>2, <2>3, <2>4
<1>4. ltid' \in [Tasks -> 0 .. MaxTasks] /\ \A t \in Tasks : ltid'[t] \in {0, t}
  <2>1. ltid' = ltid \/ ltid' = [ltid EXCEPT ![tok[w]] = tok[w]]
    BY Frames DEF OpenId
  <2>2. \A t \in Tasks : t \in 0 .. MaxTasks
    BY ConstantsFit
  <2> QED
    BY <1>1, <2>1, <2>2
<1>5. lua' \in [Tasks -> {"open", "closed"}]
  BY <1>1, Frames DEF Finish, CallSelect, CloseLua, luavars
<1>6. registered' \subseteq 1 .. opened'
  <2>1. OpenReg(w) => tok[w] \in 1 .. opened
    BY <1>1 DEF OpenReg, From, Fits, TokPCs
  <2>2. registered' = registered \/ (tok[w] \in 1 .. opened /\ registered' = registered \cup {tok[w]})
    BY <2>1, Frames DEF OpenReg
  <2> QED
    BY <1>1, <2>2, Opened
<1>7. waits' \in [Tasks -> SUBSET Channels]
  <2>1. waits' = waits \/ waits' = [waits EXCEPT ![cur[w]] = {sel[w][i] : i \in DOMAIN sel[w]}]
    BY Frames DEF SelBlock
  <2>2. {sel[w][i] : i \in DOMAIN sel[w]} \subseteq Channels
    BY <1>1
  <2> QED
    BY <1>1, <2>1, <2>2
<1> QED
  BY <1>2, <1>3, <1>4, <1>5, <1>6, <1>7

LEMMA ChannelsStep ==
  ASSUME TInv, NEW w \in Workers, Step(w)
  PROVE  /\ fresh' \subseteq Channels /\ closed' \subseteq Channels /\ chans' \subseteq Channels
         /\ crefs' \in [Channels -> Nat] /\ mq' \in [Channels -> Nat] /\ \A c \in chans' : crefs'[c] > 0
<1>1. /\ fresh \subseteq Channels /\ closed \subseteq Channels /\ chans \subseteq Channels
      /\ crefs \in [Channels -> Nat] /\ mq \in [Channels -> Nat] /\ (\A c \in chans : crefs[c] > 0) /\ Fits(w)
  BY DEF TInv, Typed, TypeOK
<1>2. fresh' \subseteq Channels /\ closed' \subseteq Channels
  BY <1>1, Frames DEF Channel, Close
<1>3. mq' \in [Channels -> Nat]
  <2>1. SendPush(w) => mq' \in [Channels -> Nat]
    BY <1>1 DEF SendPush, Go, From, Fits, SendPCs
  <2>2. (\E c \in Channels : Recv(w, c)) => mq' \in [Channels -> Nat]
    BY <1>1 DEF Recv
  <2> QED
    BY <1>1, <2>1, <2>2, Frames
<1>4. chans' \subseteq Channels /\ crefs' \in [Channels -> Nat] /\ \A c \in chans' : crefs'[c] > 0
  <2>1. (\E c \in Channels : Close(w, c)) \/ SendDone(w) => \E c : ReleaseChannel(c)
    BY DEF Close, SendDone
  <2>2. ASSUME NEW c \in Channels, Channel(w, c) PROVE chans' \subseteq Channels /\ crefs' \in [Channels -> Nat] /\ \A d \in chans' : crefs'[d] > 0
    BY <1>1, <2>2 DEF Channel
  <2>3. ASSUME NEW c \in Channels, CallSend(w, c)
        PROVE  chans' \subseteq Channels /\ crefs' \in [Channels -> Nat] /\ \A d \in chans' : crefs'[d] > 0
    <3>1. chans' = chans /\ (crefs' = crefs \/ crefs' = [crefs EXCEPT ![c] = @ + 1])
      BY <2>3 DEF CallSend
    <3> QED
      BY <1>1, <3>1
  <2>4. ASSUME NEW c, ReleaseChannel(c)
        PROVE  chans' \subseteq Channels /\ crefs' \in [Channels -> Nat] /\ \A d \in chans' : crefs'[d] > 0
    BY <1>1, <2>4, ChannelRefSteps DEF TInv
  <2> QED
    BY <1>1, <2>1, <2>2, <2>3, <2>4, Frames
<1> QED
  BY <1>2, <1>3, <1>4

\* The opens under way still find a handle each.
LEMMA RoomStep ==
  ASSUME TInv, NEW w \in Workers, Step(w)
  PROVE  opened' + Cardinality(OpeningNow') <= MaxTasks
<1>1. /\ at \in [Workers -> PCs] /\ opened \in Nat /\ opened + Cardinality(OpeningNow) <= MaxTasks
      /\ at' = [at EXCEPT ![w] = at'[w]] /\ MaxTasks \in Nat
  <2>1. /\ at \in [Workers -> PCs] /\ opened \in 0 .. MaxTasks /\ opened + Cardinality(OpeningNow) <= MaxTasks
    BY DEF TInv, Typed, TypeOK
  <2> QED
    BY <2>1, OwnOnly, ConstantsFit
<1>2. IsFiniteSet(OpeningNow) /\ Cardinality(OpeningNow) \in Nat
  BY ConstantsFit, FS_Subset, FS_CardinalityType DEF OpeningNow
<1>3. CASE CallOpen(w)
  <2>1. OpeningNow' = OpeningNow \cup {w} /\ w \notin OpeningNow
    BY <1>1, <1>3 DEF CallOpen, Go, From, Goto, OpeningNow
  <2>2. opened + Cardinality(OpeningNow) < MaxTasks /\ opened' = opened
    BY <1>3 DEF CallOpen, OpeningNow, schedvars
  <2>3. Cardinality(OpeningNow') = Cardinality(OpeningNow) + 1
    BY <2>1, <1>2, FS_AddElement
  <2> QED
    BY <1>1, <1>2, <2>2, <2>3
<1>4. CASE OpenNew(w)
  <2>1. OpeningNow' = OpeningNow \ {w} /\ w \in OpeningNow
    BY <1>1, <1>4 DEF OpenNew, Go, From, Goto, OpeningNow
  <2>2. opened' = opened + 1
    BY <1>4 DEF OpenNew
  <2>3. Cardinality(OpeningNow') = Cardinality(OpeningNow) - 1
    BY <2>1, <1>2, FS_RemoveElement
  <2> QED
    BY <1>1, <1>2, <2>2, <2>3
<1>5. CASE ~ CallOpen(w) /\ ~ OpenNew(w)
  <2>1. at'[w] # "open_new" \/ at' = at
    <3>1. CASE Loop(w)
      BY <1>1, <3>1 DEF Loop, Top, Pop, Find, Claim, Claimed, Resume, CloseTask, Release, RelCheck, RelPush,
                        RelDrop, Notify, Trigger, Suspend, Wait, Go, From, Goto, Die
    <3>2. CASE EndSlice(w)
      BY <1>1, <3>2 DEF EndSlice, Yield, Finish, CloseLua, Go, From, Goto
    <3>3. CASE Slice(w)
      BY <1>1, <1>5, <3>3 DEF Slice, OpenPush, OpenId, OpenReg, Channel, Close, Recv, CallSend, SendPush,
              SendPop, SendFind, SendCas, SendWake, SendDrop, SendDone, CallSelect, CloseLua, SelCheck, SelFound,
              SelBlock, SelJoin, SelDrop, Go, From, Goto, Die
    <3> QED
      BY <3>1, <3>2, <3>3 DEF Step
  <2>2. OpeningNow' \subseteq OpeningNow
    BY <1>1, <2>1 DEF OpeningNow
  <2>3. Cardinality(OpeningNow') <= Cardinality(OpeningNow) /\ Cardinality(OpeningNow') \in Nat
    BY <2>2, <1>2, FS_Subset, FS_CardinalityType
  <2>4. opened' = opened
    BY <1>5, Frames
  <2> QED
    BY <1>1, <1>2, <2>3, <2>4
<1> QED
  BY <1>3, <1>4, <1>5

LEMMA TypesKept ==
  ASSUME TInv, [Next]_vars
  PROVE  TInv'
<1>1. CASE UNCHANGED vars
  BY <1>1 DEF TInv, Typed, TypeOK, Fits, OpeningNow, vars, schedvars, sleepvars, taskvars, luavars, chanvars, locals
<1>2. ASSUME NEW w \in Workers, Step(w) PROVE TInv'
  <2>1. /\ opened' \in 0 .. MaxTasks
        /\ at' \in [Workers -> PCs] /\ cur' \in [Workers -> 0 .. opened'] /\ tok' \in [Workers -> 0 .. opened']
        /\ k' \in [Workers -> Nat] /\ sel' \in [Workers -> Seq(Channels)] /\ ch' \in [Workers -> Channels \cup {0}]
    <3>1. /\ opened \in Nat /\ opened' \in Nat /\ opened <= opened' /\ opened' + Cardinality(OpeningNow') <= MaxTasks
          /\ MaxTasks \in Nat
      BY <1>2, Opened, RoomStep, ConstantsFit
    <3>2. Cardinality(OpeningNow') \in Nat
      BY ConstantsFit, FS_Subset, FS_CardinalityType DEF OpeningNow
    <3>3. /\ at \in [Workers -> PCs] /\ cur \in [Workers -> 0 .. opened'] /\ tok \in [Workers -> 0 .. opened']
          /\ k \in [Workers -> Nat] /\ sel \in [Workers -> Seq(Channels)] /\ ch \in [Workers -> Channels \cup {0}]
      <4>1. /\ at \in [Workers -> PCs] /\ cur \in [Workers -> 0 .. opened] /\ tok \in [Workers -> 0 .. opened]
            /\ k \in [Workers -> Nat] /\ sel \in [Workers -> Seq(Channels)] /\ ch \in [Workers -> Channels \cup {0}]
        BY DEF TInv, Typed, TypeOK
      <4>2. 0 .. opened \subseteq 0 .. opened'
        BY <3>1
      <4> QED
        BY <4>1, <4>2
    <3>4. /\ at'[w] \in PCs /\ cur'[w] \in 0 .. opened' /\ tok'[w] \in 0 .. opened' /\ k'[w] \in Nat
          /\ sel'[w] \in Seq(Channels) /\ ch'[w] \in Channels \cup {0}
      BY <1>2, OwnStep
    <3>5. /\ at' = [at EXCEPT ![w] = at'[w]] /\ cur' = [cur EXCEPT ![w] = cur'[w]]
          /\ tok' = [tok EXCEPT ![w] = tok'[w]] /\ ch' = [ch EXCEPT ![w] = ch'[w]]
          /\ sel' = [sel EXCEPT ![w] = sel'[w]] /\ k' = [k EXCEPT ![w] = k'[w]]
      BY <1>2, OwnOnly
    <3>6. opened' \in 0 .. MaxTasks
      BY <3>1, <3>2
    <3> QED
      BY ONLY <3>3, <3>4, <3>5, <3>6
  <2>2. \A v \in Workers : Fits(v)'
    <3> TAKE v \in Workers
    <3>1. CASE v = w
      BY <1>2, <3>1, OwnStep
    <3>2. CASE v # w
      <4>1. at'[v] = at[v] /\ cur'[v] = cur[v] /\ tok'[v] = tok[v] /\ ch'[v] = ch[v] /\ sel'[v] = sel[v] /\ k'[v] = k[v]
        BY <1>2, <3>2, OthersStand
      <4>2. Fits(v) /\ 1 .. opened \subseteq 1 .. opened'
        BY <1>2, Opened DEF TInv
      <4> QED
        BY <4>1, <4>2 DEF Fits
    <3> QED
      BY <3>1, <3>2
  <2>3. TypeOK'
    BY <1>2, <2>1, QueuesStep, TasksStep, WordsStep, ChannelsStep DEF TypeOK
  <2>4. Typed'
    BY <1>2, <2>1, <2>3, TasksStep, WordsStep, ChannelsStep DEF Typed
  <2> QED
    BY <1>2, <2>2, <2>4, RoomStep DEF TInv
<1> QED
  BY <1>1, <1>2 DEF Next

LEMMA TypesInit ==
  ASSUME Init
  PROVE  TInv
<1>1. /\ N \in Nat /\ N > 0 /\ MaxTasks \in Nat /\ 0 \in Workers /\ Workers = 0 .. N - 1 /\ opened = Initial
      /\ Initial \in Nat /\ Initial <= MaxTasks /\ Tasks = 1 .. MaxTasks /\ Made \subseteq Channels
  BY ConstantsFit DEF Init
<1>2. \A w \in Workers : runq[w] \in Seq(1 .. Initial)
  <2> TAKE w \in Workers
  <2> DEFINE m == (Initial + N - 1 - w) \div N
             q == [i \in 1 .. m |-> w + 1 + (i - 1) * N]
  <2>1. w \in Nat /\ w < N /\ m \in Nat /\ m * N <= Initial + N - 1 - w
    BY <1>1
  <2> HIDE DEF m
  <2>2. ASSUME NEW i \in 1 .. m PROVE w + 1 + (i - 1) * N \in 1 .. Initial
    <3>1. i \in Int /\ m \in Int /\ N \in Nat /\ i <= m /\ i >= 1
      BY <2>1, <1>1
    <3>2. (i - 1) * N <= (m - 1) * N /\ (i - 1) * N >= 0
      BY ONLY <3>1
    <3>3. (m - 1) * N = m * N - N
      BY ONLY <3>1
    <3>4. (i - 1) * N \in Int /\ m * N \in Int
      BY ONLY <3>1
    <3> QED
      BY ONLY <1>1, <2>1, <3>2, <3>3, <3>4
  <2>3. q \in Seq(1 .. Initial)
    BY <2>1, <2>2
  <2> QED
    BY <2>3 DEF Init, m
<1>3. TypeOK
  <2>1. Initial % N \in Workers /\ \A t \in Tasks : (t - 1) % N \in Workers
    BY <1>1
  <2>2. runq \in [Workers -> Seq(1 .. opened)]
    BY <1>1, <1>2 DEF Init
  <2>3. \A c \in Channels : reader[c] \in Seq(1 .. opened)
    BY DEF Init
  <2>4. reader \in [Channels -> Seq(1 .. opened)]
    BY <2>3 DEF Init
  <2>5. status \in [Tasks -> Statuses] /\ home \in [Tasks -> Workers]
    <3>1. \A t \in Tasks : (IF t <= Initial THEN (t - 1) % N ELSE 0) \in Workers
      BY <1>1, <2>1
    <3>2. home = [t \in Tasks |-> IF t <= Initial THEN (t - 1) % N ELSE 0]
      BY DEF Init
    <3>3. home \in [Tasks -> Workers]
      BY ONLY <3>1, <3>2
    <3>4. status \in [Tasks -> Statuses]
      BY DEF Init, Statuses
    <3> QED
      BY <3>3, <3>4
  <2>6. at \in [Workers -> PCs]
    BY DEF Init, PCs
  <2>7. /\ current \in Workers /\ opened \in 0 .. MaxTasks
        /\ suspend \in [Workers -> {0, 1}] /\ flag \in [Workers -> {0, 1}]
        /\ live \subseteq 1 .. opened /\ refs \in [Tasks -> Nat]
        /\ ltid \in [Tasks -> 0 .. MaxTasks] /\ lua \in [Tasks -> {"open", "closed"}]
        /\ registered \subseteq 1 .. opened
        /\ cur \in [Workers -> 0 .. opened] /\ tok \in [Workers -> 0 .. opened]
    BY <1>1, <2>1 DEF Init
  <2>8. /\ fresh \subseteq Channels /\ closed \subseteq Channels /\ chans \subseteq Channels
        /\ crefs \in [Channels -> Nat] /\ mq \in [Channels -> Nat]
    BY <1>1 DEF Init
  <2> QED
    BY <2>2, <2>4, <2>5, <2>6, <2>7, <2>8 DEF TypeOK
<1>4. Typed
  <2>1. k \in [Workers -> Nat] /\ ch \in [Workers -> Channels \cup {0}]
    BY DEF Init
  <2>2. sel \in [Workers -> Seq(Channels)]
    BY DEF Init
  <2>3. waits \in [Tasks -> SUBSET Channels] /\ \A t \in Tasks : ltid[t] \in {0, t}
    BY DEF Init
  <2>4. (\A t \in live : refs[t] > 0) /\ \A c \in chans : crefs[c] > 0
    BY <1>1 DEF Init
  <2> QED
    BY <1>3, <2>1, <2>2, <2>3, <2>4 DEF Typed
<1>5. \A w \in Workers : Fits(w)
  BY DEF Init, Fits, TokPCs, CurPCs, SlicePCs, SendPCs, LoopPCs
<1>6. opened + Cardinality(OpeningNow) <= MaxTasks
  <2>1. OpeningNow = {}
    BY DEF Init, OpeningNow
  <2> QED
    BY <1>1, <2>1, FS_EmptySet
<1> QED
  BY <1>4, <1>5, <1>6 DEF TInv

\* Every variable of the scheduler stays in its range, and the handles that
\* worker code works on are handles of opened tasks, for any numbers of workers,
\* tasks and channels and any operations of the scripts.
THEOREM TypeCorrect == Spec => []TypeOK
<1>1. TInv => TypeOK
  BY DEF TInv, Typed
<1> QED
  BY TypesInit, TypesKept, <1>1, PTL DEF Spec

-----------------------------------------------------------------------------
(* No queued task is stranded: some worker will yet look into its queue.   *)

\* The round over the queues reaches every one of them.
LEMMA Round ==
  ASSUME NEW v \in Workers, NEW q \in Workers
  PROVE  \E j \in 0 .. N - 1 : (v + j) % N = q
<1>1. N \in Nat /\ N > 0 /\ v \in Nat /\ v < N /\ q \in Nat /\ q < N
  BY ConstantsFit
<1>2. CASE v <= q
  <2>1. q - v \in 0 .. N - 1 /\ (v + (q - v)) % N = q
    BY <1>1, <1>2
  <2> QED
    BY <2>1
<1>3. CASE q < v
  <2>1. q - v + N \in 0 .. N - 1 /\ v + (q - v + N) = q + N
    BY <1>1, <1>3
  <2>2. (q + N) % N = q
    BY <1>1
  <2> QED
    BY <2>1, <2>2
<1> QED
  BY <1>1, <1>2, <1>3

LEMMA WatchedKept ==
  ASSUME TInv, Watched, [Next]_vars
  PROVE  Watched'
<1>1. CASE UNCHANGED vars
  BY <1>1 DEF Watched, WillSee, vars, schedvars, sleepvars, locals
<1>2. ASSUME NEW w \in Workers, Step(w), NEW q \in Workers, runq'[q] # <<>>
      PROVE  \E v \in Workers : WillSee(v, q)'
  <2>1. /\ at \in [Workers -> PCs] /\ flag \in [Workers -> {0, 1}] /\ Fits(w) /\ k \in [Workers -> Nat]
        /\ N \in Nat /\ N > 0
    BY ConstantsFit DEF TInv, Typed, TypeOK
  \* A worker at any other place will look at all queues again.
  <2>2. CASE at'[w] \notin {"pop", "idle", "wait"}
    BY <2>2 DEF WillSee
  <2>3. CASE at'[w] = "pop" /\ k'[w] = 0
    <3>1. PICK j \in 0 .. N - 1 : (w + j) % N = q
      BY Round
    <3> QED
      BY <2>3, <3>1 DEF WillSee
  <2>4. ASSUME runq' = runq, flag' = flag, NEW v \in Workers, v # w, WillSee(v, q) PROVE WillSee(v, q)'
    <3>1. at'[v] = at[v] /\ k'[v] = k[v]
      BY <1>2, <2>4, OthersStand
    <3> QED
      BY <2>4, <3>1 DEF WillSee
  <2>5. CASE Pop(w) /\ runq[(w + k[w]) % N] = <<>>
    <3>1. runq' = runq /\ flag' = flag /\ at[w] = "pop"
      BY <2>5 DEF Pop, sleepvars, From
    <3>2. PICK v \in Workers : WillSee(v, q)
      BY <1>2, <3>1 DEF Watched
    <3>3. CASE v = w
      <4>1. PICK j \in k[w] .. N - 1 : (w + j) % N = q
        BY <3>1, <3>2, <3>3 DEF WillSee
      <4>2. j # k[w]
        BY <1>2, <2>5, <3>1, <4>1
      <4>3. k[w] + 1 < N /\ j \in k[w] + 1 .. N - 1
        BY <2>1, <4>1, <4>2
      <4>4. at'[w] = "pop" /\ k'[w] = k[w] + 1
        BY <2>1, <2>5, <4>3 DEF Pop, Goto
      <4> QED
        BY <4>1, <4>3, <4>4 DEF WillSee
    <3> QED
      BY <2>4, <3>1, <3>2, <3>3
  <2>6. CASE Suspend(w)
    <3>1. runq' = runq /\ flag' = flag /\ at[w] = "idle"
      BY <2>6 DEF Suspend, schedvars, Go, From
    <3>2. PICK v \in Workers : WillSee(v, q)
      BY <1>2, <3>1 DEF Watched
    <3> QED
      BY <2>4, <3>1, <3>2 DEF WillSee
  <2>7. CASE Loop(w) /\ ~ Suspend(w) /\ ~ (Pop(w) /\ runq[(w + k[w]) % N] = <<>>)
    <3>1. (at'[w] \notin {"pop", "idle", "wait"}) \/ (at'[w] = "pop" /\ k'[w] = 0)
      BY <2>1, <2>7 DEF Loop, Top, Pop, Find, Claim, Claimed, Resume, CloseTask, Release, RelCheck, RelPush,
                  RelDrop, Notify, Trigger, Wait, Go, From, Goto, Die, Fits, LoopPCs, locals
    <3> QED
      BY <3>1, <2>2, <2>3
  <2>8. CASE EndSlice(w) \/ Slice(w)
    <3>1. CASE EndSlice(w)
      BY <2>1, <3>1, <2>2 DEF EndSlice, Yield, Finish, CloseLua, Go, From, Goto
    <3>2. CASE Slice(w)
      <4>1. at'[w] \notin {"pop", "idle", "wait"}
        BY <2>1, <3>2 DEF Slice, CallOpen, OpenNew, OpenPush, OpenId, OpenReg, Channel, Close, Recv, CallSend, SendPush,
              SendPop, SendFind, SendCas, SendWake, SendDrop, SendDone, CallSelect, CloseLua, SelCheck, SelFound,
              SelBlock, SelJoin, SelDrop, Go, From, Goto, Die
      <4> QED
        BY <4>1, <2>2
    <3> QED
      BY <2>8, <3>1, <3>2
  <2> QED
    BY <1>2, <2>5, <2>6, <2>7, <2>8 DEF Step
<1> QED
  BY <1>1, <1>2 DEF Next, Watched

\* When every worker sleeps and none has been triggered, no task is queued: the
\* suspend flag and the event together lose no wake-up, with any number of
\* workers and whatever the scripts do.
THEOREM NothingStranded == Spec => []NoStrandedTask
<1>1. Init => Watched
  <2>1. ASSUME Init PROVE \A q \in Workers : WillSee(q, q)
    BY <2>1 DEF Init, WillSee
  <2> QED
    BY <2>1 DEF Watched
<1>2. TInv /\ Watched => NoStrandedTask
  <2>1. ASSUME Watched, AllAsleep, NEW q \in Workers, runq[q] # <<>> PROVE FALSE
    <3>1. PICK v \in Workers : WillSee(v, q)
      BY <2>1 DEF Watched
    <3> QED
      BY <2>1, <3>1 DEF AllAsleep, WillSee
  <2> QED
    BY <2>1 DEF NoStrandedTask
<1> QED
  BY TypesInit, TypesKept, WatchedKept, <1>1, <1>2, PTL DEF Spec

-----------------------------------------------------------------------------
(* One worker at a time is inside the Lua state of a task.                 *)

\* What a worker does from a place.
LEMMA Places ==
  ASSUME NEW w \in Workers, Step(w)
  PROVE  /\ at[w] = "find" => Find(w)
         /\ at[w] = "claim" => Claim(w)
         /\ at[w] = "resume" => Resume(w)
         /\ at[w] = "rel_push" => RelPush(w)
         /\ at[w] = "open_push" => OpenPush(w)
         /\ at[w] = "open_id" => OpenId(w)
         /\ at[w] = "send_wake" => SendWake(w)
         /\ at[w] = "send_find" => SendFind(w)
         /\ at[w] = "send_cas" => SendCas(w)
         /\ at[w] = "sel_check" => SelCheck(w)
         /\ at[w] = "sel_block" => SelBlock(w)
         /\ at[w] = "sel_join" => SelJoin(w)
         /\ at[w] = "close" => CloseTask(w)
<1>1. CASE Loop(w)
  BY <1>1 DEF Loop, Top, Pop, Find, Claim, Claimed, Resume, CloseTask, Release, RelCheck, RelPush, RelDrop,
              Notify, Trigger, Suspend, Wait, Go, From
<1>2. CASE EndSlice(w)
  BY <1>2 DEF EndSlice, Yield, Finish, Go, From
<1>3. CASE Slice(w)
  BY <1>3 DEF Slice, CallOpen, OpenNew, OpenPush, OpenId, OpenReg, Channel, Close, Recv, CallSend, SendPush,
              SendPop, SendFind, SendCas, SendWake, SendDrop, SendDone, CallSelect, SelCheck, SelFound,
              SelBlock, SelJoin, SelDrop, Go, From
<1> QED
  BY <1>1, <1>2, <1>3 DEF Step

\* A worker enters a Lua state by resuming it, and takes a task on by claiming it.
LEMMA Enters ==
  ASSUME TInv, NEW w \in Workers, Step(w)
  PROVE  /\ at'[w] \in SlicePCs => at[w] \in SlicePCs \/ (Resume(w) /\ Inside(cur[w]) = {})
         /\ cur' = cur \/ Claim(w)
<1>0. at \in [Workers -> PCs]
  BY DEF TInv, Typed, TypeOK
<1>1. CASE Loop(w)
  <2>1. CASE Resume(w)
    BY <1>0, <2>1 DEF Resume, Goto, Die, From, SlicePCs, locals
  <2>2. CASE ~ Resume(w)
    BY <1>0, <1>1, <2>2 DEF Loop, Top, Pop, Find, Claim, Claimed, CloseTask, Release, RelCheck, RelPush, RelDrop,
              Notify, Trigger, Suspend, Wait, Go, From, Goto, Die, locals, SlicePCs
  <2> QED
    BY <2>1, <2>2
<1>2. CASE EndSlice(w)
  BY <1>0, <1>2 DEF EndSlice, Yield, Finish, CloseLua, Go, From, Goto, Die, locals, SlicePCs
<1>3. CASE Slice(w)
  BY <1>3 DEF Slice, CallOpen, OpenNew, OpenPush, OpenId, OpenReg, Channel, Close, Recv, CallSend, SendPush,
              SendPop, SendFind, SendCas, SendWake, SendDrop, SendDone, CallSelect, CloseLua, SelCheck, SelFound,
              SelBlock, SelJoin, SelDrop, Go, From, locals, SlicePCs
<1> QED
  BY <1>1, <1>2, <1>3 DEF Step

LEMMA OneInsideKept ==
  ASSUME TInv, OneInside, [Next]_vars
  PROVE  OneInside'
<1>1. CASE UNCHANGED vars
  BY <1>1 DEF OneInside, vars, locals
<1>2. ASSUME NEW u \in Workers, Step(u), NEW v \in Workers, NEW w \in Workers,
             at'[v] \in SlicePCs, at'[w] \in SlicePCs, cur'[v] = cur'[w], v # w
      PROVE  FALSE
  <2>1. at[u] \in SlicePCs => cur' = cur
    BY <1>2, Enters DEF Claim, From, SlicePCs
  <2>2. Resume(u) => cur' = cur
    BY DEF Resume, locals
  <2>3. \A x \in Workers : x # u => at'[x] = at[x] /\ cur'[x] = cur[x]
    BY <1>2, OthersStand
  <2>4. ASSUME NEW x \in Workers, x # u, at'[x] \in SlicePCs, at'[u] \in SlicePCs, cur'[x] = cur'[u] PROVE FALSE
    <3>1. at[x] \in SlicePCs /\ cur[x] = cur'[x]
      BY <2>3, <2>4
    <3>2. cur' = cur /\ (at[u] \in SlicePCs \/ Inside(cur[u]) = {})
      BY <1>2, <2>1, <2>2, <2>4, Enters
    <3> QED
      BY <1>2, <2>4, <3>1, <3>2 DEF OneInside, Inside
  <2> QED
    BY <1>2, <2>3, <2>4 DEF OneInside
<1> QED
  BY <1>1, <1>2 DEF Next, OneInside

-----------------------------------------------------------------------------
(* Every ready task is queued or about to be; every blocked one is listed. *)

Queued(t) == \E q \in Workers : Has(runq[q], t)
Held(t) == \E v \in Workers : tok[v] = t /\ at[v] \in HoldPCs

LEMMA TokensAre ==
  ASSUME NEW t
  PROVE  Tokens(t) # {} <=> Queued(t) \/ Held(t)
<1> DEFINE Q(w) == {<<w, i>> : i \in {j \in DOMAIN runq[w] : runq[w][j] = t}}
           W == {v \in Workers : tok[v] = t /\ at[v] \in HoldPCs}
           U == UNION {Q(w) : w \in Workers}
           H == {<<w, 0>> : w \in W}
<1>1. U # {} <=> \E w \in Workers : Q(w) # {}
  <2> HIDE DEF Q
  <2> QED
    OBVIOUS
<1>2. \A w \in Workers : Q(w) # {} <=> \E i \in DOMAIN runq[w] : runq[w][i] = t
  OBVIOUS
<1>3. H # {} <=> W # {}
  <2> HIDE DEF W
  <2> QED
    OBVIOUS
<1>4. W # {} <=> Held(t)
  BY DEF Held
<1>5. Tokens(t) = U \cup H
  BY DEF Tokens, HoldPCs
<1> HIDE DEF U, H, W, Q
<1> QED
  BY <1>1, <1>2, <1>3, <1>4, <1>5 DEF Queued, Has

LEMMA TokensWillBe ==
  ASSUME NEW t
  PROVE  (Tokens(t) # {} <=> Queued(t) \/ Held(t))'
BY TokensAre, PTL

\* Where the elements of a sequence are when its head goes or one is added.
LEMMA InTail ==
  ASSUME NEW S, NEW s \in Seq(S), NEW t, Has(s, t)
  PROVE  s # <<>> /\ (Head(s) = t \/ Has(Tail(s), t))
<1> PICK i \in DOMAIN s : s[i] = t
  BY DEF Has
<1>1. Len(s) \in Nat /\ DOMAIN s = 1 .. Len(s)
  BY LenProperties
<1>2. s # <<>> /\ Head(s) = s[1]
  BY <1>1, EmptySeq
<1>3. CASE i = 1
  BY <1>2, <1>3
<1>4. CASE i # 1
  <2>1. /\ Tail(s) \in Seq(S) /\ Len(Tail(s)) = Len(s) - 1
        /\ \A j \in 1 .. Len(Tail(s)) : Tail(s)[j] = s[j + 1]
    BY <1>2, HeadTailProperties
  <2>2. DOMAIN Tail(s) = 1 .. Len(Tail(s))
    BY <2>1, LenProperties
  <2>3. i - 1 \in 1 .. Len(Tail(s)) /\ (i - 1) + 1 = i
    BY <1>1, <1>4, <2>1
  <2> QED
    BY <1>2, <2>1, <2>2, <2>3 DEF Has
<1> QED
  BY <1>3, <1>4

LEMMA InAppend ==
  ASSUME NEW S, NEW s \in Seq(S), NEW x \in S
  PROVE  Has(Append(s, x), x) /\ \A t : Has(s, t) => Has(Append(s, x), t)
<1>1. /\ Append(s, x) \in Seq(S) /\ Len(Append(s, x)) = Len(s) + 1
      /\ (\A i \in 1 .. Len(s) : Append(s, x)[i] = s[i]) /\ Append(s, x)[Len(s) + 1] = x
  BY AppendProperties
<1>2. Len(s) \in Nat /\ DOMAIN s = 1 .. Len(s) /\ DOMAIN Append(s, x) = 1 .. Len(s) + 1
  BY <1>1, LenProperties
<1> QED
  BY <1>1, <1>2 DEF Has

\* A queued task stays queued until a worker takes its handle.
LEMMA QueuedKept ==
  ASSUME TInv, NEW w \in Workers, Step(w), NEW t, Queued(t)
  PROVE  Queued(t)' \/ Held(t)'
<1>2. PICK q \in Workers : Has(runq[q], t)
  BY DEF Queued
<1>3. /\ runq \in [Workers -> Seq(1 .. opened)] /\ home \in [Tasks -> Workers] /\ Fits(w)
      /\ at \in [Workers -> PCs] /\ tok \in [Workers -> 0 .. opened] /\ 1 .. opened \subseteq Tasks
  BY Opened DEF TInv, Typed, TypeOK
<1>4. CASE Pop(w) /\ runq[(w + k[w]) % N] # <<>>
  <2> DEFINE o == (w + k[w]) % N
  <2>1. tok'[w] = Head(runq[o]) /\ at'[w] = "find" /\ runq' = [runq EXCEPT ![o] = Tail(@)]
    BY <1>3, <1>4 DEF Pop, Goto
  <2> HIDE DEF o
  <2>2. CASE o = q
    <3>1. Head(runq[q]) = t \/ Has(Tail(runq[q]), t)
      BY <1>2, <1>3, InTail
    <3>2. runq'[q] = Tail(runq[q])
      BY <1>3, <2>1, <2>2
    <3> QED
      BY <2>1, <2>2, <3>1, <3>2 DEF Queued, Held, HoldPCs
  <2>3. CASE o # q
    <3>1. runq'[q] = runq[q]
      BY <1>3, <2>1, <2>3
    <3> QED
      BY <1>2, <3>1 DEF Queued
  <2> QED
    BY <2>2, <2>3
<1>5. ASSUME tok[w] \in 1 .. opened, PushReady(tok[w]) PROVE Queued(t)'
  <2>1. home[tok[w]] \in Workers
    BY <1>3, <1>5
  <2>2. runq'[q] = runq[q] \/ runq'[q] = Append(runq[q], tok[w])
    BY <1>3, <1>5, <2>1 DEF PushReady
  <2>3. Has(Append(runq[q], tok[w]), t)
    BY <1>2, <1>3, <1>5, InAppend
  <2> QED
    BY <1>2, <2>2, <2>3 DEF Queued
<1>6. RelPush(w) \/ OpenPush(w) \/ SendWake(w) => tok[w] \in 1 .. opened /\ PushReady(tok[w])
  BY <1>3 DEF RelPush, OpenPush, SendWake, Go, From, Fits, TokPCs
<1>7. runq' = runq => Queued(t)'
  BY <1>2 DEF Queued
<1>8. Pop(w) /\ runq[(w + k[w]) % N] = <<>> => runq' = runq
  BY DEF Pop
<1> QED
  BY <1>4, <1>5, <1>6, <1>7, <1>8, Frames

\* A ready task is not lost by any step.
LEMMA ReadyFound ==
  ASSUME TInv, NEW w \in Workers, Step(w), NEW t \in live', status'[t] = "READY",
         t \in live /\ status[t] = "READY" => Tokens(t) # {}
  PROVE  Tokens(t)' # {}
<1>0. /\ at \in [Workers -> PCs] /\ tok \in [Workers -> 0 .. opened] /\ cur \in [Workers -> 0 .. opened]
      /\ status \in [Tasks -> Statuses] /\ t \in Tasks /\ Fits(w)
      /\ 1 .. opened \subseteq Tasks /\ opened \in Nat
  <2>1. t \in 1 .. opened' /\ opened' \in 0 .. MaxTasks
    BY TypesKept, TasksStep DEF TInv, Typed, TypeOK, Next
  <2>2. t \in Tasks
    BY <2>1, ConstantsFit
  <2> QED
    BY <2>2, Opened DEF TInv, Typed, TypeOK
<1>1. CASE t \notin live \/ status[t] # "READY"
  <2>1. CASE OpenNew(w) \/ RelCheck(w) \/ SendCas(w)
    <3>1. CASE OpenNew(w)
      <4>1. at'[w] = "open_push" /\ tok'[w] = opened + 1 /\ live' = live \cup {opened + 1}
            /\ status' = [status EXCEPT ![opened + 1] = "READY"]
        BY <1>0, <3>1 DEF OpenNew, Go, Goto
      <4>2. t = opened + 1
        BY <1>0, <1>1, <4>1
      <4> QED
        BY <4>1, <4>2, TokensWillBe DEF Held, HoldPCs
    <3>2. CASE RelCheck(w)
      <4>1. live' = live /\ tok' = tok
        BY <3>2 DEF RelCheck, locals
      <4>2. tok[w] = t /\ at'[w] = "rel_push"
        BY <1>0, <1>1, <3>2, <4>1 DEF RelCheck, Goto
      <4> QED
        BY <4>1, <4>2, TokensWillBe DEF Held, HoldPCs
    <3>3. CASE SendCas(w)
      <4>1. live' = live /\ tok' = tok
        BY <3>3 DEF SendCas, locals
      <4>2. tok[w] = t /\ at'[w] = "send_wake"
        BY <1>0, <1>1, <3>3, <4>1 DEF SendCas, Goto
      <4> QED
        BY <4>1, <4>2, TokensWillBe DEF Held, HoldPCs
    <3> QED
      BY <2>1, <3>1, <3>2, <3>3
  <2>2. CASE ~ (OpenNew(w) \/ RelCheck(w) \/ SendCas(w))
    <3>1. live' \subseteq live
      BY <2>2, LiveShrinks
    <3>2. status' = status \/ (\E u : status' = [status EXCEPT ![u] = "RUNNING"])
                           \/ (\E u : status' = [status EXCEPT ![u] = "BLOCKED"])
      BY <2>2, Frames DEF Claim, SelBlock
    <3> QED
      BY <1>0, <1>1, <3>1, <3>2
  <2> QED
    BY <2>1, <2>2, TokensAre
<1>2. CASE t \in live /\ status[t] = "READY"
  <2>1. CASE Queued(t)
    BY <1>2, <2>1, QueuedKept, TokensWillBe
  <2>2. ASSUME NEW v \in Workers, tok[v] = t, at[v] \in HoldPCs, v # w PROVE Held(t)'
    BY <2>2, OthersStand DEF Held
  <2>3. CASE tok[w] = t /\ at[w] \in HoldPCs
    <3>1. CASE at[w] = "find"
      <4>1. at'[w] = "claim" /\ tok'[w] = t
        BY <1>0, <1>2, <2>3, <3>1, Places DEF Find, Goto, locals
      <4> QED
        BY <4>1, TokensWillBe DEF Held, HoldPCs
    <3>2. CASE at[w] = "claim"
      BY <1>0, <1>2, <2>3, <3>2, Places DEF Claim
    <3>3. CASE at[w] \in {"open_push", "rel_push", "send_wake"}
      <4>1. PushReady(t)
        BY <2>3, <3>3, Places DEF OpenPush, RelPush, SendWake
      <4>2. t \in 1 .. opened
        BY <1>0, <2>3, <3>3 DEF Fits, TokPCs
      <4>3. /\ runq \in [Workers -> Seq(1 .. opened)] /\ home[t] \in Workers
        BY <1>0 DEF TInv, Typed, TypeOK
      <4>4. runq'[home[t]] = Append(runq[home[t]], t)
        BY <4>1, <4>3 DEF PushReady
      <4>5. Has(Append(runq[home[t]], t), t)
        BY <4>2, <4>3, InAppend
      <4>6. Queued(t)'
        BY <4>3, <4>4, <4>5 DEF Queued
      <4> QED
        BY <4>6, TokensWillBe
    <3> QED
      BY <2>3, <3>1, <3>2, <3>3, TokensWillBe DEF HoldPCs
  <2> QED
    BY <1>2, <2>1, <2>2, <2>3, TokensAre, TokensWillBe DEF Held
<1> QED
  BY <1>1, <1>2

\* A blocked task leaves the readers of a channel only into the hands of a sender.
LEMMA ListedKept ==
  ASSUME TInv, NEW w \in Workers, Step(w), NEW t \in live, t \in live', status[t] = "BLOCKED", status'[t] = "BLOCKED",
         NEW c \in Channels, Listed(t, c)
  PROVE  Listed(t, c)'
<1>0. /\ at \in [Workers -> PCs] /\ tok \in [Workers -> 0 .. opened] /\ reader \in [Channels -> Seq(1 .. opened)]
      /\ status \in [Tasks -> Statuses] /\ t \in Tasks /\ Fits(w)
  BY Opened DEF TInv, Typed, TypeOK
<1>1. ASSUME NEW v \in Workers, tok[v] = t, at[v] \in {"send_find", "send_cas"} PROVE Listed(t, c)'
  <2>1. CASE v # w
    BY <1>1, <2>1, OthersStand DEF Listed
  <2>2. CASE v = w /\ at[w] = "send_find"
    <3>1. at'[w] = "send_cas" /\ tok'[w] = t
      BY <1>0, <1>1, <2>2, Places DEF SendFind, Goto
    <3> QED
      BY <3>1 DEF Listed
  <2>3. CASE v = w /\ at[w] = "send_cas"
    BY <1>0, <1>1, <2>3, Places DEF SendCas
  <2> QED
    BY <1>1, <2>1, <2>2, <2>3
<1>2. CASE Has(reader[c], t)
  <2>1. CASE reader' = reader
    BY <1>2, <2>1 DEF Listed
  <2>2. CASE SendPop(w) /\ reader' # reader
    <3>1. /\ tok'[w] = Head(reader[ch[w]]) /\ at'[w] = "send_find"
          /\ reader' = [reader EXCEPT ![ch[w]] = Tail(@)]
      BY <1>0, <2>2 DEF SendPop, Goto
    <3>2. CASE ch[w] = c
      <4>1. Head(reader[c]) = t \/ Has(Tail(reader[c]), t)
        BY <1>0, <1>2, InTail
      <4>2. reader'[c] = Tail(reader[c])
        BY <1>0, <3>1, <3>2
      <4> QED
        BY <3>1, <3>2, <4>1, <4>2 DEF Listed
    <3>3. CASE ch[w] # c
      <4>1. reader'[c] = reader[c]
        BY <1>0, <3>1, <3>3
      <4> QED
        BY <1>2, <4>1 DEF Listed
    <3> QED
      BY <3>2, <3>3
  <2>3. CASE SelJoin(w)
    <3>1. cur[w] \in 1 .. opened
      BY <1>0, <2>3 DEF SelJoin, From, Fits, CurPCs, SlicePCs
    <3>2. reader'[c] = reader[c] \/ reader'[c] = Append(reader[c], cur[w])
      BY <1>0, <2>3 DEF SelJoin
    <3>3. Has(Append(reader[c], cur[w]), t)
      BY <1>0, <1>2, <3>1, InAppend
    <3> QED
      BY <1>2, <3>2, <3>3 DEF Listed
  <2> QED
    BY <2>1, <2>2, <2>3, Frames
<1> QED
  BY <1>1, <1>2 DEF Listed

\* A channel enters the map when it is created, and nobody waits for it before.
LEMMA KnownKept ==
  ASSUME TInv, Known, NEW w \in Workers, Step(w)
  PROVE  /\ Known'
         /\ fresh' \subseteq fresh /\ \A c \in chans' : c \in chans \/ c \in fresh
<1>0. /\ chans \subseteq Channels /\ at \in [Workers -> PCs] /\ sel \in [Workers -> Seq(Channels)] 
      /\ waits \in [Tasks -> SUBSET Channels] /\ cur \in [Workers -> 0 .. opened]
  BY DEF TInv, Typed, TypeOK
<1>1. fresh' = fresh \/ \E c \in fresh : fresh' = fresh \ {c} /\ chans' = chans \cup {c}
  BY Frames DEF Channel
<1>2. fresh' = fresh => chans' \subseteq chans
  <2>1. (\E c : ReleaseChannel(c)) => chans' \subseteq chans
    BY ChannelRefSteps DEF TInv
  <2>2. (\E c \in Channels : CallSend(w, c)) => chans' = chans
    BY DEF CallSend
  <2>3. (\E c \in Channels : Channel(w, c)) => fresh' # fresh
    BY DEF Channel
  <2>4. (\E c \in Channels : Close(w, c)) \/ SendDone(w) => \E c : ReleaseChannel(c)
    BY DEF Close, SendDone
  <2> QED
    BY <2>1, <2>2, <2>3, <2>4, Frames
<1>3. fresh' \subseteq fresh /\ (\A c \in chans' : c \in chans \/ c \in fresh) /\ chans' \cap fresh' = {}
  BY <1>1, <1>2 DEF Known
<1>4. \A t \in Tasks : waits'[t] \cap fresh' = {}
  <2>1. CASE waits' = waits
    BY <1>3, <2>1 DEF Known
  <2>2. CASE SelBlock(w)
    <3>1. at[w] = "sel_block" /\ waits' = [waits EXCEPT ![cur[w]] = {sel[w][i] : i \in DOMAIN sel[w]}]
      BY <2>2 DEF SelBlock, Go, From
    <3>2. \A i \in DOMAIN sel[w] : sel[w][i] \notin fresh
      BY <3>1 DEF Known
    <3>3. {sel[w][i] : i \in DOMAIN sel[w]} \cap fresh = {}
      BY <3>2
    <3>4. \A t \in Tasks : waits'[t] = waits[t] \/ waits'[t] = {sel[w][i] : i \in DOMAIN sel[w]}
      BY <1>0, <3>1
    <3> QED
      BY <1>3, <3>3, <3>4 DEF Known
  <2> QED
    BY <2>1, <2>2, Frames
<1>5. ASSUME NEW v \in Workers, at'[v] \in {"sel_check", "sel_block", "sel_join"}, NEW i \in DOMAIN (sel'[v])
      PROVE  sel'[v][i] \notin fresh'
  <2>1. CASE v # w
    <3>1. at'[v] = at[v] /\ sel'[v] = sel[v]
      BY <2>1, OthersStand
    <3> QED
      BY <1>3, <1>5, <3>1 DEF Known
  <2>2. CASE v = w
    <3>1. (at[w] \in {"sel_check", "sel_block", "sel_join"} /\ sel'[w] = sel[w])
            \/ \A n \in DOMAIN (sel'[w]) : sel'[w][n] \notin fresh
      <4>1. CASE \E s \in Selects : CallSelect(w, s)
        <5>1. PICK s \in Selects : CallSelect(w, s)
          BY <4>1
        <5>2. sel'[w] = s \/ at'[w] = "close"
          BY <1>0, <5>1 DEF CallSelect, CloseLua, Goto
        <5> QED
          BY <1>5, <2>2, <5>1, <5>2 DEF CallSelect
      <4>2. CASE at[w] \in {"sel_check", "sel_block", "sel_join"}
        <5>1. SelCheck(w) \/ SelBlock(w) \/ SelJoin(w)
          BY <4>2, Places
        <5> QED
          BY <4>2, <5>1 DEF SelCheck, SelBlock, SelJoin, locals
      <4>3. CASE at[w] \notin {"sel_check", "sel_block", "sel_join"} /\ ~ \E s \in Selects : CallSelect(w, s)
        <5>1. at'[w] \notin {"sel_check", "sel_block", "sel_join"}
          <6>1. CASE Loop(w)
            BY <1>0, <4>3, <6>1 DEF Loop, Top, Pop, Find, Claim, Claimed, Resume, CloseTask, Release, RelCheck,
                  RelPush, RelDrop, Notify, Trigger, Suspend, Wait, Go, From, Goto, Die
          <6>2. CASE EndSlice(w)
            BY <1>0, <6>2 DEF EndSlice, Yield, Finish, CloseLua, Go, From, Goto
          <6>3. CASE Slice(w)
            BY <1>0, <4>3, <6>3 DEF Slice, CallOpen, OpenNew, OpenPush, OpenId, OpenReg, Channel, Close, Recv,
                  CallSend, SendPush, SendPop, SendFind, SendCas, SendWake, SendDrop, SendDone, SelCheck, SelFound,
                  SelBlock, SelJoin, SelDrop, Go, From, Goto, Die
          <6> QED
            BY <6>1, <6>2, <6>3 DEF Step
        <5> QED
          BY <1>5, <2>2, <5>1
      <4> QED
        BY <4>1, <4>2, <4>3
    <3> QED
      BY <1>3, <1>5, <2>2, <3>1 DEF Known
  <2> QED
    BY <2>1, <2>2
<1> QED
  BY <1>3, <1>4, <1>5 DEF Known

\* A task blocks in its own slice only.
LEMMA Blocks ==
  ASSUME TInv, NEW w \in Workers, Step(w), NEW t \in live', status'[t] = "BLOCKED"
  PROVE  \/ SelBlock(w) /\ cur[w] = t
         \/ status[t] = "BLOCKED" /\ t \in live
<1>0. status \in [Tasks -> Statuses] /\ live \subseteq Tasks /\ opened \in Nat
  BY Opened DEF TInv, Typed, TypeOK
<1>1. CASE OpenNew(w)
  <2>1. live' = live \cup {opened + 1} /\ status' = [status EXCEPT ![opened + 1] = "READY"] /\ opened + 1 \in Tasks
    BY <1>1, RoomToOpen DEF OpenNew, Go, From
  <2> QED
    BY <1>0, <2>1
<1>2. CASE ~ OpenNew(w)
  <2>1. t \in live
    BY <1>2, LiveShrinks
  <2>2. Claim(w) \/ RelCheck(w) \/ SendCas(w) => status[t] = "BLOCKED"
    BY <1>0, <2>1 DEF Claim, RelCheck, SendCas
  <2>3. SelBlock(w) => cur[w] = t \/ status[t] = "BLOCKED"
    BY <1>0, <2>1 DEF SelBlock
  <2> QED
    BY <1>2, <2>1, <2>2, <2>3, Frames
<1> QED
  BY <1>1, <1>2

LEMMA JoiningKept ==
  ASSUME TInv, OneInside, Known, NEW w \in Workers, Step(w), NEW v \in Workers, Joining(v)
  PROVE  Joining(v)'
<1>0. /\ at \in [Workers -> PCs] /\ cur \in [Workers -> 0 .. opened] /\ reader \in [Channels -> Seq(1 .. opened)]
      /\ waits \in [Tasks -> SUBSET Channels] /\ sel \in [Workers -> Seq(Channels)] /\ k \in [Workers -> Nat]
      /\ Fits(v) /\ 1 .. opened \subseteq Tasks
  BY Opened DEF TInv, Typed, TypeOK
<1>1. SUFFICES ASSUME at'[v] = "sel_join", NEW t, NEW s, NEW n, t = cur'[v], s = sel'[v], n = k'[v]
      PROVE  /\ waits'[t] = {s[i] : i \in DOMAIN s}
             /\ t \in live' /\ status'[t] = "BLOCKED" => \A i \in 1 .. n : s[i] \in chans' => Listed(t, s[i])'
  BY DEF Joining, Listed
<1>2. CASE v # w
  <2>1. at[v] = "sel_join" /\ t = cur[v] /\ s = sel[v] /\ n = k[v] /\ at[v] \in SlicePCs
    BY <1>1, <1>2, OthersStand DEF SlicePCs
  <2>2. t \in Tasks /\ s \in Seq(Channels) /\ n \in Nat /\ n <= Len(s)
    BY <1>0, <2>1 DEF Fits, CurPCs
  <2>3. SelBlock(w) => cur[w] # t
    BY <1>2, <2>1 DEF OneInside, SelBlock, Go, From, SlicePCs
  <2>4. waits'[t] = waits[t]
    <3>1. waits' = waits \/ \E x : SelBlock(w) /\ waits' = [waits EXCEPT ![cur[w]] = x]
      BY Frames DEF SelBlock
    <3> QED
      BY <1>0, <2>2, <2>3, <3>1
  <2>5. ASSUME t \in live', status'[t] = "BLOCKED", NEW i \in 1 .. n, s[i] \in chans'
        PROVE  Listed(t, s[i])'
    <3>1. t \in live /\ status[t] = "BLOCKED"
      BY <2>3, <2>5, Blocks
    <3>2. i \in DOMAIN s /\ s[i] \in Channels
      BY <2>2
    <3>3. s[i] \in chans
      BY <2>1, <2>5, <3>2, KnownKept DEF Known
    <3>4. Listed(t, s[i])
      BY <2>1, <2>5, <3>1, <3>3 DEF Joining
    <3> QED
      BY <2>5, <3>1, <3>2, <3>4, ListedKept
  <2>6. waits[t] = {s[i] : i \in DOMAIN s}
    BY <2>1 DEF Joining
  <2> QED
    BY <2>4, <2>5, <2>6
<1>3. CASE v = w /\ SelBlock(w)
  <2>1. /\ at[w] = "sel_block" /\ k' = k /\ cur' = cur /\ sel' = sel
        /\ waits' = [waits EXCEPT ![cur[w]] = {sel[w][i] : i \in DOMAIN sel[w]}]
    BY <1>3 DEF SelBlock, Go, From, locals
  <2>2. n = 0 /\ t \in Tasks
    BY <1>0, <1>1, <1>3, <2>1 DEF Fits, CurPCs, SlicePCs, LoopPCs
  <2>3. waits'[t] = {s[i] : i \in DOMAIN s}
    BY <1>0, <1>1, <1>3, <2>1, <2>2
  <2> QED
    BY <2>2, <2>3
<1>4. CASE v = w /\ SelJoin(w)
  <2> DEFINE c == s[k[w] + 1]
  <2>1. /\ at[w] = "sel_join" /\ k[w] # Len(s) /\ k' = [k EXCEPT ![w] = @ + 1]
        /\ reader' = IF c \in chans THEN [reader EXCEPT ![c] = Append(@, t)] ELSE reader
        /\ t = cur[w] /\ s = sel[w] /\ waits' = waits /\ status' = status /\ live' = live /\ chans' = chans
    BY <1>0, <1>1, <1>4 DEF SelJoin, From, Goto, taskvars
  <2>2. n = k[w] + 1 /\ k[w] \in Nat /\ k[w] < Len(s) /\ Len(s) \in Nat /\ t \in 1 .. opened /\ s \in Seq(Channels)
    BY <1>0, <1>1, <1>4, <2>1 DEF Fits, CurPCs, SlicePCs
  <2>3. ASSUME t \in live, status[t] = "BLOCKED", NEW i \in 1 .. n, s[i] \in chans
        PROVE  Listed(t, s[i])'
    <3>1. s[i] \in Channels
      BY <2>3 DEF TInv, Typed, TypeOK
    <3>2. CASE i \in 1 .. k[w]
      <4>1. Listed(t, s[i])
        BY <1>4, <2>1, <2>3, <3>2 DEF Joining
      <4> QED
        BY <2>1, <2>3, <3>1, <4>1, ListedKept
    <3>3. CASE i = k[w] + 1
      <4>1. reader'[s[i]] = Append(reader[s[i]], t)
        BY <1>0, <2>1, <2>3, <3>1, <3>3
      <4>2. Has(Append(reader[s[i]], t), t)
        BY <1>0, <2>2, <3>1, InAppend
      <4> QED
        BY <4>1, <4>2 DEF Listed
    <3> QED
      BY <2>2, <3>2, <3>3
  <2>4. waits[t] = {s[i] : i \in DOMAIN s}
    BY <1>4, <2>1 DEF Joining
  <2> QED
    BY <2>1, <2>3, <2>4
<1>5. CASE v = w /\ ~ SelBlock(w) /\ ~ SelJoin(w)
  <2>1. at'[w] # "sel_join"
    <3>1. CASE Loop(w)
      BY <1>0, <1>5, <3>1, Places DEF Loop, Top, Pop, Find, Claim, Claimed, Resume, CloseTask, Release, RelCheck,
            RelPush, RelDrop, Notify, Trigger, Suspend, Wait, Go, From, Goto, Die
    <3>2. CASE EndSlice(w)
      BY <1>0, <3>2 DEF EndSlice, Yield, Finish, CloseLua, Go, From, Goto
    <3>3. CASE Slice(w)
      BY <1>0, <1>5, <3>3 DEF Slice, CallOpen, OpenNew, OpenPush, OpenId, OpenReg, Channel, Close, Recv,
            CallSend, SendPush, SendPop, SendFind, SendCas, SendWake, SendDrop, SendDone, CallSelect, CloseLua,
            SelCheck, SelFound, SelDrop, Go, From, Goto, Die
    <3> QED
      BY <3>1, <3>2, <3>3 DEF Step
  <2> QED
    BY <1>1, <1>5, <2>1
<1> QED
  BY <1>2, <1>3, <1>4, <1>5

LEMMA FindKept ==
  ASSUME TInv, OneInside, FindInv, [Next]_vars
  PROVE  FindInv'
<1>1. CASE UNCHANGED vars
  <2>1. vars' = vars
    BY <1>1
  <2> QED
    BY <2>1 DEF FindInv, Findable, Known, Joining, Listed, Tokens, vars, schedvars, taskvars, chanvars, locals
<1>2. ASSUME NEW w \in Workers, Step(w) PROVE FindInv'
  <2>0. /\ at \in [Workers -> PCs] /\ waits \in [Tasks -> SUBSET Channels] /\ Fits(w) /\ sel \in [Workers -> Seq(Channels)]
        /\ 1 .. opened \subseteq Tasks /\ chans \subseteq Channels /\ live \subseteq Tasks
    BY <1>2, Opened DEF TInv, Typed, TypeOK
  <2>1. ASSUME NEW t \in live', status'[t] = "READY" PROVE Tokens(t)' # {}
    BY <1>2, <2>1, ReadyFound DEF FindInv, Findable
  <2>2. ASSUME NEW t \in live', status'[t] = "BLOCKED", \A v \in Workers : cur'[v] = t => at'[v] # "sel_join",
               NEW c \in waits'[t] \cap chans'
        PROVE  Listed(t, c)'
    <3>1. SelBlock(w) => cur[w] # t
      BY <1>2, <2>0, <2>2 DEF SelBlock, Go, Goto, locals
    <3>2. status[t] = "BLOCKED" /\ t \in live
      BY <1>2, <2>2, <3>1, Blocks
    <3>3. waits'[t] = waits[t]
      BY <1>2, <2>0, <3>1, <3>2, Frames DEF SelBlock
    <3>4. c \in waits[t] \cap chans /\ c \in Channels
      BY <1>2, <2>0, <2>2, <3>2, <3>3, KnownKept DEF Known, FindInv
    <3>5. CASE \A v \in Workers : cur[v] = t => at[v] # "sel_join"
      <4>1. Listed(t, c)
        BY <3>2, <3>4, <3>5 DEF FindInv, Findable, Listed, Has
      <4> QED
        BY <1>2, <2>2, <3>2, <3>4, <4>1, ListedKept
    <3>6. ASSUME NEW v \in Workers, cur[v] = t, at[v] = "sel_join" PROVE Listed(t, c)'
      <4>1. v = w
        BY <1>2, <2>2, <3>6, OthersStand
      <4>2. SelJoin(w) /\ k[w] = Len(sel[w])
        BY <1>2, <2>0, <2>2, <3>6, <4>1, Places DEF SelJoin, Goto
      <4>3. waits[t] = {sel[w][i] : i \in DOMAIN sel[w]}
        BY <3>6, <4>1 DEF FindInv, Joining
      <4>4. PICK i \in DOMAIN sel[w] : c = sel[w][i]
        BY <3>4, <4>3
      <4>5. i \in 1 .. k[w]
        BY <2>0, <4>2
      <4>6. Listed(t, c)
        BY <3>2, <3>4, <3>6, <4>1, <4>4, <4>5 DEF FindInv, Joining
      <4> QED
        BY <1>2, <2>2, <3>2, <3>4, <4>6, ListedKept
    <3> QED
      BY <3>5, <3>6
  <2>3. Findable'
    BY <2>1, <2>2 DEF Findable, Listed, Has
  <2>4. Known' /\ \A v \in Workers : Joining(v)'
    BY <1>2, KnownKept, JoiningKept DEF FindInv
  <2> QED
    BY <2>3, <2>4 DEF FindInv
<1> QED
  BY <1>1, <1>2 DEF Next

LEMMA FindInit ==
  ASSUME Init
  PROVE  FindInv
<1>1. /\ N \in Nat /\ N > 0 /\ Initial \in Nat /\ Initial <= MaxTasks /\ Workers = 0 .. N - 1 /\ MaxTasks \in Nat
      /\ Tasks = 1 .. MaxTasks
  BY ConstantsFit
\* Task t is element (t - 1) \div N + 1 of the queue of worker (t - 1) % N.
<1>2. ASSUME NEW t \in 1 .. Initial PROVE Queued(t)
  <2> DEFINE v == (t - 1) % N
             j == (t - 1) \div N
             m == (Initial + N - 1 - v) \div N
  <2>1. v \in Workers /\ j \in Nat /\ t - 1 = j * N + v /\ v < N
    BY <1>1
  <2>2. m \in Nat /\ Initial + N - 1 - v = m * N + ((Initial + N - 1 - v) % N) /\ (Initial + N - 1 - v) % N < N
    BY <1>1, <2>1
  <2> HIDE DEF v, j, m
  <2>3. (Initial + N - 1 - v) % N \in Int
    BY <1>1, <2>1
  <2>4. j < m
    <3>1. ASSUME m <= j PROVE FALSE
      <4>1. m * N <= j * N
        BY ONLY <1>1, <2>1, <2>2, <3>1
      <4>2. m * N \in Int /\ j * N \in Int
        BY ONLY <1>1, <2>1, <2>2
      <4> QED
        BY ONLY <1>1, <2>1, <2>2, <2>3, <4>1, <4>2, t \in 1 .. Initial
    <3> QED
      BY <2>1, <2>2, <3>1
  <2>5. runq[v] = [i \in 1 .. m |-> v + 1 + (i - 1) * N]
    BY <2>1 DEF Init, m
  <2>6. j + 1 \in 1 .. m /\ v + 1 + ((j + 1) - 1) * N = t
    BY <1>1, <2>1, <2>2, <2>4
  <2> QED
    BY <2>1, <2>5, <2>6 DEF Queued, Has
<1>3. Findable
  <2>1. ASSUME NEW t \in live PROVE Tokens(t) # {} /\ status[t] # "BLOCKED"
    <3>1. t \in 1 .. Initial
      BY DEF Init
    <3> QED
      <4>1. t \in Tasks /\ Queued(t)
        BY <1>1, <1>2, <3>1
      <4>2. status[t] = "READY"
        BY <3>1, <4>1 DEF Init
      <4> QED
        BY <4>1, <4>2, TokensAre
  <2> QED
    BY <2>1 DEF Findable
<1>4. Known /\ \A w \in Workers : Joining(w)
  BY DEF Init, Known, Joining
<1> QED
  BY <1>3, <1>4 DEF FindInv

\* Someone will find every task: a ready one is queued or about to be, and each
\* open channel a blocked one waits for lists it as a reader, or a sender has
\* just taken it from there; with any number of workers and whatever the scripts
\* do, although a wake-up may overtake a yield.
THEOREM EveryTaskFound == Spec => []Findable
<1>1. Init => OneInside
  BY DEF Init, OneInside, SlicePCs
<1>2. FindInv => Findable
  BY DEF FindInv
<1> QED
  BY TypesInit, TypesKept, OneInsideKept, FindInit, FindKept, <1>1, <1>2, PTL DEF Spec

-----------------------------------------------------------------------------
(* A Lua state is used while it is open, and closed by one worker.         *)

\* What a step does to the Lua states.
LEMMA LuaSteps ==
  ASSUME TInv, NEW w \in Workers, Step(w)
  PROVE  \/ /\ lua' = lua /\ (at'[w] = "close" => at[w] = "close")
         \/ /\ lua' = [lua EXCEPT ![cur[w]] = "closed"] /\ at[w] = "lua" /\ at'[w] = "close" /\ cur' = cur
            /\ live' = live /\ refs' = refs
<1>0. at \in [Workers -> PCs]
  BY DEF TInv, Typed, TypeOK
<1>1. CASE CloseLua(w) /\ From(w, "lua")
  BY <1>0, <1>1 DEF CloseLua, From, Goto, locals, taskvars
<1>2. CASE ~ (CloseLua(w) /\ From(w, "lua"))
  <2>1. lua' = lua
    BY <1>2, Frames DEF Finish, CallSelect, luavars
  <2>2. at'[w] # "close" \/ at'[w] = at[w]
    <3>1. CASE Loop(w)
      BY <1>0, <3>1 DEF Loop, Top, Pop, Find, Claim, Claimed, Resume, CloseTask, Release, RelCheck, RelPush, RelDrop,
              Notify, Trigger, Suspend, Wait, Go, From, Goto, Die
    <3>2. CASE EndSlice(w)
      BY <1>0, <1>2, <3>2 DEF EndSlice, Yield, Finish, Go, From, Goto
    <3>3. CASE Slice(w)
      BY <1>0, <1>2, <3>3 DEF Slice, CallOpen, OpenNew, OpenPush, OpenId, OpenReg, Channel, Close, Recv, CallSend, SendPush,
              SendPop, SendFind, SendCas, SendWake, SendDrop, SendDone, CallSelect, SelCheck, SelFound,
              SelBlock, SelJoin, SelDrop, Go, From, Goto, Die
    <3> QED
      BY <3>1, <3>2, <3>3 DEF Step
  <2> QED
    BY <2>1, <2>2
<1> QED
  BY <1>1, <1>2

LEMMA OwnersKept ==
  ASSUME TInv, Owners, [Next]_vars
  PROVE  Owners'
<1>1. OneInside'
  BY OneInsideKept DEF Owners
<1>2. CASE UNCHANGED vars
  BY <1>1, <1>2 DEF Owners, OneCloses, LuaFits, vars, luavars, locals
<1>3. ASSUME NEW u \in Workers, Step(u) PROVE OneCloses' /\ LuaFits'
  <2>0. /\ at \in [Workers -> PCs] /\ lua \in [Tasks -> {"open", "closed"}] /\ 1 .. opened \subseteq Tasks
        /\ \A v \in Workers : at[v] \in SlicePCs \cup {"resume", "close"} => cur[v] \in Tasks
    BY <1>3, Opened DEF TInv, Typed, TypeOK, Fits, CurPCs
  <2>1. \A v \in Workers : v # u => at'[v] = at[v] /\ cur'[v] = cur[v]
    BY <1>3, OthersStand
  <2>2. at[u] \in SlicePCs \cup {"resume", "close"} => cur' = cur
    BY <1>3, Enters DEF Claim, From, SlicePCs
  <2>3. at'[u] \in SlicePCs => at[u] \in SlicePCs \/ (at[u] = "resume" /\ lua[cur[u]] = "open")
    BY <1>3, <2>0, Enters DEF Resume, From, Goto, Die, SlicePCs
  <2>4. CASE lua' = lua /\ (at'[u] = "close" => at[u] = "close")
    <3>1. LuaFits'
      <4>1. ASSUME NEW v \in Workers, v # u
            PROVE  (at'[v] \in SlicePCs => lua'[cur'[v]] = "open") /\ (at'[v] = "close" => lua'[cur'[v]] = "closed")
        BY <2>1, <2>4, <4>1 DEF Owners, LuaFits
      <4>2. at'[u] \in SlicePCs => lua'[cur'[u]] = "open"
        BY <2>2, <2>3, <2>4 DEF Owners, LuaFits
      <4>3. at'[u] = "close" => lua'[cur'[u]] = "closed"
        BY <2>2, <2>4 DEF Owners, LuaFits
      <4> QED
        BY <4>1, <4>2, <4>3 DEF LuaFits
    <3>2. OneCloses'
      BY <2>1, <2>2, <2>4 DEF Owners, OneCloses
    <3> QED
      BY <3>1, <3>2
  <2>5. CASE lua' = [lua EXCEPT ![cur[u]] = "closed"] /\ at[u] = "lua" /\ at'[u] = "close" /\ cur' = cur
    <3>0. cur[u] \in Tasks /\ lua[cur[u]] = "open" /\ lua'[cur[u]] = "closed" /\ at[u] \in SlicePCs
      BY <2>0, <2>5 DEF SlicePCs, Owners, LuaFits
    <3>1. ASSUME NEW v \in Workers, v # u
          PROVE  (at'[v] \in SlicePCs => lua'[cur'[v]] = "open") /\ (at'[v] = "close" => lua'[cur'[v]] = "closed")
      <4>1. at'[v] \in SlicePCs => cur[v] # cur[u]
        BY <2>1, <3>0, <3>1 DEF Owners, OneInside
      <4> QED
        BY <2>0, <2>1, <2>5, <3>1, <4>1 DEF Owners, LuaFits
    <3>2. LuaFits'
      BY <2>5, <3>0, <3>1 DEF LuaFits, SlicePCs
    <3>3. ASSUME NEW v \in Workers, v # u, at'[v] = "close" PROVE cur'[v] # cur'[u]
      BY <2>1, <2>5, <3>0, <3>3 DEF Owners, LuaFits
    <3>4. OneCloses'
      BY <2>1, <2>5, <3>3 DEF Owners, OneCloses
    <3> QED
      BY <3>2, <3>4
  <2> QED
    BY <1>3, <2>4, <2>5, LuaSteps
<1> QED
  BY <1>1, <1>2, <1>3 DEF Next, Owners

-----------------------------------------------------------------------------
(* References, when every task that runs has its handle.                   *)

LEMMA SettledKept ==
  ASSUME N = 1 \/ "open" \notin Ops, TInv, Settled, [Next]_vars
  PROVE  Settled'
<1>1. CASE UNCHANGED vars
  BY <1>1 DEF Settled, vars, schedvars, luavars, locals
<1>2. ASSUME NEW w \in Workers, Step(w) PROVE Settled'
  <2>0. /\ at \in [Workers -> PCs] /\ tok \in [Workers -> 0 .. opened] /\ ltid \in [Tasks -> 0 .. MaxTasks]
        /\ 1 .. opened \subseteq Tasks /\ opened \in Nat /\ Fits(w)
        /\ \A v \in Workers : at[v] \in CurPCs => cur[v] \in 1 .. opened
    BY <1>2, Opened DEF TInv, Typed, TypeOK, Fits
  <2>1. \A v \in Workers : v # w => at'[v] = at[v] /\ cur'[v] = cur[v] /\ tok'[v] = tok[v]
    BY <1>2, OthersStand
  <2>2. \A t \in Tasks : ltid[t] = t => ltid'[t] = t
    <3>1. ltid' = ltid \/ ltid' = [ltid EXCEPT ![tok[w]] = tok[w]]
      BY <1>2, Frames DEF OpenId
    <3> QED
      BY <2>0, <3>1
  <2>3. ASSUME NEW t \in 1 .. opened', ltid'[t] # t
        PROVE  \E v \in Workers : tok'[v] = t /\ at'[v] \in {"open_push", "open_id"}
    <3>1. CASE OpenNew(w)
      <4>1. at'[w] = "open_push" /\ tok'[w] = opened + 1 /\ opened' = opened + 1 /\ at[w] = "open_new"
        BY <2>0, <3>1 DEF OpenNew, Go, From, Goto
      <4>2. CASE t = opened + 1
        BY <4>1, <4>2
      <4>3. CASE t # opened + 1
        <5>1. t \in 1 .. opened /\ ltid[t] # t
          BY <2>0, <2>2, <2>3, <4>1, <4>3
        <5>2. PICK v \in Workers : tok[v] = t /\ at[v] \in {"open_push", "open_id"}
          BY <5>1 DEF Settled
        <5> QED
          BY <2>1, <4>1, <5>2
      <4> QED
        BY <4>2, <4>3
    <3>2. CASE ~ OpenNew(w)
      <4>1. t \in 1 .. opened /\ ltid[t] # t
        BY <1>2, <2>0, <2>2, <2>3, <3>2, Frames
      <4>2. PICK v \in Workers : tok[v] = t /\ at[v] \in {"open_push", "open_id"}
        BY <4>1 DEF Settled
      <4>3. CASE v = w /\ at[w] = "open_push"
        BY <1>2, <2>0, <4>2, <4>3, Places DEF OpenPush, Go, Goto, locals
      <4>4. CASE v = w /\ at[w] = "open_id"
        <5>1. /\ ltid' = [ltid EXCEPT ![tok[w]] = tok[w]] \/ at' = at
              /\ tok' = tok
          BY <1>2, <4>4, Places DEF OpenId, Die, locals
        <5>2. at' = at
          BY <2>0, <2>3, <4>1, <4>2, <4>4, <5>1
        <5> QED
          BY <4>2, <5>1, <5>2
      <4> QED
        BY <2>1, <4>2, <4>3, <4>4
    <3> QED
      BY <3>1, <3>2
  <2>4. (at'[w] \in CurPCs => at[w] \in CurPCs \/ Claim(w)) /\ ("open" \notin Ops /\ at'[w] \in OpenPCs => at[w] \in OpenPCs)
    <3>1. CASE Loop(w)
      <4>1. at'[w] \in CurPCs => at[w] \in CurPCs \/ Claim(w)
        BY <2>0, <3>1 DEF Loop, Top, Pop, Find, Claimed, Resume, CloseTask, Release, RelCheck, RelPush, RelDrop,
              Notify, Trigger, Suspend, Wait, Go, From, Goto, Die, CurPCs, SlicePCs
      <4>2. at'[w] \in OpenPCs => at[w] \in OpenPCs
        BY <2>0, <3>1 DEF Loop, Top, Pop, Find, Claim, Claimed, Resume, CloseTask, Release, RelCheck, RelPush, RelDrop,
              Notify, Trigger, Suspend, Wait, Go, From, Goto, Die, OpenPCs
      <4> QED
        BY <4>1, <4>2
    <3>2. CASE EndSlice(w)
      BY <2>0, <3>2 DEF EndSlice, Yield, Finish, CloseLua, Go, From, Goto, OpenPCs, CurPCs, SlicePCs
    <3>3. CASE Slice(w)
      <4>1. at[w] \in CurPCs
        BY <3>3 DEF Slice, CallOpen, OpenNew, OpenPush, OpenId, OpenReg, Channel, Close, Recv, CallSend, SendPush,
              SendPop, SendFind, SendCas, SendWake, SendDrop, SendDone, CallSelect, SelCheck, SelFound,
              SelBlock, SelJoin, SelDrop, Go, From, CurPCs, SlicePCs
      <4>2. "open" \notin Ops /\ at'[w] \in OpenPCs => at[w] \in OpenPCs
        BY <2>0, <3>3 DEF Slice, CallOpen, OpenNew, OpenPush, OpenId, OpenReg, Channel, Close, Recv, CallSend, SendPush,
              SendPop, SendFind, SendCas, SendWake, SendDrop, SendDone, CallSelect, CloseLua, SelCheck, SelFound,
              SelBlock, SelJoin, SelDrop, Go, From, Goto, Die, OpenPCs
      <4> QED
        BY <4>1, <4>2
    <3> QED
      BY <1>2, <3>1, <3>2, <3>3 DEF Step
  <2>5. \A v \in Workers : "open" \notin Ops => at'[v] \notin OpenPCs
    BY <2>1, <2>4 DEF Settled
  <2>6. ASSUME NEW v \in Workers, at'[v] \in CurPCs PROVE ltid'[cur'[v]] = cur'[v]
    <3>1. CASE v # w
      <4>1. ltid[cur[v]] = cur[v] /\ cur[v] \in Tasks
        BY <2>0, <2>1, <2>6, <3>1 DEF Settled
      <4> QED
        BY <2>1, <2>2, <3>1, <4>1
    <3>2. CASE v = w /\ Claim(w)
      <4>1. at[w] = "claim" /\ tok[w] \in 1 .. opened /\ cur'[w] = tok[w]
        BY <2>0, <2>6, <3>2, OwnStep DEF Claim, From, Fits, TokPCs, CurPCs, SlicePCs, Die, Goto, TInv, Typed, TypeOK
      <4>2. ASSUME NEW x \in Workers, at[x] \in {"open_push", "open_id"} PROVE FALSE
        <5>1. x = w
          BY <4>2, ConstantsFit DEF Settled, OpenPCs
        <5> QED
          BY <4>1, <4>2, <5>1
      <4>3. ltid[tok[w]] = tok[w]
        BY <4>1, <4>2 DEF Settled
      <4> QED
        BY <2>0, <2>2, <3>2, <4>1, <4>3
    <3>3. CASE v = w /\ ~ Claim(w)
      <4>1. at[w] \in CurPCs /\ cur' = cur
        BY <1>2, <2>4, <2>6, <3>3, Enters
      <4>2. ltid[cur[w]] = cur[w] /\ cur[w] \in Tasks
        BY <2>0, <4>1 DEF Settled
      <4> QED
        BY <2>2, <3>3, <4>1, <4>2
    <3> QED
      BY <3>1, <3>2, <3>3
  <2> QED
    BY <2>3, <2>5, <2>6 DEF Settled
<1> QED
  BY <1>1, <1>2 DEF Next

\* A step takes a reference and has a handle more in hand, drops the one it has
\* in hand, or does neither; only closing a task drops a reference of nobody's.
LEMMA GripSteps ==
  ASSUME TInv, NEW w \in Workers, Step(w)
  PROVE  \/ Grip(w) = 0 /\ \E x \in live : GrabTask(x) /\ Grip(w)' = x
         \/ Grip(w)' = 0 /\ \E x \in 1 .. opened : ReleaseTask(x) /\ Grip(w) = x
         \/ (CloseTask(w) \/ OpenNew(w)) /\ Grip(w)' = Grip(w)
         \/ Grip(w)' = Grip(w) /\ refs' = refs /\ live' = live
<1> DEFINE Takes == Grip(w) = 0 /\ \E x \in live : GrabTask(x) /\ Grip(w)' = x
           Drops == Grip(w)' = 0 /\ \E x \in 1 .. opened : ReleaseTask(x) /\ Grip(w) = x
           Moves == (CloseTask(w) \/ OpenNew(w)) /\ Grip(w)' = Grip(w)
           Keeps == Grip(w)' = Grip(w) /\ refs' = refs /\ live' = live
<1>0. /\ at \in [Workers -> PCs] /\ tok \in [Workers -> 0 .. opened] /\ cur \in [Workers -> 0 .. opened]
      /\ Fits(w)
  BY DEF TInv, Typed, TypeOK
<1>1. CASE Find(w)
  BY <1>0, <1>1 DEF Find, From, Goto, Grip, TokHoldPCs, CurHoldPCs, locals
<1>2. CASE Claimed(w)
  BY <1>0, <1>2 DEF Claimed, Go, From, Goto, Grip, TokHoldPCs, CurHoldPCs, Fits, TokPCs
<1>3. CASE CloseTask(w) \/ OpenNew(w)
  BY <1>0, <1>3 DEF CloseTask, OpenNew, Go, From, Goto, Grip, TokHoldPCs, CurHoldPCs
<1>4. CASE Release(w)
  BY <1>0, <1>4 DEF Release, From, Goto, Grip, TokHoldPCs, CurHoldPCs
<1>5. CASE RelDrop(w)
  BY <1>0, <1>5 DEF RelDrop, Go, From, Goto, Grip, TokHoldPCs, CurHoldPCs, Fits, TokPCs
<1>6. CASE SendFind(w)
  BY <1>0, <1>6 DEF SendFind, From, Goto, Grip, TokHoldPCs, CurHoldPCs
<1>7. CASE SendDrop(w)
  BY <1>0, <1>7 DEF SendDrop, Go, From, Goto, Grip, TokHoldPCs, CurHoldPCs, Fits, TokPCs
<1>8. CASE SelFound(w)
  BY <1>0, <1>8 DEF SelFound, Go, From, Goto, Grip, TokHoldPCs, CurHoldPCs, Fits, CurPCs, SlicePCs
<1>9. CASE SelDrop(w)
  BY <1>0, <1>9 DEF SelDrop, Go, From, Goto, Grip, TokHoldPCs, CurHoldPCs, Fits, CurPCs, SlicePCs
<1>10. CASE \E s \in Selects : CallSelect(w, s)
  BY <1>0, <1>10 DEF CallSelect, CloseLua, From, Goto, Grip, TokHoldPCs, CurHoldPCs, locals, taskvars
<1>11. CASE Top(w) \/ Pop(w) \/ Claim(w) \/ Resume(w) \/ RelCheck(w) \/ RelPush(w) \/ Notify(w) \/ Trigger(w)
              \/ Suspend(w) \/ Wait(w)
  BY <1>0, <1>11 DEF Top, Pop, Claim, Resume, RelCheck, RelPush, Notify, Trigger, Suspend, Wait,
        Go, From, Goto, Die, Grip, TokHoldPCs, CurHoldPCs, locals, taskvars
<1>12. CASE Yield(w) \/ Finish(w)
  BY <1>0, <1>12 DEF Yield, Finish, CloseLua, Go, From, Goto, Grip, TokHoldPCs, CurHoldPCs, locals, taskvars
<1>13. CASE CallOpen(w) \/ OpenPush(w) \/ OpenId(w) \/ OpenReg(w)
  BY <1>0, <1>13 DEF CallOpen, OpenPush, OpenId, OpenReg, Go, From, Goto, Die, Grip, TokHoldPCs, CurHoldPCs,
        locals, taskvars
<1>14. CASE \E c \in Channels : Channel(w, c) \/ Close(w, c) \/ Recv(w, c) \/ CallSend(w, c)
  BY <1>0, <1>14 DEF Channel, Close, Recv, CallSend, Go, From, Goto, Grip, TokHoldPCs, CurHoldPCs, locals, taskvars
<1>15. CASE SendPush(w) \/ SendPop(w) \/ SendCas(w) \/ SendWake(w) \/ SendDone(w)
  BY <1>0, <1>15 DEF SendPush, SendPop, SendCas, SendWake, SendDone, Go, From, Goto, Grip, TokHoldPCs, CurHoldPCs,
        locals, taskvars
<1>16. CASE SelCheck(w) \/ SelBlock(w) \/ SelJoin(w)
  BY <1>0, <1>16 DEF SelCheck, SelBlock, SelJoin, Go, From, Goto, Grip, TokHoldPCs, CurHoldPCs, locals, taskvars
<1> QED
  BY <1>1, <1>2, <1>3, <1>4, <1>5, <1>6, <1>7, <1>8, <1>9, <1>10, <1>11, <1>12, <1>13, <1>14, <1>15, <1>16
     DEF Step, Loop, EndSlice, Slice

\* A task has its own reference until its slice closed it.
LEMMA UnclosedSteps ==
  ASSUME TInv, Owners, NEW w \in Workers, Step(w), NEW t \in Tasks
  PROVE  /\ ~ (CloseTask(w) /\ cur[w] = t) => (Unclosed(t)' <=> Unclosed(t))
         /\ CloseTask(w) /\ cur[w] = t => Unclosed(t) /\ ~ Unclosed(t)'
<1>0. at \in [Workers -> PCs] /\ lua \in [Tasks -> {"open", "closed"}]
  BY DEF TInv, Typed, TypeOK
<1>1. \A v \in Workers : v # w => at'[v] = at[v] /\ cur'[v] = cur[v]
  BY OthersStand
<1>2. CASE CloseTask(w)
  <2>1. at[w] = "close" /\ at'[w] = "release" /\ cur' = cur /\ lua' = lua
    BY <1>0, <1>2 DEF CloseTask, Go, From, Goto, locals, luavars
  <2>2. CASE cur[w] = t
    <3>1. lua[t] = "closed" /\ \A v \in Workers : v # w /\ at[v] = "close" => cur[v] # t
      BY <2>1, <2>2 DEF Owners, OneCloses, LuaFits
    <3> QED
      BY <1>1, <1>2, <2>1, <2>2, <3>1 DEF Unclosed
  <2>3. CASE cur[w] # t
    BY <1>1, <1>2, <2>1, <2>3 DEF Unclosed
  <2> QED
    BY <2>2, <2>3
<1>3. CASE ~ CloseTask(w)
  <2>1. at[w] # "close"
    BY <1>3, Places
  <2>2. CASE lua' = lua /\ at'[w] # "close"
    BY <1>1, <1>3, <2>1, <2>2 DEF Unclosed
  <2>3. CASE lua' = [lua EXCEPT ![cur[w]] = "closed"] /\ at[w] = "lua" /\ at'[w] = "close" /\ cur' = cur
    <3>1. lua[cur[w]] = "open"
      BY <2>3 DEF Owners, LuaFits, SlicePCs
    <3>2. CASE cur[w] = t
      BY <1>3, <2>3, <3>1, <3>2 DEF Unclosed
    <3>3. CASE cur[w] # t
      <4>1. lua'[t] = lua[t]
        BY <1>0, <2>3, <3>3
      <4>2. \A v \in Workers : at'[v] = "close" /\ cur'[v] = t <=> at[v] = "close" /\ cur[v] = t
        BY <1>1, <2>1, <2>3, <3>3
      <4> QED
        BY <1>3, <4>1, <4>2 DEF Unclosed
    <3> QED
      BY <3>2, <3>3
  <2> QED
    BY <2>1, <2>2, <2>3, LuaSteps
<1> QED
  BY <1>2, <1>3

LEMMA HoldersAre ==
  ASSUME NEW t, t # 0
  PROVE  TaskHolders(t) = {v \in Workers : Grip(v) = t}
BY DEF TaskHolders, Grip, TokHoldPCs, CurHoldPCs

LEMMA HoldersWillBe ==
  ASSUME NEW t, t # 0
  PROVE  TaskHolders(t)' = {v \in Workers : Grip(v)' = t}
BY DEF TaskHolders, Grip, TokHoldPCs, CurHoldPCs

LEMMA TaskRefsKept ==
  ASSUME TInv, Owners, Settled, TaskRefs, [Next]_vars
  PROVE  TaskRefs'
<1>1. CASE UNCHANGED vars
  BY <1>1 DEF TaskRefs, Unclosed, TaskHolders, vars, schedvars, taskvars, luavars, locals
<1>2. ASSUME NEW w \in Workers, Step(w) PROVE TaskRefs'
  <2> DEFINE Own(t) == IF Unclosed(t) THEN 1 ELSE 0
  <2>0. /\ at \in [Workers -> PCs] /\ tok \in [Workers -> 0 .. opened] /\ cur \in [Workers -> 0 .. opened]
        /\ refs \in [Tasks -> Nat] /\ 1 .. opened \subseteq Tasks /\ opened \in Nat /\ Fits(w)
        /\ lua \in [Tasks -> {"open", "closed"}] /\ live \subseteq 1 .. opened
    BY <1>2, Opened DEF TInv, Typed, TypeOK
  <2>1. \A v \in Workers : v # w => Grip(v)' = Grip(v)
    BY <1>2, OthersStand DEF Grip
  <2>2. ASSUME NEW t \in 1 .. opened
        PROVE  /\ IsFiniteSet(TaskHolders(t)) /\ Cardinality(TaskHolders(t)) \in Nat
               /\ TaskHolders(t) = {v \in Workers : Grip(v) = t} /\ TaskHolders(t)' = {v \in Workers : Grip(v)' = t}
               /\ Grip(w)' = t /\ Grip(w) # t => Cardinality(TaskHolders(t)') = Cardinality(TaskHolders(t)) + 1
               /\ Grip(w)' # t /\ Grip(w) = t =>
                    Cardinality(TaskHolders(t)') = Cardinality(TaskHolders(t)) - 1 /\ Cardinality(TaskHolders(t)) > 0
               /\ (Grip(w)' = t <=> Grip(w) = t) => TaskHolders(t)' = TaskHolders(t)
    <3>1. IsFiniteSet(TaskHolders(t)) /\ Cardinality(TaskHolders(t)) \in Nat
      BY ConstantsFit, FS_Subset, FS_CardinalityType DEF TaskHolders
    <3>2. TaskHolders(t) = {v \in Workers : Grip(v) = t} /\ TaskHolders(t)' = {v \in Workers : Grip(v)' = t}
      BY HoldersAre, HoldersWillBe
    <3>3. ASSUME Grip(w)' = t, Grip(w) # t PROVE Cardinality(TaskHolders(t)') = Cardinality(TaskHolders(t)) + 1
      <4>1. TaskHolders(t)' = TaskHolders(t) \cup {w} /\ w \notin TaskHolders(t)
        BY <2>1, <3>2, <3>3
      <4> QED
        BY <3>1, <4>1, FS_AddElement
    <3>4. ASSUME Grip(w)' # t, Grip(w) = t
          PROVE  Cardinality(TaskHolders(t)') = Cardinality(TaskHolders(t)) - 1 /\ Cardinality(TaskHolders(t)) > 0
      <4>1. TaskHolders(t)' = TaskHolders(t) \ {w} /\ w \in TaskHolders(t)
        BY <2>1, <3>2, <3>4
      <4>2. Cardinality(TaskHolders(t)') = Cardinality(TaskHolders(t)) - 1
        BY <3>1, <4>1, FS_RemoveElement
      <4>3. Cardinality(TaskHolders(t)) # 0
        BY <3>1, <4>1, FS_EmptySet
      <4> QED
        BY <3>1, <4>2, <4>3
    <3>5. (Grip(w)' = t <=> Grip(w) = t) => TaskHolders(t)' = TaskHolders(t)
      BY <2>1, <3>2
    <3> QED
      BY <3>1, <3>2, <3>3, <3>4, <3>5
  <2>3. ASSUME NEW t \in 1 .. opened
        PROVE  /\ refs[t] = Own(t) + Cardinality(TaskHolders(t)) /\ refs[t] \in Nat
               /\ (t \in live <=> refs[t] > 0) /\ Own(t) \in {0, 1}
    BY <2>0 DEF TaskRefs
  <2>4. ASSUME NEW x \in live, GrabTask(x), NEW t \in 1 .. opened
        PROVE  /\ refs'[t] = IF t = x THEN refs[t] + 1 ELSE refs[t]
               /\ t \in live' <=> t \in live
    BY <2>0, <2>4 DEF GrabTask
  <2>5. ASSUME NEW x \in live, ReleaseTask(x), NEW t \in 1 .. opened
        PROVE  /\ refs'[t] = IF t = x THEN refs[t] - 1 ELSE refs[t]
               /\ t \in live' <=> t \in live /\ (t = x => refs[t] # 1)
    BY <2>0, <2>5 DEF ReleaseTask
  <2>6. ASSUME NEW t \in 1 .. opened
        PROVE  /\ refs'[t] = Own(t)' + Cardinality(TaskHolders(t)')
               /\ t \in live' <=> refs'[t] > 0
    <3> HIDE DEF Own
    <3>0. Cardinality(TaskHolders(t)) \in Nat /\ t # 0
      BY <2>2
    <3>1. ~ (CloseTask(w) /\ cur[w] = t) => Own(t)' = Own(t)
      BY <1>2, <2>0, UnclosedSteps DEF Own
    <3>2. CASE CloseTask(w)
      <4>1. at[w] = "close" /\ at'[w] = "release" /\ ReleaseTask(ltid[cur[w]])
        BY <2>0, <3>2 DEF CloseTask, Go, From, Goto
      <4>2. ltid[cur[w]] = cur[w] /\ cur[w] \in 1 .. opened
        BY <2>0, <4>1 DEF Settled, CurPCs, Fits
      <4>3. TaskHolders(t)' = TaskHolders(t)
        BY <2>2, <4>1 DEF Grip, TokHoldPCs, CurHoldPCs
      <4>4. cur[w] \in Tasks /\ t \in Tasks
        BY <2>0, <4>2
      <4>5. Unclosed(cur[w])
        BY <1>2, <3>2, <4>4, UnclosedSteps
      <4>6. Own(cur[w]) = 1 /\ (t = cur[w] => Own(t)' = 0)
        BY <1>2, <3>2, <4>4, <4>5, UnclosedSteps DEF Own
      <4>7. cur[w] \in live
        BY <2>2, <2>3, <4>2, <4>6
      <4>8. refs'[t] = (IF t = cur[w] THEN refs[t] - 1 ELSE refs[t]) /\ (t \in live' <=> t \in live /\ (t = cur[w] => refs[t] # 1))
        BY <2>5, <4>1, <4>2, <4>7
      <4> QED
        BY <2>3, <3>0, <3>1, <4>3, <4>6, <4>8
    <3>3. CASE OpenNew(w)
      <4>1. /\ at[w] = "open_new" /\ at'[w] = "open_push" /\ opened + 1 # t
            /\ refs' = [refs EXCEPT ![opened + 1] = 1] /\ live' = live \cup {opened + 1}
        BY <2>0, <3>3 DEF OpenNew, Go, From, Goto
      <4>2. TaskHolders(t)' = TaskHolders(t)
        BY <2>2, <4>1 DEF Grip, TokHoldPCs, CurHoldPCs
      <4>3. ~ CloseTask(w)
        BY <4>1 DEF CloseTask, Go, From
      <4>4. refs'[t] = refs[t] /\ (t \in live' <=> t \in live)
        BY <2>0, <4>1
      <4> QED
        BY <2>3, <3>1, <4>2, <4>3, <4>4
    <3>4. CASE ~ CloseTask(w) /\ ~ OpenNew(w)
      <4>1. CASE Grip(w) = 0 /\ \E x \in live : GrabTask(x) /\ Grip(w)' = x
        <5>1. PICK x \in live : GrabTask(x) /\ Grip(w)' = x
          BY <4>1
        <5>2. refs'[t] = (IF t = x THEN refs[t] + 1 ELSE refs[t]) /\ (t \in live' <=> t \in live)
          BY <2>4, <5>1
        <5>3. Cardinality(TaskHolders(t)') = Cardinality(TaskHolders(t)) + (IF t = x THEN 1 ELSE 0)
          BY <2>2, <3>0, <4>1, <5>1
        <5> QED
          BY <2>3, <3>0, <3>1, <3>4, <5>2, <5>3
      <4>2. CASE Grip(w)' = 0 /\ \E x \in 1 .. opened : ReleaseTask(x) /\ Grip(w) = x
        <5>1. PICK x \in 1 .. opened : ReleaseTask(x) /\ Grip(w) = x
          BY <4>2
        <5>2. Grip(w)' # x
          BY <4>2, <5>1
        <5>3. x \in live
          BY <2>2, <2>3, <5>1, <5>2
        <5>4. refs'[t] = (IF t = x THEN refs[t] - 1 ELSE refs[t]) /\ (t \in live' <=> t \in live /\ (t = x => refs[t] # 1))
          BY <2>5, <5>1, <5>3
        <5>5. Cardinality(TaskHolders(t)') = Cardinality(TaskHolders(t)) - (IF t = x THEN 1 ELSE 0)
          BY <2>2, <3>0, <4>2, <5>1
        <5> QED
          BY <2>3, <3>0, <3>1, <3>4, <5>4, <5>5
      <4>3. CASE Grip(w)' = Grip(w) /\ refs' = refs /\ live' = live
        <5>1. TaskHolders(t)' = TaskHolders(t)
          BY <2>2, <4>3
        <5> QED
          BY <2>3, <3>1, <3>4, <4>3, <5>1
      <4> QED
        BY <1>2, <3>4, <4>1, <4>2, <4>3, GripSteps
    <3> QED
      BY <3>2, <3>3, <3>4
  \* The new task has the reference of its handle only.
  <2>7. ASSUME NEW t \in 1 .. opened', t \notin 1 .. opened
        PROVE  /\ refs'[t] = Own(t)' + Cardinality(TaskHolders(t)')
               /\ t \in live' <=> refs'[t] > 0
    <3>1. OpenNew(w) /\ t = opened + 1
      BY <1>2, <2>0, <2>7, Frames DEF OpenNew
    <3>2. /\ at[w] = "open_new" /\ at'[w] = "open_push" /\ lua' = lua /\ t \in Tasks
          /\ refs' = [refs EXCEPT ![t] = 1] /\ live' = live \cup {t}
      BY <2>0, <3>1, RoomToOpen DEF OpenNew, Go, From, Goto, luavars
    <3>3. Own(t)' = 1
      BY <2>0, <3>1, <3>2 DEF TaskRefs, Unclosed
    <3>4. \A v \in Workers : Grip(v)' # t
      <4>1. \A v \in Workers : Grip(v) \in 0 .. opened
        BY <2>0 DEF Grip
      <4>2. Grip(w)' = 0
        BY <3>2 DEF Grip, TokHoldPCs, CurHoldPCs
      <4> QED
        BY <2>0, <2>1, <3>1, <4>1, <4>2
    <3>5. TaskHolders(t)' = {}
      BY <2>0, <3>1, <3>4, HoldersWillBe
    <3> QED
      BY <2>0, <3>2, <3>3, <3>5, FS_EmptySet
  <2>8. ASSUME NEW t \in Tasks, t > opened' PROVE lua'[t] = "open"
    <3>1. opened <= opened' /\ opened' \in Nat /\ t \in Int
      BY <1>2, Opened, ConstantsFit
    <3>2. lua[t] = "open" /\ t > opened
      BY <2>0, <2>8, <3>1 DEF TaskRefs
    <3>3. at[w] = "lua" => cur[w] # t
      BY <2>0, <3>2 DEF Fits, CurPCs, SlicePCs
    <3> QED
      BY <1>2, <2>0, <3>2, <3>3, LuaSteps
  <2> QED
    BY <2>6, <2>7, <2>8 DEF TaskRefs
<1> QED
  BY <1>1, <1>2 DEF Next

LEMMA ChannelRefsKept ==
  ASSUME TInv, ChannelRefs, [Next]_vars
  PROVE  ChannelRefs'
<1>1. CASE UNCHANGED vars
  BY <1>1 DEF ChannelRefs, ChannelHolders, vars, chanvars, locals
<1>2. ASSUME NEW w \in Workers, Step(w) PROVE ChannelRefs'
  <2> DEFINE In(v, c) == ch[v] = c /\ at[v] \in SendPCs
             Own(c) == IF c \notin closed THEN 1 ELSE 0
  <2>0. /\ at \in [Workers -> PCs] /\ ch \in [Workers -> Channels \cup {0}]
        /\ crefs \in [Channels -> Nat] /\ Fits(w) /\ chans \subseteq Channels
    BY DEF TInv, Typed, TypeOK
  <2>1. \A v \in Workers : v # w => at'[v] = at[v] /\ ch'[v] = ch[v]
    BY <1>2, OthersStand
  <2>2. ASSUME NEW c \in Channels
        PROVE  /\ Cardinality(ChannelHolders(c)) \in Nat
               /\ In(w, c)' /\ ~ In(w, c) => Cardinality(ChannelHolders(c)') = Cardinality(ChannelHolders(c)) + 1
               /\ ~ In(w, c)' /\ In(w, c) =>
                    Cardinality(ChannelHolders(c)') = Cardinality(ChannelHolders(c)) - 1 /\ Cardinality(ChannelHolders(c)) > 0
               /\ (In(w, c)' <=> In(w, c)) => ChannelHolders(c)' = ChannelHolders(c)
    <3>1. IsFiniteSet(ChannelHolders(c)) /\ Cardinality(ChannelHolders(c)) \in Nat
      BY ConstantsFit, FS_Subset, FS_CardinalityType DEF ChannelHolders
    <3>2. ChannelHolders(c) = {v \in Workers : In(v, c)} /\ ChannelHolders(c)' = {v \in Workers : In(v, c)'}
      BY DEF ChannelHolders, SendPCs
    <3>3. \A v \in Workers : v # w => (In(v, c)' <=> In(v, c))
      BY <2>1
    <3> HIDE DEF In
    <3>4. ASSUME In(w, c)', ~ In(w, c) PROVE Cardinality(ChannelHolders(c)') = Cardinality(ChannelHolders(c)) + 1
      <4>1. ChannelHolders(c)' = ChannelHolders(c) \cup {w} /\ w \notin ChannelHolders(c)
        BY <3>2, <3>3, <3>4
      <4> QED
        BY <3>1, <4>1, FS_AddElement
    <3>5. ASSUME ~ In(w, c)', In(w, c)
          PROVE  Cardinality(ChannelHolders(c)') = Cardinality(ChannelHolders(c)) - 1 /\ Cardinality(ChannelHolders(c)) > 0
      <4>1. ChannelHolders(c)' = ChannelHolders(c) \ {w} /\ w \in ChannelHolders(c)
        BY <3>2, <3>3, <3>5
      <4>2. Cardinality(ChannelHolders(c)') = Cardinality(ChannelHolders(c)) - 1
        BY <3>1, <4>1, FS_RemoveElement
      <4>3. Cardinality(ChannelHolders(c)) # 0
        BY <3>1, <4>1, FS_EmptySet
      <4> QED
        BY <3>1, <4>2, <4>3
    <3>6. (In(w, c)' <=> In(w, c)) => ChannelHolders(c)' = ChannelHolders(c)
      BY <3>2, <3>3
    <3> QED
      BY <3>1, <3>4, <3>5, <3>6
  <2>3. ASSUME NEW c \in Channels, c \notin fresh
        PROVE  /\ crefs[c] = Own(c) + Cardinality(ChannelHolders(c)) /\ crefs[c] \in Nat
               /\ (c \in chans <=> crefs[c] > 0) /\ Own(c) \in {0, 1}
    BY <2>0, <2>3 DEF ChannelRefs
  <2> DEFINE Exact(c) == crefs[c] = Own(c) + Cardinality(ChannelHolders(c)) /\ (c \in chans <=> crefs[c] > 0)
             Apart == /\ fresh \cap chans = {} /\ fresh \cap closed = {}
                      /\ \A v \in Workers : at[v] \in SendPCs => ch[v] \notin fresh
  <2>4. Apart
    BY DEF ChannelRefs
  <2>5. SUFFICES Apart' /\ \A c \in Channels \ fresh' : Exact(c)'
    BY DEF ChannelRefs
  <2> HIDE DEF Own
  <2>6. CASE \E d \in Channels : Channel(w, d)
    <3>1. PICK d \in Channels : Channel(w, d)
      BY <2>6
    <3>2. /\ at' = at /\ ch' = ch /\ d \in fresh /\ fresh' = fresh \ {d} /\ chans' = chans \cup {d} /\ closed' = closed
          /\ crefs' = [crefs EXCEPT ![d] = 1]
      BY <2>0, <3>1 DEF Channel, Go, From, Goto, locals
    <3>3. \A c \in Channels : ChannelHolders(c)' = ChannelHolders(c)
      BY <3>2 DEF ChannelHolders
    <3>4. ChannelHolders(d) = {}
      BY <2>4, <3>2 DEF ChannelHolders, SendPCs
    <3>5. Exact(d)'
      BY SMTT(20), <2>0, <2>4, <3>2, <3>3, <3>4, FS_EmptySet DEF Own
    <3>6. ASSUME NEW c \in Channels, c \notin fresh PROVE Exact(c)'
      BY <2>0, <2>3, <3>2, <3>3, <3>6 DEF Own
    <3>7. Apart'
      BY <2>4, <3>2
    <3> QED
      BY <3>2, <3>5, <3>6, <3>7
  <2>7. CASE \E d \in Channels : Close(w, d)
    <3>1. PICK d \in Channels : Close(w, d)
      BY <2>7
    <3>2. /\ at' = at /\ ch' = ch /\ d \notin fresh /\ d \notin closed /\ fresh' = fresh /\ closed' = closed \cup {d}
          /\ ReleaseChannel(d)
      BY <2>0, <3>1 DEF Close, Go, From, Goto, locals
    <3>3. \A c \in Channels : ChannelHolders(c)' = ChannelHolders(c)
      BY <3>2 DEF ChannelHolders
    <3>4. Own(d) = 1 /\ Own(d)' = 0 /\ \A c : c # d => Own(c)' = Own(c)
      BY <3>2 DEF Own
    <3>5. d \in chans
      BY <2>2, <2>3, <3>2, <3>4
    <3>6. \A c \in Channels : /\ crefs'[c] = IF c = d THEN crefs[c] - 1 ELSE crefs[c]
                              /\ c \in chans' <=> c \in chans /\ (c = d => crefs[c] # 1)
      BY <2>0, <3>2, <3>5 DEF ReleaseChannel
    <3>7. ASSUME NEW c \in Channels, c \notin fresh PROVE Exact(c)'
      <4>1. Cardinality(ChannelHolders(c)) \in Nat
        BY <2>2
      <4>2. ChannelHolders(c)' = ChannelHolders(c)
        BY <3>3
      <4> QED
        BY <2>3, <3>4, <3>6, <3>7, <4>1, <4>2
    <3>8. Apart'
      <4>1. chans' \subseteq chans
        BY <3>2, ChannelRefSteps DEF TInv
      <4> QED
        BY <2>4, <3>2, <4>1
    <3> QED
      BY <3>2, <3>7, <3>8
  <2>8. CASE \E d \in Channels : CallSend(w, d)
    <3>1. PICK d \in Channels : CallSend(w, d)
      BY <2>8
    <3>2. fresh' = fresh /\ closed' = closed /\ chans' = chans /\ at[w] \notin SendPCs /\ d \notin fresh
      BY <3>1 DEF CallSend, From, SendPCs
    <3>3. \/ d \in chans /\ crefs' = [crefs EXCEPT ![d] = @ + 1] /\ ch'[w] = d /\ at'[w] \in SendPCs
          \/ crefs' = crefs /\ at'[w] \notin SendPCs
      BY <2>0, <3>1 DEF CallSend, Goto, SendPCs
    <3>4. \A c : Own(c)' = Own(c)
      BY <3>2 DEF Own
    <3>5. ASSUME NEW c \in Channels, c \notin fresh PROVE Exact(c)'
      <4>1. Cardinality(ChannelHolders(c)) \in Nat
        BY <2>2
      <4>2. CASE d \in chans /\ crefs' = [crefs EXCEPT ![d] = @ + 1] /\ ch'[w] = d /\ at'[w] \in SendPCs
        <5>1. Cardinality(ChannelHolders(c)') = Cardinality(ChannelHolders(c)) + (IF c = d THEN 1 ELSE 0)
          BY <2>2, <3>2, <4>1, <4>2
        <5>2. crefs'[c] = crefs[c] + (IF c = d THEN 1 ELSE 0)
          BY <2>0, <4>2
        <5> QED
          BY <2>3, <3>2, <3>4, <3>5, <4>1, <4>2, <5>1, <5>2
      <4>3. CASE crefs' = crefs /\ at'[w] \notin SendPCs
        <5>1. ChannelHolders(c)' = ChannelHolders(c)
          BY <2>2, <3>2, <4>3
        <5> QED
          BY <2>3, <3>2, <3>4, <3>5, <4>3, <5>1
      <4> QED
        BY <3>3, <4>2, <4>3
    <3>6. Apart'
      BY <2>1, <2>4, <3>2, <3>3
    <3> QED
      BY <3>2, <3>5, <3>6
  <2>9. CASE SendDone(w)
    <3> DEFINE d == ch[w]
    <3>1. /\ fresh' = fresh /\ closed' = closed /\ at[w] \in SendPCs /\ at'[w] \notin SendPCs
          /\ d \in Channels /\ ReleaseChannel(d)
      BY <2>0, <2>9 DEF SendDone, Go, From, Goto, SendPCs, Fits
    <3>2. d \notin fresh
      BY <2>4, <3>1
    <3>3. d \in chans
      BY <2>2, <2>3, <3>1, <3>2
    <3>4. \A c \in Channels : /\ crefs'[c] = IF c = d THEN crefs[c] - 1 ELSE crefs[c]
                              /\ c \in chans' <=> c \in chans /\ (c = d => crefs[c] # 1)
      BY <2>0, <3>1, <3>3 DEF ReleaseChannel
    <3>5. \A c : Own(c)' = Own(c)
      BY <3>1 DEF Own
    <3>6. ASSUME NEW c \in Channels, c \notin fresh PROVE Exact(c)'
      <4>1. Cardinality(ChannelHolders(c)) \in Nat
        BY <2>2
      <4>2. Cardinality(ChannelHolders(c)') = Cardinality(ChannelHolders(c)) - (IF c = d THEN 1 ELSE 0)
        BY <2>2, <3>1, <4>1
      <4> QED
        BY <2>3, <3>4, <3>5, <3>6, <4>1, <4>2
    <3>7. Apart'
      <4>1. chans' \subseteq chans
        BY <3>1, ChannelRefSteps DEF TInv
      <4> QED
        BY <2>1, <2>4, <3>1, <4>1
    <3> QED
      BY <3>1, <3>6, <3>7
  <2>10. CASE (\A d \in Channels : ~ Channel(w, d) /\ ~ Close(w, d) /\ ~ CallSend(w, d)) /\ ~ SendDone(w)
    <3>1. crefs' = crefs /\ chans' = chans /\ fresh' = fresh /\ closed' = closed
      BY <1>2, <2>10, Frames
    <3>2. (at'[w] \in SendPCs <=> at[w] \in SendPCs) /\ ch'[w] = ch[w]
      <4>1. CASE Loop(w)
        BY <2>0, <4>1 DEF Loop, Top, Pop, Find, Claim, Claimed, Resume, CloseTask, Release, RelCheck, RelPush, RelDrop,
              Notify, Trigger, Suspend, Wait, Go, From, Goto, Die, SendPCs, locals
      <4>2. CASE EndSlice(w)
        BY <2>0, <4>2 DEF EndSlice, Yield, Finish, CloseLua, Go, From, Goto, SendPCs, locals
      <4>3. CASE Slice(w)
        BY <2>0, <2>10, <4>3 DEF Slice, CallOpen, OpenNew, OpenPush, OpenId, OpenReg, Recv, SendPush, CloseLua,
              SendPop, SendFind, SendCas, SendWake, SendDrop, CallSelect, SelCheck, SelFound,
              SelBlock, SelJoin, SelDrop, Go, From, Goto, Die, SendPCs, locals
      <4> QED
        BY <1>2, <4>1, <4>2, <4>3 DEF Step
    <3>3. \A c \in Channels : ChannelHolders(c)' = ChannelHolders(c)
      BY <2>2, <3>2
    <3>4. ASSUME NEW c \in Channels, c \notin fresh PROVE Exact(c)'
      BY <2>3, <3>1, <3>3, <3>4 DEF Own
    <3>5. Apart'
      BY <2>1, <2>4, <3>1, <3>2
    <3> QED
      BY <3>1, <3>4, <3>5
  <2> QED
    BY <2>6, <2>7, <2>8, <2>9, <2>10
<1> QED
  BY <1>1, <1>2 DEF Next

LEMMA RefsInit ==
  ASSUME Init
  PROVE  Owners /\ Settled /\ TaskRefs /\ ChannelRefs
<1>1. /\ opened = Initial /\ Initial \in Nat /\ Initial <= MaxTasks /\ Tasks = 1 .. MaxTasks /\ MaxTasks \in Nat
      /\ Made \subseteq Channels
  BY ConstantsFit DEF Init
<1>2. \A w \in Workers : at[w] = "top"
  BY DEF Init
<1>3. Owners
  BY <1>2 DEF Owners, OneInside, OneCloses, LuaFits, SlicePCs
<1>4. Settled
  BY <1>1, <1>2 DEF Init, Settled, OpenPCs, CurPCs, SlicePCs
<1>5. \A t \in Tasks : TaskHolders(t) = {}
  BY <1>2 DEF TaskHolders
<1>6. \A c \in Channels : ChannelHolders(c) = {}
  BY <1>2 DEF ChannelHolders
<1>7. TaskRefs
  <2>1. \A t \in 1 .. opened : t \in Tasks /\ refs[t] = 1 /\ Unclosed(t) /\ t \in live
    BY <1>1 DEF Init, Unclosed
  <2> QED
    <3>1. \A t \in 1 .. opened : Cardinality(TaskHolders(t)) = 0
      BY <1>5, <2>1, FS_EmptySet
    <3>2. \A t \in Tasks : lua[t] = "open"
      BY DEF Init
    <3> QED
      BY <2>1, <3>1, <3>2 DEF TaskRefs
<1>8. ChannelRefs
  <2>1. \A c \in Channels : Cardinality(ChannelHolders(c)) = 0
    BY <1>6, FS_EmptySet
  <2>2. fresh = Channels \ Made /\ closed = {} /\ chans = Made /\ crefs = [c \in Channels |-> IF c \in Made THEN 1 ELSE 0]
    BY DEF Init
  <2>3. \A c \in Channels \ fresh : crefs[c] = 1 /\ c \in chans /\ c \notin closed
    BY <2>2
  <2> QED
    BY <1>2, <2>1, <2>2, <2>3 DEF ChannelRefs, SendPCs
<1> QED
  BY <1>3, <1>4, <1>7, <1>8

\* The references to a task are its own until its slice closed it and one per
\* worker between a grab and its release, those to a channel its owner's and one
\* per sender, and a handle leaves the map with the last of them: with any
\* number of workers as long as no script opens tasks while they run, and with
\* one worker whatever the scripts do.
THEOREM ReferencesExact ==
  ASSUME N = 1 \/ "open" \notin Ops
  PROVE  Spec => []RefsExact
<1>1. TaskRefs /\ ChannelRefs => RefsExact
  BY DEF TaskRefs, ChannelRefs, RefsExact
<1>2. TInv /\ Settled /\ [Next]_vars => Settled'
  BY SettledKept
<1> QED
  BY TypesInit, TypesKept, OwnersKept, TaskRefsKept, ChannelRefsKept, RefsInit, <1>1, <1>2, PTL DEF Spec

-----------------------------------------------------------------------------
(* One worker.                                                             *)

\* A lone worker is the only one, and its queue the only queue.
LEMMA Alone ==
  ASSUME N = 1, NEW w \in Workers
  PROVE  w = 0 /\ Workers = {0} /\ \A i \in Nat : i < N => (w + i) % N = w
BY DEF Workers

\* The step of a lone worker, in its own words.
LEMMA SoloFacts ==
  ASSUME N = 1, TInv, Settled, TaskRefs, Solo, NEW w \in Workers
  PROVE  /\ \A v \in Workers : v = w
         /\ Fits(w) /\ fault = "none" /\ Statused(w) /\ Once(w) /\ Worked(w) /\ Answered(w)
         /\ at \in [Workers -> PCs] /\ cur \in [Workers -> 0 .. opened] /\ tok \in [Workers -> 0 .. opened]
         /\ status \in [Tasks -> Statuses] /\ lua \in [Tasks -> {"open", "closed"}] /\ opened \in Nat
         /\ runq \in [Workers -> Seq(1 .. opened)] /\ home \in [Tasks -> Workers]
         /\ live \subseteq 1 .. opened /\ 1 .. opened \subseteq Tasks
         /\ at[w] \in CurPCs => cur[w] \in 1 .. opened /\ cur[w] \in Tasks /\ ltid[cur[w]] = cur[w]
         /\ at[w] \in TokPCs => tok[w] \in 1 .. opened /\ tok[w] \in Tasks
<1>1. /\ at \in [Workers -> PCs] /\ cur \in [Workers -> 0 .. opened] /\ tok \in [Workers -> 0 .. opened]
      /\ status \in [Tasks -> Statuses] /\ lua \in [Tasks -> {"open", "closed"}] /\ opened \in 0 .. MaxTasks
      /\ runq \in [Workers -> Seq(1 .. opened)] /\ live \subseteq 1 .. opened /\ home \in [Tasks -> Workers]
      /\ Fits(w)
  BY DEF TInv, Typed, TypeOK
<1>2. 1 .. opened \subseteq Tasks /\ opened \in Nat
  BY <1>1, ConstantsFit
<1>3. /\ at[w] \in CurPCs => cur[w] \in 1 .. opened /\ ltid[cur[w]] = cur[w]
      /\ at[w] \in TokPCs => tok[w] \in 1 .. opened
  BY <1>1 DEF Fits, Settled
<1> QED
  BY <1>1, <1>2, <1>3, Alone DEF Solo

\* An opened task whose Lua state is open is in the map; one that is closed,
\* and that no worker holds or is about to close, is not.
LEMMA SoloLives ==
  ASSUME TInv, TaskRefs, NEW t \in 1 .. opened
  PROVE  /\ lua[t] = "open" => t \in live
         /\ lua[t] = "closed" /\ (\A v \in Workers : at[v] # "close" /\ Grip(v) # t) => t \notin live
<1>1. /\ refs[t] = (IF Unclosed(t) THEN 1 ELSE 0) + Cardinality(TaskHolders(t))
      /\ t \in live <=> refs[t] > 0
  BY DEF TaskRefs
<1>2. Cardinality(TaskHolders(t)) \in Nat
  BY ConstantsFit, FS_Subset, FS_CardinalityType DEF TaskHolders
<1>3. ASSUME lua[t] = "open" PROVE t \in live
  <2>1. Unclosed(t)
    BY <1>3 DEF Unclosed
  <2> QED
    BY <1>1, <1>2, <2>1
<1>4. ASSUME lua[t] = "closed", \A v \in Workers : at[v] # "close" /\ Grip(v) # t PROVE t \notin live
  <2>1. ~ Unclosed(t)
    BY <1>4 DEF Unclosed
  <2>2. t # 0
    OBVIOUS
  <2>3. TaskHolders(t) = {}
    BY <1>4, <2>2, HoldersAre
  <2>4. Cardinality(TaskHolders(t)) = 0
    BY <2>3, FS_EmptySet
  <2> QED
    BY <1>1, <2>1, <2>4
<1> QED
  BY <1>3, <1>4

\* Nothing a lone worker meets is what the code asserts against.
LEMMA SoloFaultless ==
  ASSUME N = 1, TInv, Owners, Settled, TaskRefs, Solo, NEW w \in Workers, Step(w)
  PROVE  fault' = "none"
<1>0. /\ \A v \in Workers : v = w
      /\ fault = "none" /\ Statused(w) /\ Worked(w)
      /\ at[w] \in CurPCs => cur[w] \in Tasks
      /\ at[w] \in TokPCs => tok[w] \in 1 .. opened /\ tok[w] \in Tasks
      /\ lua \in [Tasks -> {"open", "closed"}]
  BY SoloFacts
<1>1. fault' = "none" \/ Claim(w) \/ Resume(w) \/ RelCheck(w) \/ OpenReg(w)
  <2>1. CASE Loop(w)
    BY <1>0, <2>1 DEF Loop, Top, Pop, Find, Claimed, CloseTask, Release, RelPush, RelDrop,
              Notify, Trigger, Suspend, Wait, Go, From, Goto
  <2>2. CASE EndSlice(w)
    BY <1>0, <2>2 DEF EndSlice, Yield, Finish, CloseLua, Go, From, Goto
  <2>3. CASE Slice(w)
    BY <1>0, <2>3 DEF Slice, CallOpen, OpenNew, OpenPush, OpenId, Channel, Close, Recv, CallSend, SendPush, CloseLua,
              SendPop, SendFind, SendCas, SendWake, SendDrop, SendDone, CallSelect, SelCheck, SelFound,
              SelBlock, SelJoin, SelDrop, Go, From, Goto
  <2> QED
    BY <2>1, <2>2, <2>3 DEF Step
<1>2. ASSUME Claim(w) PROVE fault' = "none"
  BY <1>0, <1>2 DEF Claim, From, Goto, Statused, HoldPCs
<1>3. ASSUME Resume(w) PROVE fault' = "none"
  <2>1. at[w] = "resume" /\ lua[cur[w]] = "open" /\ Inside(cur[w]) = {}
    BY <1>0, <1>3 DEF Resume, From, Inside, SlicePCs, Statused
  <2> QED
    BY <1>0, <1>3, <2>1 DEF Resume, From, Goto
<1>4. ASSUME RelCheck(w) PROVE fault' = "none"
  <2>1. at[w] = "rel_check" /\ tok[w] = cur[w] /\ status[tok[w]] # "READY"
    BY <1>0, <1>4 DEF RelCheck, From, Statused
  <2> QED
    BY <1>0, <1>4, <2>1 DEF RelCheck, From, Goto
<1>5. ASSUME OpenReg(w) PROVE fault' = "none"
  <2>1. at[w] = "open_reg" /\ tok[w] \in Tasks /\ status[tok[w]] = "READY" /\ status[cur[w]] = "RUNNING"
    BY <1>0, <1>5 DEF OpenReg, From, TokPCs, Statused, RunPCs, SlicePCs
  <2>2. lua[tok[w]] = "open"
    BY <1>0, <2>1 DEF Worked
  <2>3. Inside(tok[w]) = {}
    BY <1>0, <2>1 DEF Inside
  <2> QED
    BY <1>0, <1>5, <2>2, <2>3 DEF OpenReg, Goto
<1> QED
  BY <1>1, <1>2, <1>3, <1>4, <1>5

\* The head of a sequence is in it.
LEMMA HeadIn ==
  ASSUME NEW S, NEW s \in Seq(S), s # <<>>
  PROVE  Has(s, Head(s)) /\ Head(s) \in S
<1>1. Len(s) \in Nat /\ Len(s) > 0 /\ DOMAIN s = 1 .. Len(s) /\ Head(s) = s[1] /\ Head(s) \in S
  BY LenProperties, HeadTailProperties, EmptySeq
<1> QED
  BY <1>1 DEF Has

\* A lone worker works on a running task, releases one that runs or is blocked,
\* and has in hand a ready one.
LEMMA SoloStatused ==
  ASSUME N = 1, TInv, Owners, Settled, TaskRefs, Solo, NEW w \in Workers, Step(w)
  PROVE  Statused(w)'
<1>0. /\ fault' = "none" /\ fault = "none" /\ Statused(w) /\ (\A t \in Tasks : lua[t] = "closed" => status[t] = "RUNNING")
      /\ at \in [Workers -> PCs] /\ cur \in [Workers -> 0 .. opened] /\ tok \in [Workers -> 0 .. opened]
      /\ status \in [Tasks -> Statuses] /\ lua \in [Tasks -> {"open", "closed"}]
      /\ at[w] \in CurPCs => cur[w] \in 1 .. opened /\ cur[w] \in Tasks /\ ltid[cur[w]] = cur[w]
      /\ at[w] \in TokPCs => tok[w] \in 1 .. opened /\ tok[w] \in Tasks
      /\ at[w] \in SlicePCs => lua[cur[w]] = "open"
  BY SoloFacts, SoloFaultless DEF Worked, Owners, LuaFits
<1> USE DEF Statused, RunPCs, HoldPCs, SlicePCs
<1>1. ASSUME Top(w) PROVE Statused(w)'
  BY <1>0, <1>1 DEF Top, Go, From, Goto, Die, schedvars, taskvars, luavars, locals, TokPCs, CurPCs
<1>2. ASSUME Pop(w) PROVE Statused(w)'
  <2>1. runq[w] # <<>> => status[Head(runq[w])] = "READY"
    <3>1. runq[w] \in Seq(1 .. opened) /\ Once(w) /\ 1 .. opened \subseteq Tasks
      BY SoloFacts
    <3>2. runq[w] # <<>> => Has(runq[w], Head(runq[w])) /\ Head(runq[w]) \in 1 .. opened
      BY <3>1, HeadIn
    <3> QED
      BY <3>1, <3>2 DEF Once
  <2>2. (w + k[w]) % N = w
    BY <1>2, SoloFacts, Alone DEF Pop, From, Fits, TInv, Typed
  <2>3. (at'[w] = "find" /\ status[tok'[w]] = "READY") \/ at'[w] \in {"pop", "idle"}
    BY <1>0, <1>2, <2>1, <2>2 DEF Pop, Goto
  <2> QED
    BY <1>2, <2>3 DEF Pop, taskvars
<1>3. ASSUME Find(w) PROVE Statused(w)'
  BY <1>0, <1>3 DEF Find, Go, From, Goto, Die, schedvars, taskvars, luavars, locals, TokPCs, CurPCs
<1>4. ASSUME Claim(w) PROVE Statused(w)'
  BY <1>0, <1>4 DEF Claim, Go, From, Goto, Die, schedvars, taskvars, luavars, locals, TokPCs, CurPCs
<1>5. ASSUME Claimed(w) PROVE Statused(w)'
  BY <1>0, <1>5 DEF Claimed, Go, From, Goto, Die, schedvars, taskvars, luavars, locals, TokPCs, CurPCs
<1>6. ASSUME Resume(w) PROVE Statused(w)'
  BY <1>0, <1>6 DEF Resume, Go, From, Goto, Die, schedvars, taskvars, luavars, locals, TokPCs, CurPCs
<1>7. ASSUME CloseTask(w) PROVE Statused(w)'
  BY <1>0, <1>7 DEF CloseTask, Go, From, Goto, Die, schedvars, taskvars, luavars, locals, TokPCs, CurPCs
<1>8. ASSUME Release(w) PROVE Statused(w)'
  <2>1. at[w] = "release" /\ status[cur[w]] \in {"RUNNING", "BLOCKED"} /\ ltid[cur[w]] = cur[w] /\ cur[w] \in 1 .. opened
    BY <1>0, <1>8 DEF Release, From, CurPCs
  <2>2. Grip(w) = 0 /\ \A v \in Workers : v = w
    BY <2>1, Alone DEF Grip, TokHoldPCs, CurHoldPCs
  <2>3. cur[w] \in live => lua[cur[w]] = "open"
    <3>1. \A v \in Workers : at[v] # "close" /\ Grip(v) # cur[w]
      BY <2>1, <2>2
    <3>2. cur[w] \in Tasks
      BY <1>0, <2>1 DEF CurPCs
    <3> QED
      BY <1>0, <2>1, <3>1, <3>2, SoloLives
  <2>4. (at'[w] = "rel_check" /\ cur[w] \in live /\ tok'[w] = cur[w]) \/ at'[w] = "notify"
    BY <1>0, <1>8, <2>1 DEF Release, Goto
  <2>5. status' = status /\ lua' = lua /\ cur' = cur
    BY <1>8 DEF Release, luavars
  <2> QED
    BY <2>1, <2>3, <2>4, <2>5
<1>9. ASSUME RelCheck(w) PROVE Statused(w)'
  BY <1>0, <1>9 DEF RelCheck, Go, From, Goto, Die, schedvars, taskvars, luavars, locals, TokPCs, CurPCs
<1>10. ASSUME RelPush(w) PROVE Statused(w)'
  BY <1>0, <1>10 DEF RelPush, Go, From, Goto, Die, schedvars, taskvars, luavars, locals, TokPCs, CurPCs
<1>11. ASSUME RelDrop(w) PROVE Statused(w)'
  BY <1>0, <1>11 DEF RelDrop, Go, From, Goto, Die, schedvars, taskvars, luavars, locals, TokPCs, CurPCs
<1>12. ASSUME Notify(w) PROVE Statused(w)'
  BY <1>0, <1>12 DEF Notify, Go, From, Goto, Die, schedvars, taskvars, luavars, locals, TokPCs, CurPCs
<1>13. ASSUME Trigger(w) PROVE Statused(w)'
  BY <1>0, <1>13 DEF Trigger, Go, From, Goto, Die, schedvars, taskvars, luavars, locals, TokPCs, CurPCs
<1>14. ASSUME Suspend(w) PROVE Statused(w)'
  BY <1>0, <1>14 DEF Suspend, Go, From, Goto, Die, schedvars, taskvars, luavars, locals, TokPCs, CurPCs
<1>15. ASSUME Wait(w) PROVE Statused(w)'
  BY <1>0, <1>15 DEF Wait, Go, From, Goto, Die, schedvars, taskvars, luavars, locals, TokPCs, CurPCs
<1>16. ASSUME Yield(w) PROVE Statused(w)'
  BY <1>0, <1>16 DEF Yield, Go, From, Goto, Die, schedvars, taskvars, luavars, locals, TokPCs, CurPCs
<1>17. ASSUME Finish(w) PROVE Statused(w)'
  BY <1>0, <1>17 DEF Finish, CloseLua, Go, From, Goto, Die, schedvars, taskvars, luavars, locals, TokPCs, CurPCs
<1>18. ASSUME CallOpen(w) PROVE Statused(w)'
  BY <1>0, <1>18 DEF CallOpen, Go, From, Goto, Die, schedvars, taskvars, luavars, locals, TokPCs, CurPCs
<1>19. ASSUME OpenNew(w) PROVE Statused(w)'
  <2>1. at[w] = "open_new" /\ cur[w] \in 1 .. opened /\ status[cur[w]] = "RUNNING"
    BY <1>0, <1>19 DEF OpenNew, Go, From, CurPCs
  <2>2. opened + 1 \in Tasks /\ opened \in Nat
    BY <2>1, RoomToOpen, SoloFacts
  <2>3. at'[w] = "open_push" /\ cur' = cur /\ tok'[w] = opened + 1 /\ status' = [status EXCEPT ![opened + 1] = "READY"]
    BY <1>0, <1>19 DEF OpenNew, Go, Goto
  <2> QED
    BY <1>0, <2>1, <2>2, <2>3
<1>20. ASSUME OpenPush(w) PROVE Statused(w)'
  BY <1>0, <1>20 DEF OpenPush, Go, From, Goto, Die, schedvars, taskvars, luavars, locals, TokPCs, CurPCs
<1>21. ASSUME OpenId(w) PROVE Statused(w)'
  BY <1>0, <1>21 DEF OpenId, Go, From, Goto, Die, schedvars, taskvars, luavars, locals, TokPCs, CurPCs
<1>22. ASSUME OpenReg(w) PROVE Statused(w)'
  BY <1>0, <1>22 DEF OpenReg, Go, From, Goto, Die, schedvars, taskvars, luavars, locals, TokPCs, CurPCs
<1>23. ASSUME (\E c \in Channels : Channel(w, c)) PROVE Statused(w)'
  BY <1>0, <1>23 DEF Channel, Go, From, Goto, Die, schedvars, taskvars, luavars, locals, TokPCs, CurPCs
<1>24. ASSUME (\E c \in Channels : Close(w, c)) PROVE Statused(w)'
  BY <1>0, <1>24 DEF Close, Go, From, Goto, Die, schedvars, taskvars, luavars, locals, TokPCs, CurPCs
<1>25. ASSUME (\E c \in Channels : Recv(w, c)) PROVE Statused(w)'
  BY <1>0, <1>25 DEF Recv, Go, From, Goto, Die, schedvars, taskvars, luavars, locals, TokPCs, CurPCs
<1>26. ASSUME (\E c \in Channels : CallSend(w, c)) PROVE Statused(w)'
  BY <1>0, <1>26 DEF CallSend, Go, From, Goto, Die, schedvars, taskvars, luavars, locals, TokPCs, CurPCs
<1>27. ASSUME SendPush(w) PROVE Statused(w)'
  BY <1>0, <1>27 DEF SendPush, Go, From, Goto, Die, schedvars, taskvars, luavars, locals, TokPCs, CurPCs
<1>28. ASSUME SendPop(w) PROVE Statused(w)'
  BY <1>0, <1>28 DEF SendPop, Go, From, Goto, Die, schedvars, taskvars, luavars, locals, TokPCs, CurPCs
<1>29. ASSUME SendFind(w) PROVE Statused(w)'
  BY <1>0, <1>29 DEF SendFind, Go, From, Goto, Die, schedvars, taskvars, luavars, locals, TokPCs, CurPCs
<1>30. ASSUME SendCas(w) PROVE Statused(w)'
  BY <1>0, <1>30 DEF SendCas, Go, From, Goto, Die, schedvars, taskvars, luavars, locals, TokPCs, CurPCs
<1>31. ASSUME SendWake(w) PROVE Statused(w)'
  BY <1>0, <1>31 DEF SendWake, Go, From, Goto, Die, schedvars, taskvars, luavars, locals, TokPCs, CurPCs
<1>32. ASSUME SendDrop(w) PROVE Statused(w)'
  BY <1>0, <1>32 DEF SendDrop, Go, From, Goto, Die, schedvars, taskvars, luavars, locals, TokPCs, CurPCs
<1>33. ASSUME SendDone(w) PROVE Statused(w)'
  BY <1>0, <1>33 DEF SendDone, Go, From, Goto, Die, schedvars, taskvars, luavars, locals, TokPCs, CurPCs
<1>34. ASSUME (\E s \in Selects : CallSelect(w, s)) PROVE Statused(w)'
  BY <1>0, <1>34 DEF CallSelect, CloseLua, Go, From, Goto, Die, schedvars, taskvars, luavars, locals, TokPCs, CurPCs
<1>35. ASSUME SelCheck(w) PROVE Statused(w)'
  BY <1>0, <1>35 DEF SelCheck, Go, From, Goto, Die, schedvars, taskvars, luavars, locals, TokPCs, CurPCs
<1>36. ASSUME SelFound(w) PROVE Statused(w)'
  BY <1>0, <1>36 DEF SelFound, Go, From, Goto, Die, schedvars, taskvars, luavars, locals, TokPCs, CurPCs
<1>37. ASSUME SelBlock(w) PROVE Statused(w)'
  BY <1>0, <1>37 DEF SelBlock, Go, From, Goto, Die, schedvars, taskvars, luavars, locals, TokPCs, CurPCs
<1>38. ASSUME SelJoin(w) PROVE Statused(w)'
  BY <1>0, <1>38 DEF SelJoin, Go, From, Goto, Die, schedvars, taskvars, luavars, locals, TokPCs, CurPCs
<1>39. ASSUME SelDrop(w) PROVE Statused(w)'
  BY <1>0, <1>39 DEF SelDrop, Go, From, Goto, Die, schedvars, taskvars, luavars, locals, TokPCs, CurPCs
<1> QED
  BY <1>1, <1>2, <1>3, <1>4, <1>5, <1>6, <1>7, <1>8, <1>9, <1>10, <1>11, <1>12, <1>13, <1>14, <1>15, <1>16, <1>17, <1>18, <1>19, <1>20, <1>21, <1>22, <1>23, <1>24, <1>25, <1>26, <1>27, <1>28, <1>29, <1>30, <1>31, <1>32, <1>33, <1>34, <1>35, <1>36, <1>37, <1>38, <1>39 DEF Step, Loop, EndSlice, Slice

\* Where a lone worker takes a handle in hand to queue or to run it.
LEMMA SoloHolds ==
  ASSUME N = 1, TInv, Owners, Settled, TaskRefs, Solo, NEW w \in Workers, Step(w), at'[w] \in HoldPCs
  PROVE  Pop(w) \/ OpenNew(w) \/ RelCheck(w) \/ SendCas(w) \/ (Find(w) /\ tok' = tok /\ at'[w] = "claim")
<1>0. at \in [Workers -> PCs] /\ fault' = "none" /\ fault = "none"
  BY SoloFacts, SoloFaultless
<1>1. CASE Loop(w)
  BY <1>0, <1>1 DEF Loop, Top, Find, Claim, Claimed, Resume, CloseTask, Release, RelPush, RelDrop,
              Notify, Trigger, Suspend, Wait, Go, From, Goto, Die, HoldPCs, locals
<1>2. CASE EndSlice(w)
  BY <1>0, <1>2 DEF EndSlice, Yield, Finish, CloseLua, Go, From, Goto, HoldPCs
<1>3. CASE Slice(w)
  BY <1>0, <1>3 DEF Slice, CallOpen, OpenPush, OpenId, OpenReg, Channel, Close, Recv, CallSend, SendPush,
              SendPop, SendFind, SendWake, SendDrop, SendDone, CallSelect, CloseLua, SelCheck, SelFound,
              SelBlock, SelJoin, SelDrop, Go, From, Goto, Die, HoldPCs
<1> QED
  BY <1>1, <1>2, <1>3 DEF Step

\* What is left of a sequence without repetitions, and what one more adds to it.
LEMMA OnceTail ==
  ASSUME NEW S, NEW s \in Seq(S), s # <<>>, \A i, j \in DOMAIN s : s[i] = s[j] => i = j
  PROVE  /\ \A i, j \in DOMAIN Tail(s) : Tail(s)[i] = Tail(s)[j] => i = j
         /\ ~ Has(Tail(s), Head(s))
         /\ \A t : Has(Tail(s), t) => Has(s, t)
<1>1. /\ Len(s) \in Nat /\ Len(s) > 0 /\ DOMAIN s = 1 .. Len(s) /\ Head(s) = s[1]
      /\ Tail(s) \in Seq(S) /\ Len(Tail(s)) = Len(s) - 1
      /\ \A i \in 1 .. Len(s) - 1 : Tail(s)[i] = s[i + 1]
  BY LenProperties, HeadTailProperties, EmptySeq
<1>2. DOMAIN Tail(s) = 1 .. Len(s) - 1
  BY <1>1, LenProperties
<1>3. \A i \in 1 .. Len(s) - 1 : i + 1 \in DOMAIN s /\ i + 1 # 1
  BY <1>1
<1>4. ~ Has(Tail(s), Head(s))
  BY <1>1, <1>2, <1>3 DEF Has
<1>5. \A i, j \in DOMAIN Tail(s) : Tail(s)[i] = Tail(s)[j] => i = j
  BY <1>1, <1>2, <1>3
<1>6. \A t : Has(Tail(s), t) => Has(s, t)
  BY <1>1, <1>2, <1>3 DEF Has
<1> QED
  BY <1>4, <1>5, <1>6

LEMMA OnceAppend ==
  ASSUME NEW S, NEW s \in Seq(S), NEW x \in S, ~ Has(s, x), \A i, j \in DOMAIN s : s[i] = s[j] => i = j
  PROVE  /\ \A i, j \in DOMAIN Append(s, x) : Append(s, x)[i] = Append(s, x)[j] => i = j
         /\ \A t : Has(Append(s, x), t) => Has(s, t) \/ t = x
<1>1. /\ Len(s) \in Nat /\ DOMAIN s = 1 .. Len(s)
      /\ Append(s, x) \in Seq(S) /\ Len(Append(s, x)) = Len(s) + 1
      /\ \A i \in 1 .. Len(s) : Append(s, x)[i] = s[i]
      /\ Append(s, x)[Len(s) + 1] = x
  BY LenProperties, AppendProperties
<1>2. DOMAIN Append(s, x) = 1 .. Len(s) + 1
  BY <1>1, LenProperties
<1>3. \A i \in 1 .. Len(s) : s[i] # x
  BY <1>1 DEF Has
<1>4. \A i \in 1 .. Len(s) + 1 : i \in 1 .. Len(s) \/ i = Len(s) + 1
  BY <1>1
<1>5. \A i, j \in 1 .. Len(s) + 1 : Append(s, x)[i] = Append(s, x)[j] => i = j
  BY <1>1, <1>3, <1>4
<1>6. \A t : Has(Append(s, x), t) => Has(s, t) \/ t = x
  BY <1>1, <1>2, <1>4 DEF Has
<1> QED
  BY <1>2, <1>5, <1>6

\* The run queue of a lone worker holds ready tasks, each once.
LEMMA SoloOnce ==
  ASSUME N = 1, TInv, Owners, Settled, TaskRefs, Solo, NEW w \in Workers, Step(w)
  PROVE  Once(w)'
<1>0. /\ fault' = "none" /\ fault = "none" /\ Statused(w) /\ Once(w) /\ Worked(w) /\ (\A v \in Workers : v = w)
      /\ at \in [Workers -> PCs] /\ cur \in [Workers -> 0 .. opened] /\ tok \in [Workers -> 0 .. opened]
      /\ status \in [Tasks -> Statuses] /\ opened \in Nat /\ runq \in [Workers -> Seq(1 .. opened)]
      /\ at[w] \in CurPCs => cur[w] \in 1 .. opened /\ cur[w] \in Tasks
      /\ at[w] \in TokPCs => tok[w] \in 1 .. opened /\ tok[w] \in Tasks
      /\ home \in [Tasks -> Workers]
  BY SoloFacts, SoloFaultless
<1> DEFINE Uniform(s) == \A i, j \in DOMAIN s : s[i] = s[j] => i = j
           Ready(s, st) == \A t \in Tasks : Has(s, t) => st[t] = "READY"
<1>1. /\ Ready(runq[w], status) /\ Uniform(runq[w]) /\ runq[w] \in Seq(1 .. opened)
      /\ at[w] \in HoldPCs => ~ Has(runq[w], tok[w])
  BY <1>0 DEF Once
<1>2. SUFFICES Ready(runq'[w], status') /\ Uniform(runq'[w]) /\ (at'[w] \in HoldPCs => ~ Has(runq'[w], tok'[w]))
  BY DEF Once
<1>3. at'[w] \in HoldPCs => Pop(w) \/ OpenNew(w) \/ RelCheck(w) \/ SendCas(w) \/ (Find(w) /\ tok' = tok)
  BY SoloHolds
<1> HIDE DEF Uniform, Ready
<1>4. ASSUME Pop(w)
      PROVE  Ready(runq'[w], status') /\ Uniform(runq'[w]) /\ (at'[w] \in HoldPCs => ~ Has(runq'[w], tok'[w]))
  <2>1. (w + k[w]) % N = w /\ status' = status
    BY <1>4, SoloFacts, Alone DEF Pop, From, Fits, TInv, Typed, taskvars
  <2>2. \/ runq[w] # <<>> /\ runq'[w] = Tail(runq[w]) /\ tok'[w] = Head(runq[w])
        \/ runq'[w] = runq[w] /\ at'[w] \in {"pop", "idle"}
    <3>1. \/ /\ runq[w] # <<>>
             /\ runq' = [runq EXCEPT ![w] = Tail(@)] /\ tok' = [tok EXCEPT ![w] = Head(runq[w])]
          \/ runq' = runq /\ \E p \in {"pop", "idle"} : at' = [at EXCEPT ![w] = p]
      BY <1>4, <2>1 DEF Pop, Goto
    <3> QED
      BY <1>0, <3>1
  <2>3. CASE runq[w] # <<>> /\ runq'[w] = Tail(runq[w]) /\ tok'[w] = Head(runq[w])
    <3>1. /\ Uniform(Tail(runq[w])) /\ ~ Has(Tail(runq[w]), Head(runq[w]))
          /\ \A t : Has(Tail(runq[w]), t) => Has(runq[w], t)
      BY <1>1, <2>3, OnceTail DEF Uniform
    <3> QED
      BY <1>1, <2>1, <2>3, <3>1 DEF Ready
  <2> QED
    BY <1>1, <2>1, <2>2, <2>3 DEF HoldPCs
<1>5. ASSUME RelPush(w) \/ OpenPush(w) \/ SendWake(w)
      PROVE  Ready(runq'[w], status') /\ Uniform(runq'[w]) /\ (at'[w] \in HoldPCs => ~ Has(runq'[w], tok'[w]))
  <2>1. /\ at[w] \in HoldPCs /\ at[w] \in TokPCs /\ at'[w] \notin HoldPCs /\ status' = status /\ status[tok[w]] = "READY"
        /\ PushReady(tok[w])
    BY <1>0, <1>5 DEF RelPush, OpenPush, SendWake, Go, From, Goto, HoldPCs, TokPCs, Statused, taskvars
  <2>2. home[tok[w]] = w /\ tok[w] \in 1 .. opened
    BY <1>0, <2>1
  <2>3. runq'[w] = Append(runq[w], tok[w])
    BY <1>0, <2>1, <2>2 DEF PushReady
  <2>4. Uniform(runq'[w]) /\ \A t : Has(runq'[w], t) => Has(runq[w], t) \/ t = tok[w]
    <3>1. ~ Has(runq[w], tok[w])
      BY <1>1, <2>1
    <3>2. /\ Uniform(Append(runq[w], tok[w]))
          /\ \A t : Has(Append(runq[w], tok[w]), t) => Has(runq[w], t) \/ t = tok[w]
      BY <1>1, <2>2, <3>1, OnceAppend DEF Uniform
    <3> QED
      BY <2>3, <3>2
  <2> QED
    BY <1>1, <2>1, <2>4 DEF Ready
<1>6. ASSUME runq' = runq
      PROVE  Ready(runq'[w], status') /\ Uniform(runq'[w]) /\ (at'[w] \in HoldPCs => ~ Has(runq'[w], tok'[w]))
  <2>0. Uniform(runq'[w])
    BY <1>1, <1>6
  <2>1. ASSUME Claim(w) PROVE Ready(runq'[w], status') /\ at'[w] \notin HoldPCs
    <3>1. at[w] \in HoldPCs /\ at'[w] = "claimed" /\ tok[w] \in Tasks /\ status' = [status EXCEPT ![tok[w]] = "RUNNING"]
      BY <1>0, <2>1 DEF Claim, From, Goto, Die, HoldPCs, TokPCs
    <3>2. \A t \in Tasks : Has(runq[w], t) => status'[t] = status[t]
      BY <1>0, <1>1, <3>1
    <3> QED
      BY <1>1, <1>6, <3>1, <3>2 DEF Ready, HoldPCs
  <2>2. ASSUME RelCheck(w) PROVE Ready(runq'[w], status') /\ (at'[w] \in HoldPCs => ~ Has(runq'[w], tok'[w]))
    <3>1. /\ tok[w] \in Tasks /\ tok' = tok
          /\ \/ status' = status /\ at'[w] \notin HoldPCs
             \/ status[tok[w]] = "RUNNING" /\ status' = [status EXCEPT ![tok[w]] = "READY"]
      BY <1>0, <2>2 DEF RelCheck, From, Goto, Die, HoldPCs, TokPCs, locals
    <3>2. \A t \in Tasks : status[t] = "READY" => status'[t] = "READY"
      BY <1>0, <3>1
    <3> QED
      BY <1>1, <1>6, <3>1, <3>2 DEF Ready
  <2>3. ASSUME SendCas(w) PROVE Ready(runq'[w], status') /\ (at'[w] \in HoldPCs => ~ Has(runq'[w], tok'[w]))
    <3>1. /\ tok[w] \in Tasks /\ tok' = tok
          /\ \/ status' = status /\ at'[w] \notin HoldPCs
             \/ status[tok[w]] = "BLOCKED" /\ status' = [status EXCEPT ![tok[w]] = "READY"]
      BY <1>0, <2>3 DEF SendCas, From, Goto, Die, HoldPCs, TokPCs, locals
    <3>2. \A t \in Tasks : status[t] = "READY" => status'[t] = "READY"
      BY <1>0, <3>1
    <3> QED
      BY <1>1, <1>6, <3>1, <3>2 DEF Ready
  <2>4. ASSUME OpenNew(w) PROVE Ready(runq'[w], status') /\ (at'[w] \in HoldPCs => ~ Has(runq'[w], tok'[w]))
    <3>1. at[w] = "open_new" /\ tok'[w] = opened + 1 /\ status' = [status EXCEPT ![opened + 1] = "READY"]
      BY <1>0, <2>4 DEF OpenNew, Go, From
    <3>2. opened + 1 \in Tasks
      BY <3>1, RoomToOpen
    <3>3. \A t \in Tasks : status[t] = "READY" => status'[t] = "READY"
      BY <1>0, <3>1, <3>2
    <3>4. ~ Has(runq[w], opened + 1)
      <4>1. \A i \in DOMAIN runq[w] : runq[w][i] \in 1 .. opened
        BY <1>1, LenProperties
      <4> QED
        BY <1>0, <4>1 DEF Has
    <3> QED
      BY <1>1, <1>6, <3>1, <3>3, <3>4 DEF Ready
  <2>5. ASSUME SelBlock(w) PROVE Ready(runq'[w], status') /\ at'[w] \notin HoldPCs
    <3>1. /\ status[cur[w]] = "RUNNING" /\ status' = [status EXCEPT ![cur[w]] = "BLOCKED"]
          /\ at'[w] = "sel_join"
      BY <1>0, <2>5 DEF SelBlock, Go, From, Goto, Statused, RunPCs, SlicePCs
    <3>2. \A t \in Tasks : status[t] = "READY" => status'[t] = "READY"
      BY <1>0, <3>1
    <3> QED
      BY <1>1, <1>6, <3>1, <3>2 DEF Ready, HoldPCs
  <2>6. ASSUME Find(w), tok' = tok PROVE ~ Has(runq'[w], tok'[w])
    BY <1>1, <1>6, <2>6 DEF Find, From, HoldPCs
  <2>7. ASSUME status' = status PROVE Ready(runq'[w], status')
    BY <1>1, <1>6, <2>7
  <2>8. Pop(w) => status' = status /\ (at'[w] \in HoldPCs => ~ Has(runq'[w], tok'[w]))
    BY <1>4 DEF Pop, taskvars
  <2> QED
    BY <1>3, <2>0, <2>1, <2>2, <2>3, <2>4, <2>5, <2>6, <2>7, <2>8, Frames
<1> QED
  BY <1>4, <1>5, <1>6, Frames

\* Where a lone worker lets go of the task whose slice it ran.
LEMMA SoloLeaves ==
  ASSUME N = 1, TInv, Owners, Settled, TaskRefs, Solo, NEW w \in Workers, Step(w), at[w] \in CurPCs
  PROVE  at'[w] \in CurPCs \/ (Release(w) /\ live' = live /\ cur[w] \notin live) \/ RelDrop(w)
<1>0. at \in [Workers -> PCs] /\ fault' = "none" /\ fault = "none" /\ ltid[cur[w]] = cur[w]
  BY SoloFacts, SoloFaultless
<1>1. CASE Loop(w)
  BY <1>0, <1>1 DEF Loop, Top, Pop, Find, Claim, Claimed, Resume, CloseTask, Release, RelCheck, RelPush,
              Notify, Trigger, Suspend, Wait, Go, From, Goto, Die, CurPCs, SlicePCs
<1>2. CASE EndSlice(w)
  BY <1>0, <1>2 DEF EndSlice, Yield, Finish, CloseLua, Go, From, Goto, CurPCs, SlicePCs
<1>3. CASE Slice(w)
  BY <1>0, <1>3 DEF Slice, CallOpen, OpenNew, OpenPush, OpenId, OpenReg, Channel, Close, Recv, CallSend, SendPush,
              SendPop, SendFind, SendCas, SendWake, SendDrop, SendDone, CallSelect, CloseLua, SelCheck, SelFound,
              SelBlock, SelJoin, SelDrop, Go, From, Goto, Die, CurPCs, SlicePCs
<1> QED
  BY <1>1, <1>2, <1>3 DEF Step

\* How a lone worker changes the status of a task.
LEMMA SoloStatuses ==
  ASSUME N = 1, TInv, Owners, Settled, TaskRefs, Solo, NEW w \in Workers, Step(w)
  PROVE  \/ status' = status
         \/ lua' = lua /\ cur' = cur /\ at[w] \in CurPCs /\ at'[w] \in CurPCs /\
            \/ /\ live' = live /\ at[w] = "rel_check" /\ lua[cur[w]] = "open" /\ status[cur[w]] = "RUNNING"
               /\ status' = [status EXCEPT ![cur[w]] = "READY"]
            \/ /\ live' = live /\ at[w] = "send_cas" /\ tok[w] \in Tasks /\ status[tok[w]] = "BLOCKED"
               /\ status' = [status EXCEPT ![tok[w]] = "READY"]
            \/ /\ live' = live /\ SelBlock(w) /\ lua[cur[w]] = "open" /\ status[cur[w]] = "RUNNING"
               /\ status' = [status EXCEPT ![cur[w]] = "BLOCKED"]
            \/ /\ OpenNew(w) /\ live' = live \cup {opened + 1} /\ opened + 1 \in Tasks
               /\ lua[opened + 1] = "open" /\ status' = [status EXCEPT ![opened + 1] = "READY"]
         \/ /\ Claim(w) /\ lua' = lua /\ live' = live /\ at[w] = "claim" /\ at'[w] = "claimed"
            /\ tok[w] \in Tasks /\ cur'[w] = tok[w] /\ status' = [status EXCEPT ![tok[w]] = "RUNNING"]
<1>0. /\ fault' = "none" /\ fault = "none" /\ Statused(w)
      /\ at \in [Workers -> PCs] /\ cur \in [Workers -> 0 .. opened]
      /\ at[w] \in TokPCs => tok[w] \in Tasks
      /\ at[w] \in SlicePCs => lua[cur[w]] = "open"
  BY SoloFacts, SoloFaultless DEF Owners, LuaFits
<1>1. CASE Claim(w)
  BY <1>0, <1>1 DEF Claim, From, Goto, Die, luavars, TokPCs
<1>2. CASE RelCheck(w)
  <2>1. /\ at[w] = "rel_check" /\ lua[cur[w]] = "open" /\ tok[w] = cur[w] /\ lua' = lua /\ cur' = cur /\ live' = live
        /\ at'[w] \in {"rel_push", "rel_drop"}
    BY <1>0, <1>2 DEF RelCheck, From, Goto, Die, luavars, locals, Statused
  <2>2. status' = status \/ (status[tok[w]] = "RUNNING" /\ status' = [status EXCEPT ![tok[w]] = "READY"])
    BY <1>2 DEF RelCheck
  <2> QED
    BY <2>1, <2>2 DEF CurPCs
<1>3. CASE SendCas(w)
  <2>1. /\ at[w] = "send_cas" /\ tok[w] \in Tasks /\ lua' = lua /\ cur' = cur /\ live' = live
        /\ at'[w] \in {"send_wake", "send_drop"}
    BY <1>0, <1>3 DEF SendCas, From, Goto, Die, luavars, locals, TokPCs
  <2>2. status' = status \/ (status[tok[w]] = "BLOCKED" /\ status' = [status EXCEPT ![tok[w]] = "READY"])
    BY <1>3 DEF SendCas
  <2> QED
    BY <2>1, <2>2 DEF CurPCs, SlicePCs
<1>4. CASE SelBlock(w)
  <2>1. /\ at[w] = "sel_block" /\ lua' = lua /\ cur' = cur /\ live' = live /\ at'[w] = "sel_join"
        /\ status' = [status EXCEPT ![cur[w]] = "BLOCKED"]
    BY <1>0, <1>4 DEF SelBlock, Go, From, Goto, luavars, locals
  <2>2. lua[cur[w]] = "open" /\ status[cur[w]] = "RUNNING"
    BY <1>0, <2>1 DEF Statused, RunPCs, SlicePCs
  <2> QED
    BY <1>4, <2>1, <2>2 DEF CurPCs, SlicePCs
<1>5. CASE OpenNew(w)
  <2>1. /\ at[w] = "open_new" /\ lua' = lua /\ cur' = cur /\ live' = live \cup {opened + 1} /\ at'[w] = "open_push"
        /\ status' = [status EXCEPT ![opened + 1] = "READY"]
    BY <1>0, <1>5 DEF OpenNew, Go, From, Goto, luavars
  <2>2. opened + 1 \in Tasks /\ opened \in Nat
    BY <2>1, RoomToOpen, SoloFacts
  <2>3. lua[opened + 1] = "open"
    BY <2>2 DEF TaskRefs
  <2> QED
    BY <1>5, <2>1, <2>2, <2>3 DEF CurPCs, SlicePCs
<1> QED
  BY <1>1, <1>2, <1>3, <1>4, <1>5, Frames

\* A closed task is left running for ever, and a running one has its worker.
LEMMA SoloWorked ==
  ASSUME N = 1, TInv, Owners, Settled, TaskRefs, Solo, NEW w \in Workers, Step(w)
  PROVE  Worked(w)'
<1>0. /\ Statused(w) /\ Worked(w)
      /\ at[w] \in CurPCs => cur[w] \in 1 .. opened /\ cur[w] \in Tasks
      /\ status \in [Tasks -> Statuses] /\ lua \in [Tasks -> {"open", "closed"}] /\ opened \in Nat
      /\ live \subseteq 1 .. opened /\ 1 .. opened \subseteq Tasks /\ at \in [Workers -> PCs]
      /\ cur \in [Workers -> 0 .. opened]
  BY SoloFacts
<1>1. ASSUME NEW t \in Tasks, lua'[t] = "closed" PROVE status'[t] = "RUNNING"
  <2>1. CASE lua' = lua
    <3>1. status[t] = "RUNNING" /\ lua[t] = "closed"
      BY <1>0, <1>1, <2>1 DEF Worked
    <3> QED
      BY <1>0, <3>1, SoloStatuses
  <2>2. CASE lua' # lua
    <3>1. lua' = [lua EXCEPT ![cur[w]] = "closed"] /\ at[w] = "lua" /\ at'[w] = "close"
      BY <2>2, LuaSteps
    <3>2. status' = status
      BY <2>2, <3>1, SoloStatuses
    <3>3. status[cur[w]] = "RUNNING"
      BY <1>0, <3>1 DEF Statused, RunPCs, SlicePCs
    <3> QED
      BY <1>0, <1>1, <3>1, <3>2, <3>3 DEF Worked
  <2> QED
    BY <2>1, <2>2
<1>2. ASSUME NEW t \in live', status'[t] = "RUNNING" PROVE at'[w] \in CurPCs /\ cur'[w] = t
  <2>1. CASE Claim(w) /\ status' # status
    <3>1. /\ at[w] = "claim" /\ at'[w] = "claimed" /\ cur'[w] = tok[w] /\ live' = live
          /\ status' = [status EXCEPT ![tok[w]] = "RUNNING"]
      BY <2>1, SoloStatuses DEF SelBlock, OpenNew, Claim, Go, From
    <3>2. ~ (at[w] \in CurPCs)
      BY <3>1 DEF CurPCs, SlicePCs
    <3>3. status[t] # "RUNNING"
      BY <1>0, <1>2, <3>1, <3>2 DEF Worked
    <3>4. t = tok[w]
      BY <1>0, <1>2, <3>1, <3>3
    <3> QED
      BY <3>1, <3>4 DEF CurPCs
  <2>2. CASE ~ (Claim(w) /\ status' # status)
    <3>1. t \in live \/ (OpenNew(w) /\ t = opened + 1)
      <4>1. OpenNew(w) => live' = live \cup {opened + 1}
        BY DEF OpenNew
      <4>2. ~ OpenNew(w) => live' \subseteq live
        BY LiveShrinks
      <4> QED
        BY <4>1, <4>2
    <3>2. OpenNew(w) => status' = [status EXCEPT ![opened + 1] = "READY"]
      BY DEF OpenNew
    <3>3. t \in live
      <4>1. OpenNew(w) => opened + 1 \in Tasks
        BY RoomToOpen DEF OpenNew, Go, From
      <4> QED
        BY <1>0, <1>2, <3>1, <3>2, <4>1
    <3>4. status[t] = "RUNNING"
      BY <1>0, <1>2, <2>2, <3>3, SoloStatuses
    <3>5. at[w] \in CurPCs /\ cur[w] = t
      BY <1>0, <3>3, <3>4 DEF Worked
    <3>6. ~ (Release(w) /\ live' = live /\ cur[w] \notin live)
      BY <3>3, <3>5
    <3>7. ~ RelDrop(w)
      BY <1>0, <3>4, <3>5 DEF RelDrop, Go, From, Statused
    <3>8. ~ Claim(w)
      BY <3>5 DEF Claim, From, CurPCs, SlicePCs
    <3> QED
      BY <3>5, <3>6, <3>7, <3>8, SoloLeaves, Enters
  <2> QED
    BY <2>1, <2>2
<1> QED
  BY <1>1, <1>2 DEF Worked

\* How a lone worker comes to a message, and how it leaves a schedule_send.
LEMMA SoloMail ==
  ASSUME N = 1, TInv, Owners, Settled, TaskRefs, Solo, NEW w \in Workers, Step(w)
  PROVE  /\ \A c \in Channels : mq[c] = 0 =>
              mq'[c] = 0 \/ (SendPush(w) /\ c = ch[w] /\ at'[w] = "send_pop" /\ ch'[w] = c)
         /\ at[w] \in Sending =>
              (at'[w] \in Sending /\ ch'[w] = ch[w]) \/ (SendPop(w) /\ reader[ch[w]] = <<>>)
         /\ at'[w] = "sel_check" =>
              /\ mq' = mq /\ chans' = chans
              /\ \/ SelCheck(w) /\ k'[w] = k[w] + 1 /\ sel' = sel
                    /\ ~ (sel[w][k[w] + 1] \in chans /\ mq[sel[w][k[w] + 1]] > 0) /\ k[w] < Len(sel[w])
                 \/ k'[w] = 0
         /\ at'[w] = "sel_block" =>
              SelCheck(w) /\ mq' = mq /\ chans' = chans /\ sel' = sel /\ k[w] = Len(sel[w])
<1>0. /\ at \in [Workers -> PCs] /\ fault' = "none" /\ fault = "none" /\ mq \in [Channels -> Nat]
      /\ k \in [Workers -> Nat] /\ sel \in [Workers -> Seq(Channels)] /\ ch \in [Workers -> Channels \cup {0}]
      /\ Fits(w)
  BY SoloFacts, SoloFaultless DEF TInv, Typed, TypeOK
<1>1. \A c \in Channels : mq[c] = 0 =>
        mq'[c] = 0 \/ (SendPush(w) /\ c = ch[w] /\ at'[w] = "send_pop" /\ ch'[w] = c)
  <2>1. CASE SendPush(w)
    BY <1>0, <2>1 DEF SendPush, Go, From, Goto, locals
  <2>2. CASE \E c \in Channels : Recv(w, c)
    BY <1>0, <2>2 DEF Recv
  <2> QED
    BY <2>1, <2>2, Frames
<1>2. ASSUME at[w] \in Sending
      PROVE  (at'[w] \in Sending /\ ch'[w] = ch[w]) \/ (SendPop(w) /\ reader[ch[w]] = <<>>)
  <2>1. SendPop(w) \/ SendFind(w) \/ SendCas(w) \/ SendWake(w) \/ SendDrop(w)
    <3>1. CASE Loop(w)
      BY <1>2, <3>1 DEF Loop, Top, Pop, Find, Claim, Claimed, Resume, CloseTask, Release, RelCheck, RelPush,
              RelDrop, Notify, Trigger, Suspend, Wait, Go, From, Sending
    <3>2. CASE EndSlice(w)
      BY <1>2, <3>2 DEF EndSlice, Yield, Finish, Go, From, Sending
    <3>3. CASE Slice(w)
      BY <1>2, <3>3 DEF Slice, CallOpen, OpenNew, OpenPush, OpenId, OpenReg, Channel, Close, Recv, CallSend,
              SendPush, SendDone, CallSelect, SelCheck, SelFound, SelBlock, SelJoin, SelDrop, Go, From, Sending
    <3> QED
      BY <3>1, <3>2, <3>3 DEF Step
  <2> QED
    BY <1>0, <2>1 DEF SendPop, SendFind, SendCas, SendWake, SendDrop, Go, From, Goto, Sending, locals
<1>3. at'[w] \in {"sel_check", "sel_block"} => SelCheck(w) \/ \E s \in Selects : CallSelect(w, s)
  <2>1. CASE Loop(w)
    BY <1>0, <2>1 DEF Loop, Top, Pop, Find, Claim, Claimed, Resume, CloseTask, Release, RelCheck, RelPush,
              RelDrop, Notify, Trigger, Suspend, Wait, Go, From, Goto, Die
  <2>2. CASE EndSlice(w)
    BY <1>0, <2>2 DEF EndSlice, Yield, Finish, CloseLua, Go, From, Goto
  <2>3. CASE Slice(w)
    BY <1>0, <2>3 DEF Slice, CallOpen, OpenNew, OpenPush, OpenId, OpenReg, Channel, Close, Recv, CallSend, SendPush,
              SendPop, SendFind, SendCas, SendWake, SendDrop, SendDone, SelFound, SelBlock, SelJoin, SelDrop,
              Go, From, Goto, Die
  <2> QED
    BY <2>1, <2>2, <2>3 DEF Step
<1>4. ASSUME SelCheck(w)
      PROVE  /\ mq' = mq /\ chans' = chans /\ sel' = sel
             /\ at'[w] = "sel_check" =>
                  /\ k'[w] = k[w] + 1 /\ k[w] < Len(sel[w])
                  /\ ~ (sel[w][k[w] + 1] \in chans /\ mq[sel[w][k[w] + 1]] > 0)
             /\ at'[w] = "sel_block" => k[w] = Len(sel[w])
  <2>1. k[w] <= Len(sel[w]) /\ k[w] \in Nat /\ Len(sel[w]) \in Nat
    BY <1>0, <1>4, LenProperties DEF SelCheck, From, Fits
  <2> QED
    BY <1>0, <1>4, <2>1 DEF SelCheck, From, Goto, chanvars
<1>5. ASSUME \E s \in Selects : CallSelect(w, s)
      PROVE  mq' = mq /\ chans' = chans /\ k'[w] = 0 /\ at'[w] # "sel_block"
  BY <1>0, <1>5 DEF CallSelect, CloseLua, From, Goto, Fits, LoopPCs, chanvars, locals
<1> QED
  BY <1>1, <1>2, <1>3, <1>4, <1>5

\* A channel that appears is one that was not created yet.
LEMMA ChannelsAppear ==
  ASSUME TInv, NEW w \in Workers, Step(w), NEW c \in chans'
  PROVE  c \in chans \/ c \in fresh
<1>1. CASE \E d \in Channels : Channel(w, d)
  BY <1>1 DEF Channel
<1>2. CASE (\E d \in Channels : Close(w, d)) \/ SendDone(w)
  BY <1>2, ChannelRefSteps DEF Close, SendDone, TInv
<1>3. CASE \E d \in Channels : CallSend(w, d)
  BY <1>3 DEF CallSend
<1> QED
  BY <1>1, <1>2, <1>3, Frames

\* A blocked task waits for a message only while one is being sent.
LEMMA SoloAnswered ==
  ASSUME N = 1, TInv, Owners, Settled, TaskRefs, FindInv, Solo, NEW w \in Workers, Step(w)
  PROVE  Answered(w)'
<1>0. /\ Answered(w) /\ (\A v \in Workers : v = w)
      /\ chans \subseteq Channels /\ cur \in [Workers -> 0 .. opened] /\ waits \in [Tasks -> SUBSET Channels]
      /\ mq \in [Channels -> Nat] /\ k \in [Workers -> Nat] /\ sel \in [Workers -> Seq(Channels)]
      /\ live \subseteq 1 .. opened /\ 1 .. opened \subseteq Tasks
  BY SoloFacts DEF TInv, Typed, TypeOK
<1>1. ASSUME NEW t \in live', status'[t] = "BLOCKED", NEW c \in waits'[t] \cap chans'
      PROVE  mq'[c] = 0 \/ (at'[w] \in Sending /\ ch'[w] = c)
  <2>1. CASE SelBlock(w) /\ cur[w] = t
    <3>1. /\ at[w] = "sel_block" /\ mq' = mq /\ chans' = chans
          /\ waits' = [waits EXCEPT ![t] = {sel[w][i] : i \in DOMAIN sel[w]}]
      BY <2>1 DEF SelBlock, Go, From
    <3>2. t \in Tasks
      BY <2>1, SoloFacts DEF SelBlock, Go, From, CurPCs, SlicePCs
    <3>3. PICK i \in DOMAIN sel[w] : c = sel[w][i]
      BY <1>0, <1>1, <3>1, <3>2
    <3> QED
      BY <1>0, <1>1, <3>1, <3>3 DEF Answered
  <2>2. CASE ~ (SelBlock(w) /\ cur[w] = t)
    <3>1. status[t] = "BLOCKED" /\ t \in live
      BY <1>1, <2>2, Blocks
    <3>2. c \in waits[t]
      <4>1. CASE SelBlock(w)
        BY <1>0, <1>1, <2>2, <3>1, <4>1 DEF SelBlock
      <4> QED
        BY <1>1, <4>1, Frames
    <3>3. c \in chans
      BY <1>0, <1>1, <3>1, <3>2, ChannelsAppear DEF FindInv, Known
    <3>4. CASE mq[c] = 0
      BY <1>0, <3>3, <3>4, SoloMail DEF Sending
    <3>5. CASE at[w] \in Sending /\ ch[w] = c
      <4>1. ~ (SendPop(w) /\ reader[c] = <<>>)
        <5>1. SUFFICES ASSUME at[w] = "send_pop", reader[c] = <<>> PROVE FALSE
          BY DEF SendPop, From
        <5>2. \A v \in Workers : at[v] = "send_pop"
          BY <1>0, <5>1
        <5>3. \E i \in DOMAIN reader[c] : reader[c][i] = t
          BY <3>1, <3>2, <3>3, <5>2 DEF FindInv, Findable
        <5> QED
          BY <5>1, <5>3
      <4> QED
        BY <3>5, <4>1, SoloMail
    <3> QED
      BY <1>0, <3>1, <3>2, <3>3, <3>4, <3>5 DEF Answered
  <2> QED
    BY <2>1, <2>2
<1>2. ASSUME at'[w] = "sel_check", NEW i \in 1 .. k'[w], sel'[w][i] \in chans' PROVE mq'[sel'[w][i]] = 0
  <2>1. /\ mq' = mq /\ chans' = chans
        /\ SelCheck(w) /\ k'[w] = k[w] + 1 /\ sel' = sel
        /\ ~ (sel[w][k[w] + 1] \in chans /\ mq[sel[w][k[w] + 1]] > 0)
    BY <1>2, SoloMail
  <2>2. at[w] = "sel_check"
    BY <2>1 DEF SelCheck, From
  <2>3. i \in 1 .. k[w] \/ i = k[w] + 1
    BY <1>0, <1>2, <2>1
  <2> QED
    BY <1>0, <1>2, <2>1, <2>2, <2>3 DEF Answered
<1>3. ASSUME at'[w] = "sel_block", NEW i \in DOMAIN sel'[w], sel'[w][i] \in chans' PROVE mq'[sel'[w][i]] = 0
  <2>1. SelCheck(w) /\ mq' = mq /\ chans' = chans /\ sel' = sel /\ k[w] = Len(sel[w])
    BY <1>3, SoloMail
  <2>2. at[w] = "sel_check"
    BY <2>1 DEF SelCheck, From
  <2>3. i \in 1 .. k[w]
    BY <1>0, <1>3, <2>1, LenProperties
  <2> QED
    BY <1>0, <1>3, <2>1, <2>2, <2>3 DEF Answered
<1> QED
  BY <1>1, <1>2, <1>3 DEF Answered

LEMMA SoloKept ==
  ASSUME N = 1, TInv, Owners, Settled, TaskRefs, FindInv, Solo, [Next]_vars
  PROVE  Solo'
<1>1. CASE UNCHANGED vars
  BY <1>1 DEF Solo, Statused, Once, Worked, Answered, vars, schedvars, taskvars, luavars, chanvars, locals
<1>2. ASSUME NEW w \in Workers, Step(w) PROVE Solo'
  <2>1. fault' = "none" /\ Statused(w)' /\ Once(w)' /\ Worked(w)' /\ Answered(w)'
    BY <1>2, SoloFaultless, SoloStatused, SoloOnce, SoloWorked, SoloAnswered
  <2>2. \A v \in Workers : v = w
    BY <1>2, Alone
  <2>3. \A v \in Workers : Statused(v)' /\ Once(v)' /\ Worked(v)' /\ Answered(v)'
    BY <2>1, <2>2
  <2> QED
    BY <2>1, <2>3 DEF Solo
<1> QED
  BY <1>1, <1>2 DEF Next

LEMMA SoloInit ==
  ASSUME N = 1, Init
  PROVE  Solo
<1>1. Workers = {0} /\ 0 \in Workers /\ Initial \in Nat /\ Initial <= MaxTasks /\ MaxTasks \in Nat /\ Tasks = 1 .. MaxTasks
  BY Alone, ConstantsFit DEF Workers
<1>2. /\ fault = "none" /\ at[0] = "top" /\ lua = [t \in Tasks |-> "open"] /\ live = 1 .. Initial
      /\ status = [t \in Tasks |-> IF t <= Initial THEN "READY" ELSE "INIT"]
  BY <1>1 DEF Init
<1>3. runq[0] = [i \in 1 .. Initial |-> i]
  <2>1. runq[0] = [i \in 1 .. (Initial + N - 1 - 0) \div N |-> 0 + 1 + (i - 1) * N]
    BY <1>1 DEF Init
  <2>2. (Initial + N - 1 - 0) \div N = Initial
    BY <1>1
  <2>3. \A i \in 1 .. Initial : 0 + 1 + (i - 1) * N = i
    BY <1>1
  <2> QED
    BY <2>1, <2>2, <2>3
<1>4. Once(0)
  BY <1>1, <1>2, <1>3 DEF Once, Has, HoldPCs
<1>5. Statused(0)
  BY <1>2 DEF Statused, RunPCs, HoldPCs, SlicePCs
<1>6. Worked(0)
  BY <1>1, <1>2 DEF Worked
<1>7. Answered(0)
  BY <1>1, <1>2 DEF Answered
<1> QED
  BY <1>1, <1>2, <1>4, <1>5, <1>6, <1>7 DEF Solo

LEMMA SoloAlways ==
  ASSUME N = 1
  PROVE  Spec => [](Solo /\ TInv /\ FindInv)
<1>1. TInv /\ Settled /\ [Next]_vars => Settled'
  BY SettledKept
<1>2. TInv /\ Owners /\ Settled /\ TaskRefs /\ FindInv /\ Solo /\ [Next]_vars => Solo'
  BY SoloKept
<1>3. Init => Solo
  BY SoloInit
<1>4. TInv /\ Owners /\ FindInv /\ [Next]_vars => FindInv'
  BY FindKept DEF Owners
<1> QED
  BY TypesInit, TypesKept, OwnersKept, TaskRefsKept, RefsInit, FindInit, <1>1, <1>2, <1>3, <1>4, PTL DEF Spec

\* With one worker, whatever the scripts do, no assertion of schedule.c fails, no
\* closed or running Lua state is resumed and no freed task is read.
THEOREM OneWorkerNeverFails ==
  ASSUME N = 1
  PROVE  Spec => []NoFault
<1>1. Solo => NoFault
  BY DEF Solo, NoFault
<1> QED
  BY <1>1, SoloAlways, PTL

\* With one worker no task that is blocked sleeps on a message.
THEOREM OneWorkerWakesUp ==
  ASSUME N = 1
  PROVE  Spec => []NoLostWakeup
<1>1. ASSUME Solo PROVE NoLostWakeup
  <2>1. 0 \in Workers
    BY ConstantsFit
  <2>2. SUFFICES ASSUME at[0] = "wait", NEW t \in live, status[t] = "BLOCKED", NEW c \in waits[t] \cap chans
                 PROVE  mq[c] = 0
    BY <2>1 DEF NoLostWakeup, AllAsleep
  <2>3. Answered(0) /\ at[0] \notin Sending
    BY <1>1, <2>1, <2>2 DEF Solo, Sending
  <2> QED
    BY <2>2, <2>3 DEF Answered
<1> QED
  BY <1>1, SoloAlways, PTL

\* With one worker a ready task is in its queue once or about to be put there,
\* every other is in none, and a running one has the worker behind it.
THEOREM OneWorkerPlacesOnce ==
  ASSUME N = 1
  PROVE  Spec => []PlacedOnce
<1>1. ASSUME Solo, TInv, FindInv PROVE PlacedOnce
  <2>0. /\ Workers = {0} /\ 0 \in Workers /\ Statused(0) /\ Once(0) /\ Worked(0)
        /\ live \subseteq Tasks /\ Findable
    <3>1. live \subseteq 1 .. opened /\ opened \in 0 .. MaxTasks
      BY <1>1 DEF TInv, Typed, TypeOK
    <3> QED
      BY <1>1, <3>1, Alone, ConstantsFit DEF Solo, FindInv
  <2>1. ASSUME NEW t \in live PROVE Cardinality(Tokens(t)) = IF status[t] = "READY" THEN 1 ELSE 0
    <3>1. Tokens(t) = {<<0, i>> : i \in {j \in DOMAIN runq[0] : runq[0][j] = t}}
                      \cup {<<w, 0>> : w \in {v \in Workers : tok[v] = t /\ at[v] \in HoldPCs}}
      BY <2>0 DEF Tokens, HoldPCs
    <3>2. CASE status[t] # "READY"
      <4>1. ~ Has(runq[0], t)
        BY <2>0, <3>2 DEF Once
      <4>2. ~ (tok[0] = t /\ at[0] \in HoldPCs)
        BY <2>0, <3>2 DEF Statused
      <4>3. Tokens(t) = {}
        BY <2>0, <3>1, <4>1, <4>2 DEF Has
      <4> QED
        BY <3>2, <4>3, FS_EmptySet
    <3>3. CASE status[t] = "READY"
      <4>1. PICK x \in Tokens(t) : TRUE
        BY <2>0, <3>3 DEF Findable
      <4>2. \A y \in Tokens(t) : y = x
        <5>1. Has(runq[0], t) => ~ (tok[0] = t /\ at[0] \in HoldPCs)
          BY <2>0 DEF Once
        <5>2. \A i, j \in DOMAIN runq[0] : runq[0][i] = t /\ runq[0][j] = t => i = j
          BY <2>0 DEF Once
        <5>3. CASE Has(runq[0], t)
          <6>1. Tokens(t) = {<<0, i>> : i \in {j \in DOMAIN runq[0] : runq[0][j] = t}}
            BY <2>0, <3>1, <5>1, <5>3
          <6> QED
            BY <4>1, <5>2, <6>1
        <5>4. CASE ~ Has(runq[0], t)
          <6>1. \A y \in Tokens(t) : y = <<0, 0>>
            BY <2>0, <3>1, <5>4 DEF Has
          <6> QED
            BY <4>1, <6>1
        <5> QED
          BY <5>3, <5>4
      <4>3. Tokens(t) = {x}
        BY <4>1, <4>2
      <4> QED
        BY <3>3, <4>3, FS_Singleton
    <3> QED
      BY <3>2, <3>3
  <2>2. ASSUME NEW t \in live, status[t] = "RUNNING"
        PROVE  \E w \in Workers : (cur[w] = t \/ tok[w] = t) /\ at[w] \notin {"pop", "idle", "wait", "top"}
    <3>1. at[0] \in CurPCs /\ cur[0] = t
      BY <2>0, <2>2 DEF Worked
    <3> QED
      BY <2>0, <3>1 DEF CurPCs, SlicePCs
  <2> QED
    BY <2>1, <2>2 DEF PlacedOnce
<1> QED
  BY <1>1, SoloAlways, PTL

=============================================================================
