----------------------------- MODULE ArmedTimers -----------------------------
(***************************************************************************)
(* What src/timer/timer.c promises its client, without the heap: every     *)
(* armed event has a deadline, an update at time now calls the callbacks   *)
(* of the events that are due, the earliest deadline first, and it ends    *)
(* when nothing is due any more.  A ticker is armed again one period later *)
(* before its callback runs; any other event is disarmed.                  *)
(***************************************************************************)
EXTENDS Integers

CONSTANTS Events,   \* the timer events of the client
          Period,   \* [Events -> Nat]: 0 for an event that fires once
          Times,    \* the deadlines and clock readings the client uses
          Off       \* the deadline of an event that is not armed

VARIABLES due,      \* [Events -> Nat \cup {Off}]
          now,      \* the time of the last timer_update
          phase     \* "idle", "update", or "callback"

vars == <<due, now, phase>>

Armed == {e \in Events : due[e] # Off}

Init ==
  /\ due = [e \in Events |-> Off]
  /\ now = 0
  /\ phase = "idle"

Add(e, w) ==
  /\ phase # "update" /\ e \notin Armed
  /\ due' = [due EXCEPT ![e] = w]
  /\ UNCHANGED <<now, phase>>

Del(e) ==
  /\ phase # "update" /\ e \in Armed
  /\ due' = [due EXCEPT ![e] = Off]
  /\ UNCHANGED <<now, phase>>

Update(t) ==
  /\ phase = "idle"
  /\ now' = t /\ phase' = "update"
  /\ UNCHANGED due

\* Only an earliest event fires, and only when it is due.
Fire(e) ==
  /\ phase = "update" /\ e \in Armed
  /\ due[e] <= now
  /\ \A f \in Armed : due[e] <= due[f]
  /\ due' = [due EXCEPT ![e] = IF Period[e] > 0 THEN due[e] + Period[e] ELSE Off]
  /\ phase' = "callback"
  /\ UNCHANGED now

Return ==
  /\ phase = "callback" /\ phase' = "update"
  /\ UNCHANGED <<due, now>>

Finish ==
  /\ phase = "update"
  /\ \A e \in Armed : due[e] > now
  /\ phase' = "idle"
  /\ UNCHANGED <<due, now>>

Next ==
  \/ \E e \in Events : (\E w \in Times : Add(e, w)) \/ Del(e) \/ Fire(e)
  \/ \E t \in Times : Update(t)
  \/ Return \/ Finish

Spec == Init /\ [][Next]_vars
=============================================================================
