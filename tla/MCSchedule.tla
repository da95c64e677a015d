----------------------------- MODULE MCSchedule -----------------------------
(* Model values for Schedule.                                                *)
EXTENDS Schedule, TLC

AllOps == {"yield", "finish", "open", "channel", "close", "recv", "send", "select"}
BlockingOps == {"finish", "close", "send", "select"}

One == {1}
Two == {1, 2}

SelectOne == {<<1>>}
SelectPair == {<<2, 1>>}
SelectTwo == {<<1>>, <<2, 1>>}

=============================================================================
