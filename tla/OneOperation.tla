---------------------------- MODULE OneOperation ----------------------------
(***************************************************************************)
(* What the window's busy lock is for: of saving, connecting and           *)
(* disconnecting at most one is under way, one is only started when none   *)
(* is, and one that was started ends.  Controller implements this module,  *)
(* and Settings, which says nothing of ends, its safety part.              *)
(***************************************************************************)
VARIABLE op      \* the operation under way, or "idle"

Operations == {"save", "connect", "disconnect"}

Start(o) == op = "idle" /\ op' = o

Finish == op # "idle" /\ op' = "idle"

Init == op = "idle"

Next == Finish \/ \E o \in Operations : Start(o)

Spec == Init /\ [][Next]_op /\ WF_op(Finish)

=============================================================================
