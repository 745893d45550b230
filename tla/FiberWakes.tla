----------------------------- MODULE FiberWakes -----------------------------
(***************************************************************************)
(* What the fiber scheduler promises, without lists, queues or groups: one *)
(* fiber runs at a time, and a wake is a LEVEL.  A fiber that is owed a    *)
(* slice stays owed until it is granted one; a fiber that waits is owed    *)
(* nothing until somebody wakes it; parking a group, resuming it and the   *)
(* order of a tick can only delay a grant.                                 *)
(***************************************************************************)
CONSTANT Fiber

VARIABLE mode   \* unborn, owed, running, waiting or finished

WakesTypeOK ==
  mode \in [Fiber -> {"unborn", "owed", "running", "waiting", "finished"}]

Init == mode = [f \in Fiber |-> "unborn"]

Become(f, from, to) ==
  /\ mode[f] = from
  /\ mode' = [mode EXCEPT ![f] = to]

Spawn(f) == Become(f, "unborn", "owed")
Grant(f) == /\ \A h \in Fiber : mode[h] # "running"
            /\ Become(f, "owed", "running")
Yield(f) == Become(f, "running", "owed")
Wait(f) == Become(f, "running", "waiting")
Finish(f) == Become(f, "running", "finished")
Wake(f) == Become(f, "waiting", "owed")

Next == \E f \in Fiber :
  Spawn(f) \/ Grant(f) \/ Yield(f) \/ Wait(f) \/ Finish(f) \/ Wake(f)

Spec == Init /\ [][Next]_mode
=============================================================================
