--------------------------- MODULE FiberScheduler ---------------------------
(***************************************************************************)
(* The cooperative fiber scheduler of src/src/fiber/scheduler.{h,cpp}.     *)
(*                                                                         *)
(* One thread runs everything.  The HOST (the poll loop) calls tick(mask); *)
(* tick gives one slice to each fiber that was runnable when it began, in  *)
(* arrival order.  During its slice the running fiber may wake, spawn,     *)
(* park groups and resume groups before it gives the thread back by a      *)
(* yield, a park or a return.  Between ticks the host may do the same.     *)
(*                                                                         *)
(* "The actor" below is whoever holds the thread: the running fiber inside *)
(* a tick, the host outside one.  Inside tick() and resume_group()'s own   *)
(* code nobody else runs, which the guards express.                        *)
(***************************************************************************)
EXTENDS Naturals, FiniteSets, SequencesExt

CONSTANTS
  Fiber,      \* every fiber that may ever be spawned
  Group,      \* scheduler tags: the indices 0..7 of the code
  GroupOf,    \* the group each fiber is spawned into, fixed for its life
  NoFiber,    \* the null fiber pointer
  NoGroup     \* no resume_group in progress

ASSUME GroupAssumption == /\ GroupOf \in [Fiber -> Group]
                          /\ NoFiber \notin Fiber
                          /\ NoGroup \notin Group
                          /\ IsFiniteSet(Fiber)

VARIABLES
  state,        \* fiber::_state, and "unborn" before spawn
  ready,        \* the ready list, oldest arrival first
  readyIn,      \* _ready_in_group: how many linked fibers each group has
  pending,      \* _pending_wakes: wakes for members of parked groups
  parkedGroups, \* _parked_groups
  current,      \* _current
  ticking,      \* the host is inside tick()
  tickMask,     \* its group_mask
  tickNext,     \* its local `next`
  tickBoundary, \* its local `boundary`
  resuming,     \* the group resume_group() is replaying, or NoGroup
  snapshot,     \* history: the ready list as the tick began
  served        \* history: the fibers sliced in this tick, in order

listVars == <<ready, readyIn>>
tickVars == <<ticking, tickMask, tickNext, tickBoundary, snapshot, served>>
vars == <<state, listVars, pending, parkedGroups, current, tickVars, resuming>>

FiberState == {"unborn", "ready", "running", "parked", "finished"}

Init ==
  /\ state = [f \in Fiber |-> "unborn"]
  /\ ready = <<>>
  /\ readyIn = [g \in Group |-> 0]
  /\ pending = <<>>
  /\ parkedGroups = {}
  /\ current = NoFiber
  /\ ticking = FALSE
  /\ tickMask = {}
  /\ tickNext = NoFiber
  /\ tickBoundary = NoFiber
  /\ resuming = NoGroup
  /\ snapshot = <<>>
  /\ served = <<>>

-----------------------------------------------------------------------------
(* Helpers *)

group_parked(g) == g \in parkedGroups

(* is_runnable: the one definition of runnable, re-checked before a slice. *)
is_runnable(f, mask) ==
  /\ state[f] = "ready"
  /\ GroupOf[f] \in mask
  /\ ~ group_parked(GroupOf[f])

(* runnable(mask): from the per-group counts, not from the fibers. *)
runnable(mask) == \E g \in mask : readyIn[g] # 0 /\ ~ group_parked(g)

Position(s, f) == CHOOSE i \in DOMAIN s : s[i] = f

(* f->_ready_next *)
ReadyNext(f) ==
  LET i == Position(ready, f)
  IN  IF i < Len(ready) THEN ready[i + 1] ELSE NoFiber

link_ready(f) ==
  /\ ready' = Append(ready, f)
  /\ readyIn' = [readyIn EXCEPT ![GroupOf[f]] = @ + 1]

(* Seeded fault: only the list is edited. *)
UnlinkUncounted(f) ==
  /\ ready' = IF f \in ToSet(ready) THEN RemoveAt(ready, Position(ready, f))
                                    ELSE ready
  /\ UNCHANGED readyIn

unlink_ready(f) ==
  IF f \in ToSet(ready)
  THEN /\ ready' = RemoveAt(ready, Position(ready, f))
       /\ readyIn' = [readyIn EXCEPT ![GroupOf[f]] = @ - 1]
  ELSE UNCHANGED listVars

(* Someone is free to call into the scheduler: no resume is being replayed *)
(* and, inside a tick, a slice is running.                                 *)
ActorHasThread ==
  /\ resuming = NoGroup
  /\ ticking => current # NoFiber

-----------------------------------------------------------------------------
(* What the actor, host or running fiber, may call *)

Spawn(f) ==
  /\ ActorHasThread
  /\ state[f] = "unborn"
  /\ state' = [state EXCEPT ![f] = "ready"]
  /\ link_ready(f)
  /\ UNCHANGED <<pending, parkedGroups, current, tickVars, resuming>>

(* Seeded fault: a parked group's wake is applied at once. *)
WakeApplied(f) ==
  state' = [state EXCEPT ![f] = "ready"] /\ link_ready(f) /\ UNCHANGED pending

(* The body of scheduler::wake for a fiber that is parked. *)
wake_parked(f) ==
  IF group_parked(GroupOf[f])
  THEN /\ pending' = IF f \in ToSet(pending) THEN pending
                                             ELSE Append(pending, f)
       /\ UNCHANGED <<state, listVars>>
  ELSE /\ state' = [state EXCEPT ![f] = "ready"]
       /\ link_ready(f)
       /\ UNCHANGED pending

(* Waking a fiber that is not parked is a no-op, and so not a step. *)
Wake(f) ==
  /\ ActorHasThread
  /\ state[f] = "parked"
  /\ wake_parked(f)
  /\ UNCHANGED <<parkedGroups, current, tickVars, resuming>>

(* A fiber may not park the group it is running in. *)
ParkGroup(g) ==
  /\ ActorHasThread
  /\ current # NoFiber => GroupOf[current] # g
  /\ parkedGroups' = parkedGroups \cup {g}
  /\ UNCHANGED <<state, listVars, pending, current, tickVars, resuming>>

(* resume_group clears the bit and then walks the queue front to back.     *)
ResumeGroup(g) ==
  /\ ActorHasThread
  /\ parkedGroups' = parkedGroups \ {g}
  /\ resuming' = g
  /\ UNCHANGED <<state, listVars, pending, current, tickVars>>

(* One iteration of that walk: the oldest queued wake of the group leaves  *)
(* the queue and is delivered; the other groups' wakes keep their places.  *)
ReplayWake ==
  \E i \in DOMAIN pending :
    LET f == pending[i] IN
    /\ resuming # NoGroup
    /\ GroupOf[f] = resuming
    /\ \A j \in DOMAIN pending : j < i => GroupOf[pending[j]] # resuming
    /\ pending' = RemoveAt(pending, i)
    /\ IF state[f] = "parked"
       THEN /\ state' = [state EXCEPT ![f] = "ready"]
            /\ link_ready(f)
       ELSE UNCHANGED <<state, listVars>>
    /\ UNCHANGED <<parkedGroups, current, tickVars, resuming>>

(* Seeded fault: the queue is cleared, other groups' wakes included. *)
ResumeClearsQueue ==
  /\ resuming # NoGroup
  /\ \A i \in DOMAIN pending : GroupOf[pending[i]] # resuming
  /\ resuming' = NoGroup
  /\ pending' = <<>>
  /\ UNCHANGED <<state, listVars, parkedGroups, current, tickVars>>

ResumeDone ==
  /\ resuming # NoGroup
  /\ \A i \in DOMAIN pending : GroupOf[pending[i]] # resuming
  /\ resuming' = NoGroup
  /\ UNCHANGED <<state, listVars, pending, parkedGroups, current, tickVars>>

-----------------------------------------------------------------------------
(* tick(mask), the host's *)

(* The list is the snapshot, and its tail at entry is the boundary. *)
TickBegin(mask) ==
  /\ ~ ticking
  /\ resuming = NoGroup
  /\ ticking' = TRUE
  /\ tickMask' = mask
  /\ tickNext' = IF ready = <<>> THEN NoFiber ELSE Head(ready)
  /\ tickBoundary' = IF ready = <<>> THEN NoFiber ELSE ready[Len(ready)]
  /\ snapshot' = ready
  /\ served' = <<>>
  /\ UNCHANGED <<state, listVars, pending, parkedGroups, current, resuming>>

(* Seeded fault: the walk stops one fiber early. *)
AdvanceShort(f) ==
  tickNext' = IF ReadyNext(f) = tickBoundary THEN NoFiber ELSE ReadyNext(f)

(* The loop's cursor leaves f: to its successor, taken before the slice    *)
(* because the slice may unlink f, or nowhere once f is the boundary.      *)
Advance(f) ==
  tickNext' = IF f = tickBoundary THEN NoFiber ELSE ReadyNext(f)

(* The walk meets a runnable fiber: run_one_slice hands it the thread. *)
SliceBegin ==
  /\ ticking /\ current = NoFiber /\ resuming = NoGroup
  /\ tickNext # NoFiber
  /\ is_runnable(tickNext, tickMask)
  /\ Advance(tickNext)
  /\ current' = tickNext
  /\ state' = [state EXCEPT ![tickNext] = "running"]
  /\ served' = Append(served, tickNext)
  /\ UNCHANGED <<listVars, pending, parkedGroups, ticking, tickMask,
                 tickBoundary, snapshot, resuming>>

(* The walk meets one that is not: outside the mask, or its group was      *)
(* parked by an earlier slice of this tick.                                *)
TickSkip ==
  /\ ticking /\ current = NoFiber /\ resuming = NoGroup
  /\ tickNext # NoFiber
  /\ ~ is_runnable(tickNext, tickMask)
  /\ Advance(tickNext)
  /\ UNCHANGED <<state, listVars, pending, parkedGroups, current, ticking,
                 tickMask, tickBoundary, snapshot, served, resuming>>

TickEnd ==
  /\ ticking /\ current = NoFiber /\ resuming = NoGroup
  /\ tickNext = NoFiber
  /\ ticking' = FALSE
  /\ tickMask' = {}
  /\ tickBoundary' = NoFiber
  /\ snapshot' = <<>>
  /\ served' = <<>>
  /\ UNCHANGED <<state, listVars, pending, parkedGroups, current, tickNext,
                 resuming>>

-----------------------------------------------------------------------------
(* How a slice ends: the running fiber gives the thread back *)

(* Seeded fault: a yield counts as a new arrival. *)
YieldToTail ==
  /\ current # NoFiber /\ resuming = NoGroup
  /\ state' = [state EXCEPT ![current] = "ready"]
  /\ ready' = Append(RemoveAt(ready, Position(ready, current)), current)
  /\ current' = NoFiber
  /\ UNCHANGED <<readyIn, pending, parkedGroups, tickVars, resuming>>

(* A yield leaves the fiber where it is in the list. *)
Yield ==
  /\ current # NoFiber /\ resuming = NoGroup
  /\ state' = [state EXCEPT ![current] = "ready"]
  /\ current' = NoFiber
  /\ UNCHANGED <<listVars, pending, parkedGroups, tickVars, resuming>>

Park ==
  /\ current # NoFiber /\ resuming = NoGroup
  /\ unlink_ready(current)
  /\ state' = [state EXCEPT ![current] = "parked"]
  /\ current' = NoFiber
  /\ UNCHANGED <<pending, parkedGroups, tickVars, resuming>>

(* The body returned: run_one_slice reaps the stack. *)
Finish ==
  /\ current # NoFiber /\ resuming = NoGroup
  /\ unlink_ready(current)
  /\ state' = [state EXCEPT ![current] = "finished"]
  /\ current' = NoFiber
  /\ UNCHANGED <<pending, parkedGroups, tickVars, resuming>>

SliceEnd == Yield \/ Park \/ Finish

Next ==
  \/ \E f \in Fiber : Spawn(f) \/ Wake(f)
  \/ \E g \in Group : ParkGroup(g) \/ ResumeGroup(g)
  \/ ReplayWake \/ ResumeDone
  \/ \E mask \in (SUBSET Group) \ {{}} : TickBegin(mask)
  \/ SliceBegin \/ TickSkip \/ TickEnd
  \/ SliceEnd

Spec == Init /\ [][Next]_vars
-----------------------------------------------------------------------------
(* Properties *)

(* Every variable has its type; NoFiber stands for the null pointers. *)
TypeOK ==
  /\ state \in [Fiber -> FiberState]
  /\ ready \in Seq(Fiber)
  /\ readyIn \in [Group -> Nat]
  /\ pending \in Seq(Fiber)
  /\ parkedGroups \subseteq Group
  /\ current \in Fiber \cup {NoFiber}
  /\ ticking \in BOOLEAN
  /\ tickMask \subseteq Group
  /\ tickNext \in Fiber \cup {NoFiber}
  /\ tickBoundary \in Fiber \cup {NoFiber}
  /\ resuming \in Group \cup {NoGroup}
  /\ snapshot \in Seq(Fiber)
  /\ served \in Seq(Fiber)

NoRepeats(s) == \A i, j \in DOMAIN s : s[i] = s[j] => i = j

(* The ready list holds each fiber that is ready or running exactly once,  *)
(* and nothing else: "linked exactly while it is ready or running".        *)
ListIsExact ==
  /\ NoRepeats(ready)
  /\ \A f \in Fiber : f \in ToSet(ready) <=> state[f] \in {"ready", "running"}

(* A queued wake is owed to a fiber that is still parked, in a group that  *)
(* is parked (or whose replay is under way), and is queued once: so a      *)
(* replay never wakes a fiber that has moved on, and the queue never grows *)
(* past the number of fibers.                                              *)
QueueIsOwed ==
  /\ NoRepeats(pending)
  /\ \A f \in ToSet(pending) :
       /\ state[f] = "parked"
       /\ group_parked(GroupOf[f]) \/ GroupOf[f] = resuming

(* At most one fiber runs, it is the one the scheduler says is current,    *)
(* only inside a tick, and never in a parked group: parking a group        *)
(* quiesces the whole set the instant the bit flips.                       *)
OneRunnerOutsideParkedGroups ==
  /\ \A f \in Fiber : state[f] = "running" <=> f = current
  /\ current # NoFiber => ticking /\ ~ group_parked(GroupOf[current])

(* runnable(mask) answers from eight counters what is_runnable answers     *)
(* fiber by fiber, whenever the host asks: the loop picks its poll timeout *)
(* by it, so a wrong "no" is a fiber that sleeps with work to do.          *)
CountersAgreeWithFibers ==
  current = NoFiber /\ resuming = NoGroup =>
    \A mask \in SUBSET Group :
      runnable(mask) <=> \E f \in Fiber : is_runnable(f, mask)

(* What the scheduler keeps beside the fibers' own states says of them what *)
(* they say: its variables have their types, the list and the counters are  *)
(* exact, and a wake in the queue is owed.                                  *)
BookkeepingIsExact == TypeOK /\ ListIsExact /\ QueueIsOwed /\ CountersAgreeWithFibers

(* The inductive invariant of the proofs: beside the above, the counters   *)
(* are exact, and the tick's cursor is a linked fiber other than the one   *)
(* whose slice is running, so that its `next` link is always valid.        *)
LinkedIn(g) == {f \in ToSet(ready) : GroupOf[f] = g}

CountersExact == \A g \in Group : readyIn[g] = Cardinality(LinkedIn(g))

CursorIsLinked ==
  tickNext # NoFiber =>
    ticking /\ tickNext \in ToSet(ready) /\ tickNext # current

(* A group whose wakes are being replayed is not parked. *)
ResumingIsOpen == resuming \notin parkedGroups

SchedulerInv ==
  /\ TypeOK
  /\ ListIsExact
  /\ QueueIsOwed
  /\ OneRunnerOutsideParkedGroups
  /\ CountersExact
  /\ CursorIsLinked
  /\ ResumingIsOpen

(* A tick is bounded and reproducible: the fibers it slices are the ones   *)
(* the list held when it began, each at most once, in list order; one      *)
(* woken or spawned during the tick waits for the next.                    *)
TickFollowsSnapshot ==
  /\ \A i \in DOMAIN served : served[i] \in ToSet(snapshot)
  /\ \A i, j \in DOMAIN served :
       i < j => Position(snapshot, served[i]) < Position(snapshot, served[j])

Before(s, f, h) == \E i, j \in DOMAIN s : i < j /\ s[i] = f /\ s[j] = h

(* Arrival order within a group survives everything: yields, parking the   *)
(* group, queueing the wakes and replaying them.  Of two fibers of a group *)
(* that are owed a slice, the one that arrived first stays first; and the  *)
(* ticks serve them in that order.                                         *)
OrderIsKept ==
  [][/\ TickFollowsSnapshot'
     /\ \A f, h \in Fiber :
          /\ GroupOf[f] = GroupOf[h]
          /\ Before(ready \o pending, f, h)
          /\ {f, h} \subseteq ToSet(ready \o pending)'
          => Before((ready \o pending)', f, h)]_vars

(* While a group is parked its members are frozen: no slice, no park, no   *)
(* applied wake; only a spawn may add one.                                 *)
FrozenWhileParked ==
  \A f \in Fiber :
    group_parked(GroupOf[f]) /\ group_parked(GroupOf[f])'
    => state[f] = "unborn" \/ state'[f] = state[f]

ParkedGroupIsFrozen == [][FrozenWhileParked]_vars

(* The scheduler implements the level-triggered wakes of FiberWakes: a     *)
(* fiber is owed a slice when it is on the list or its wake is queued.     *)
mode ==
  [f \in Fiber |->
     CASE state[f] = "ready" -> "owed"
       [] state[f] = "parked" /\ f \in ToSet(pending) -> "owed"
       [] state[f] = "parked" /\ f \notin ToSet(pending) -> "waiting"
       [] OTHER -> state[f]]

Wakes == INSTANCE FiberWakes WITH mode <- mode

WakesSpec == Wakes!Spec

-----------------------------------------------------------------------------
(* Fairness.  The loop calls tick on every turn, with the mask of all its  *)
(* lanes; tick() and resume_group() run to their end once called; and a    *)
(* slice ends however many calls it makes first (hence strong fairness),   *)
(* because a fiber's body polls for cancellation and yields (the debug     *)
(* watchdog reports one that does not).                                    *)
FairSpec ==
  /\ Spec
  /\ SF_vars(TickBegin(Group))
  /\ WF_vars(SliceBegin \/ TickSkip \/ TickEnd)
  /\ WF_vars(ReplayWake \/ ResumeDone)
  /\ SF_vars(SliceEnd)

(* Nobody starves: a ready fiber of a group that stays unparked gets a     *)
(* slice, whatever the others do.                                          *)
ReadyIsServed ==
  \A f \in Fiber :
    state[f] = "ready" /\ ~ group_parked(GroupOf[f])
      ~> state[f] = "running" \/ group_parked(GroupOf[f])
=============================================================================
