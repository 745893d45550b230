-------------------------- MODULE EventLoopProofs --------------------------
(***************************************************************************)
(* What the interactive loop owes and keeps, proved for any number of      *)
(* reactors and without the bounds the runs put on keys, signals, polls    *)
(* and the work of commands.                                               *)
(***************************************************************************)
EXTENDS EventLoop, FiniteSetTheorems, SequenceTheorems, TLAPS

Stages == {"top", "lead", "poll", "tty", "signals", "flags", "awaits", "walk",
           "each", "trail", "notify", "drain", "gone"}
Snaps == [gen : Nat, view : Nat]
LaneStates ==
  [at : {"recv", "compute", "yielded"}, slot : Snaps, snap : Snaps,
   fresh : BOOLEAN, flag : BOOLEAN, polls : Nat]

HostTypes ==
  /\ mode \in [Fiber -> {"unborn", "owed", "running", "waiting"}]
  /\ host \in [at : Stages, zero : BOOLEAN, todo : SUBSET Fiber,
               sliced : BOOLEAN, outer : BOOLEAN,
               ready : SUBSET {"tty", "signal"}, unsent : SUBSET Lane]
  /\ ends \in [exiting : BOOLEAN, stopping : BOOLEAN, pollFailed : BOOLEAN]
  /\ executing \in BOOLEAN
InputTypes ==
  /\ tty \in [keys : Seq(Key), gone : BOOLEAN]
  /\ typed \in Seq(Key) /\ taken \in Nat
  /\ events \in Seq(Event) /\ carried \in Seq(Event)
  /\ deferred \in Seq(Signal)
  /\ sig \in [pending : SUBSET Signal, byte : BOOLEAN, caught : BOOLEAN]
  /\ unanswered \in BOOLEAN
WorkTypes ==
  /\ line \in [gen : Nat \ {0}, view : Nat, len : Nat]
  /\ shown \in [Lane -> Nat]
  /\ lane \in [Lane -> LaneStates]
  /\ exec \in [at : {"recv", "command", "await", "waitpid"}, inbox : BOOLEAN,
               done : BOOLEAN]
  /\ child \in {"none", "running", "zombie"}
  /\ awaiting \in {"none", "child", "tty"}

\* One fiber runs at a time, and only in a tick.
Ticks ==
  /\ \A f, h \in Fiber : mode[f] = "running" /\ mode[h] = "running" => f = h
  /\ host.at \notin {"lead", "trail", "drain"} => host.todo = {} /\ HostRuns
  /\ host.unsent # {} => host.at = "notify"

\* Where the execution fiber is, by what it has been sent.
CommandKnown ==
  /\ ~executing => /\ exec.at = "recv" /\ ~exec.inbox /\ ~exec.done
                   /\ mode[Exec] \in {"unborn", "waiting"}
  /\ executing => mode[Exec] # "unborn"
  /\ executing /\ exec.at = "recv" => exec.inbox \/ exec.done
  /\ exec.inbox => exec.at = "recv" /\ mode[Exec] # "waiting"
  /\ exec.done => /\ exec.at = "recv" /\ ~exec.inbox
                  /\ mode[Exec] \in {"running", "waiting"}
  /\ exec.at \in {"command", "waitpid"} => mode[Exec] = "running"
  /\ exec.at = "await" /\ mode[Exec] = "waiting" => awaiting # "none"
  /\ awaiting # "none" => exec.at = "await" /\ mode[Exec] = "waiting"

\* The turns under an accepted line serve the command and nobody else.
NestedTurns ==
  executing =>
    /\ events = <<>>
    /\ host.at \notin {"each", "notify", "drain", "gone"}
    /\ host.at = "tty" => "tty" \notin host.ready
    /\ host.todo \cap Lane = {} /\ \A l \in Lane : mode[l] # "running"

\* What an outer walk carries is not walked over.
BatchKept ==
  /\ host.at \in {"each", "notify"} => events = <<>>
  /\ host.at = "top" /\ ~ends.exiting => events = <<>>
  /\ ~executing /\ ~ends.exiting /\ host.at \notin {"each", "notify"} =>
       carried = <<>>

\* A turn that has settled to sleep has nothing to do before it does.
TimeoutSettled ==
  host.at \in {"lead", "poll"} =>
    /\ ~host.zero => host.todo = {} /\ HostRuns /\ ~exec.done
    /\ ~executing => ~ends.exiting

\* A signal, and the end of the child waited for, have rung or are at hand.
BellRung ==
  /\ sig.pending # {} => sig.byte \/ host.at = "flags"
  /\ awaiting = "child" => sig.caught /\ child # "none"
  /\ awaiting = "child" /\ child_is_done =>
       sig.byte \/ host.at \in {"flags", "awaits"}

\* A lane with something to do is owed a slice.
LanesOwed ==
  \A l \in Lane :
    lane[l].slot # NoSnap \/ lane[l].at # "recv" =>
      mode[l] \in {"owed", "running"}

\* A reactor works on the text of the line, unless it has been superseded.
SnapsKnown ==
  \A l \in Lane :
    /\ lane[l].slot.gen <= line.gen /\ lane[l].snap.gen <= line.gen
    /\ l \notin host.unsent =>
         /\ lane[l].slot.gen = line.gen => lane[l].slot.view = line.view
         /\ lane[l].at # "recv" /\ ~lane[l].flag /\ lane[l].snap.gen = line.gen =>
              lane[l].snap.view = line.view

\* Every reactor has answered for the text on the line, or is about to.
Announced ==
  ~executing /\ ~ends.exiting /\ host.at \notin {"drain", "gone"} /\ line.len > 0 =>
    \A l \in Lane :
      \/ l \in host.unsent
      \/ shown[l] = line.view
      \/ lane[l].slot = Snap
      \/ lane[l].at # "recv" /\ lane[l].snap = Snap /\ ~lane[l].flag

\* The end of the loop: every lane goes back to recv before the stacks go.
Drained ==
  host.at = "gone" => \A l \in Lane : mode[l] \in {"unborn", "waiting"}

IInv ==
  /\ HostTypes /\ InputTypes /\ WorkTypes
  /\ Ticks /\ CommandKnown /\ NestedTurns /\ BatchKept /\ TimeoutSettled
  /\ BellRung /\ LanesOwed /\ SnapsKnown /\ Announced /\ Drained

\* The pending signals, by number, are a sequence of signals.
LEMMA ByNumberIsSeq ==
  ASSUME NEW signals \in SUBSET Signal
  PROVE  ByNumber(signals) \in Seq(Signal)
<1>1. <<"INT">> \in Seq(Signal) /\ <<"CHLD">> \in Seq(Signal) /\ <<>> \in Seq(Signal)
  BY DEF Signal
<1>2. QED
  BY <1>1, ConcatProperties DEF ByNumber

\* Where the loop stands when it hands an event to the editor: at a prompt,
\* with the execution fiber idle and nothing collected but what it walks.
LEMMA HandlesTells ==
  ASSUME IInv, NEW kinds, Handles(kinds)
  PROVE  /\ host.at = "each" /\ HostRuns /\ host.todo = {} /\ host.unsent = {}
         /\ ~executing /\ events = <<>> /\ awaiting = "none"
         /\ exec.at = "recv" /\ ~exec.inbox /\ ~exec.done
         /\ mode[Exec] \in {"unborn", "waiting"}
         /\ carried # <<>> /\ carried \in Seq(Event)
         /\ carried' = Tail(carried) /\ Tail(carried) \in Seq(Event)
         /\ taken' \in Nat
<1>1. /\ host.at = "each" /\ HostRuns /\ carried # <<>> /\ carried' = Tail(carried)
      /\ taken' \in {taken, taken + 1}
  BY DEF Handles, HostAt
<1>2. ~executing /\ events = <<>> /\ host.todo = {} /\ host.unsent = {}
  BY <1>1 DEF IInv, NestedTurns, BatchKept, Ticks
<1>3. /\ exec.at = "recv" /\ ~exec.inbox /\ ~exec.done /\ awaiting = "none"
      /\ mode[Exec] \in {"unborn", "waiting"}
  BY <1>2 DEF IInv, CommandKnown
<1>4. carried \in Seq(Event) /\ taken \in Nat
  BY DEF IInv, InputTypes
<1>5. Tail(carried) \in Seq(Event)
  BY <1>1, <1>4, HeadTailProperties
<1>6. QED
  BY <1>1, <1>2, <1>3, <1>4, <1>5

\* Superseding raises flags and nothing else.
LEMMA SupersededTells ==
  ASSUME IInv
  PROVE  /\ Superseded \in [Lane -> LaneStates]
         /\ \A l \in Lane : /\ Superseded[l].at = lane[l].at
                           /\ Superseded[l].slot = lane[l].slot
                           /\ Superseded[l].snap = lane[l].snap
<1>1. SUFFICES ASSUME NEW l \in Lane
               PROVE  /\ Superseded[l] \in LaneStates
                      /\ Superseded[l].at = lane[l].at
                      /\ Superseded[l].slot = lane[l].slot
                      /\ Superseded[l].snap = lane[l].snap
  BY DEF Superseded
<1>2. lane[l] \in LaneStates
  BY DEF IInv, WorkTypes
<1>3. Superseded[l] \in {lane[l], [lane[l] EXCEPT !.flag = TRUE]}
  BY DEF Superseded
<1>4. QED
  BY <1>2, <1>3 DEF LaneStates

\* Sending a line to the execution fiber starts it or owes it a slice.
LEMMA RunTheLineTells ==
  ASSUME IInv, run_the_line, host.at = "each", HostRuns, host.todo = {}, host.unsent = {},
         mode[Exec] \in {"unborn", "waiting"}
  PROVE  /\ mode' \in [Fiber -> {"unborn", "owed", "running", "waiting"}]
         /\ mode'[Exec] = "owed" /\ \A l \in Lane : mode'[l] = mode[l]
         /\ \A f \in Fiber : mode'[f] # "running"
         /\ host' \in [at : Stages, zero : BOOLEAN, todo : SUBSET Fiber,
                       sliced : BOOLEAN, outer : BOOLEAN,
                       ready : SUBSET {"tty", "signal"}, unsent : SUBSET Lane]
         /\ host'.at = "top" /\ host'.todo = {} /\ host'.unsent = {}
         /\ exec' = [exec EXCEPT !.inbox = TRUE]
<1>1. /\ mode \in [Fiber -> {"unborn", "owed", "running", "waiting"}] /\ Exec \in Fiber
      /\ Lane \subseteq Fiber /\ Exec \notin Lane
      /\ host \in [at : Stages, zero : BOOLEAN, todo : SUBSET Fiber,
                   sliced : BOOLEAN, outer : BOOLEAN,
                   ready : SUBSET {"tty", "signal"}, unsent : SUBSET Lane]
  BY LoopAssumption DEF IInv, HostTypes, Fiber
<1>2. mode' = [mode EXCEPT ![Exec] = "owed"]
  BY DEF run_the_line, W!Spawn, W!Wake, W!Become
<1>3. /\ exec' = [exec EXCEPT !.inbox = TRUE]
      /\ host' = [host EXCEPT !.at = "top", !.outer = host.sliced]
  BY DEF run_the_line
<1>4. QED
  BY <1>1, <1>2, <1>3 DEF HostRuns, Stages

\* A flag that is up stays up.
LEMMA SupersededFlags ==
  ASSUME IInv
  PROVE  \A l \in Lane : lane[l].flag => Superseded[l].flag
<1>1. SUFFICES ASSUME NEW l \in Lane, lane[l].flag
               PROVE  Superseded[l].flag
  OBVIOUS
<1>2. lane[l] \in LaneStates
  BY DEF IInv, WorkTypes
<1>3. Superseded[l] \in {lane[l], [lane[l] EXCEPT !.flag = TRUE]}
  BY DEF Superseded
<1>4. QED
  BY <1>1, <1>2, <1>3 DEF LaneStates

LEMMA TypeKeeps ==
  ASSUME IInv, NEW key \in Key, Type(key)
  PROVE  IInv'
<1>s. /\ events \in Seq(Event) /\ carried \in Seq(Event) /\ deferred \in Seq(Signal)
      /\ tty \in [keys : Seq(Key), gone : BOOLEAN]
  BY DEF IInv, InputTypes
<1>a. typed' \in Seq(Key) /\ tty' \in [keys : Seq(Key), gone : BOOLEAN]
  BY <1>s, AppendProperties DEF Type, IInv, InputTypes
<1>1. HostTypes'
  BY DEF IInv, HostTypes, Type, edit, queues, keys, spent, command
<1>2. WorkTypes'
  BY DEF IInv, WorkTypes, Type, edit, queues, keys, spent, command
<1>3. Ticks'
  BY DEF IInv, Ticks, HostRuns, Type, edit, queues, keys, spent, command
<1>4. CommandKnown'
  BY DEF IInv, CommandKnown, Type, edit, queues, keys, spent, command
<1>5. NestedTurns'
  BY DEF IInv, NestedTurns, Type, edit, queues, keys, spent, command
<1>6. BatchKept'
  BY DEF IInv, BatchKept, Type, edit, queues, keys, spent, command
<1>7. TimeoutSettled'
  BY DEF IInv, TimeoutSettled, HostRuns, Type, edit, queues, keys, spent, command
<1>8. BellRung'
  BY DEF IInv, BellRung, child_is_done, Type, edit, queues, keys, spent, command
<1>9. LanesOwed'
  BY DEF IInv, LanesOwed, Type, edit, queues, keys, spent, command
<1>10. SnapsKnown'
  BY DEF IInv, SnapsKnown, Type, edit, queues, keys, spent, command
<1>11. Announced'
  BY DEF IInv, Announced, Snap, Type, edit, queues, keys, spent, command
<1>12. Drained'
  BY DEF IInv, Drained, Type, edit, queues, keys, spent, command
<1>13. InputTypes'
  BY <1>a DEF Type, IInv, InputTypes, queues, spent
<1>14. QED
  BY <1>1, <1>2, <1>3, <1>4, <1>5, <1>6, <1>7, <1>8, <1>9, <1>10, <1>11, <1>12, <1>13 DEF IInv

LEMMA HangUpKeeps ==
  ASSUME IInv, HangUp
  PROVE  IInv'
<1>1. HostTypes'
  BY DEF IInv, HostTypes, HangUp, edit, queues, keys, spent, command
<1>2. WorkTypes'
  BY DEF IInv, WorkTypes, HangUp, edit, queues, keys, spent, command
<1>3. Ticks'
  BY DEF IInv, Ticks, HostRuns, HangUp, edit, queues, keys, spent, command
<1>4. CommandKnown'
  BY DEF IInv, CommandKnown, HangUp, edit, queues, keys, spent, command
<1>5. NestedTurns'
  BY DEF IInv, NestedTurns, HangUp, edit, queues, keys, spent, command
<1>6. BatchKept'
  BY DEF IInv, BatchKept, HangUp, edit, queues, keys, spent, command
<1>7. TimeoutSettled'
  BY DEF IInv, TimeoutSettled, HostRuns, HangUp, edit, queues, keys, spent, command
<1>8. BellRung'
  BY DEF IInv, BellRung, child_is_done, HangUp, edit, queues, keys, spent, command
<1>9. LanesOwed'
  BY DEF IInv, LanesOwed, HangUp, edit, queues, keys, spent, command
<1>10. SnapsKnown'
  BY DEF IInv, SnapsKnown, HangUp, edit, queues, keys, spent, command
<1>11. Announced'
  BY DEF IInv, Announced, Snap, HangUp, edit, queues, keys, spent, command
<1>12. Drained'
  BY DEF IInv, Drained, HangUp, edit, queues, keys, spent, command
<1>13. InputTypes'
  BY DEF IInv, InputTypes, Event, Key, Signal, HangUp, edit, queues, keys, spent, command
<1>14. QED
  BY <1>1, <1>2, <1>3, <1>4, <1>5, <1>6, <1>7, <1>8, <1>9, <1>10, <1>11, <1>12, <1>13 DEF IInv

LEMMA InterruptKeeps ==
  ASSUME IInv, Interrupt
  PROVE  IInv'
<1>1. HostTypes'
  BY DEF IInv, HostTypes, Interrupt, deliver, edit, queues, keys, spent, command
<1>2. WorkTypes'
  BY DEF IInv, WorkTypes, Interrupt, deliver, edit, queues, keys, spent, command
<1>3. Ticks'
  BY DEF IInv, Ticks, HostRuns, Interrupt, deliver, edit, queues, keys, spent, command
<1>4. CommandKnown'
  BY DEF IInv, CommandKnown, Interrupt, deliver, edit, queues, keys, spent, command
<1>5. NestedTurns'
  BY DEF IInv, NestedTurns, Interrupt, deliver, edit, queues, keys, spent, command
<1>6. BatchKept'
  BY DEF IInv, BatchKept, Interrupt, deliver, edit, queues, keys, spent, command
<1>7. TimeoutSettled'
  BY DEF IInv, TimeoutSettled, HostRuns, Interrupt, deliver, edit, queues, keys, spent, command
<1>8. LanesOwed'
  BY DEF IInv, LanesOwed, Interrupt, deliver, edit, queues, keys, spent, command
<1>9. SnapsKnown'
  BY DEF IInv, SnapsKnown, Interrupt, deliver, edit, queues, keys, spent, command
<1>10. Announced'
  BY DEF IInv, Announced, Snap, Interrupt, deliver, edit, queues, keys, spent, command
<1>11. Drained'
  BY DEF IInv, Drained, Interrupt, deliver, edit, queues, keys, spent, command
<1>12. InputTypes'
  BY DEF IInv, InputTypes, Event, Key, Signal, Interrupt, deliver, edit, queues, keys, spent,
     command
<1>13. BellRung'
  BY DEF IInv, BellRung, child_is_done, Interrupt, deliver, edit, queues, keys, spent, command
<1>14. QED
  BY <1>1, <1>2, <1>3, <1>4, <1>5, <1>6, <1>7, <1>8, <1>9, <1>10, <1>11, <1>12, <1>13 DEF IInv

LEMMA ChildExitKeeps ==
  ASSUME IInv, ChildExit
  PROVE  IInv'
<1>s. sig \in [pending : SUBSET Signal, byte : BOOLEAN, caught : BOOLEAN]
  BY DEF IInv, InputTypes
<1>a. /\ sig' \in [pending : SUBSET Signal, byte : BOOLEAN, caught : BOOLEAN]
      /\ sig'.caught = sig.caught
      /\ sig.byte => sig'.byte
      /\ sig.caught => sig'.byte
      /\ sig'.pending # {} => sig'.byte \/ sig'.pending = sig.pending
  BY <1>s DEF ChildExit, deliver, Signal
<1>1. HostTypes'
  BY DEF IInv, HostTypes, ChildExit, deliver, child_is_done, edit, queues, keys, spent, command
<1>2. Ticks'
  BY DEF IInv, Ticks, HostRuns, ChildExit, deliver, child_is_done, edit, queues, keys, spent,
     command
<1>3. CommandKnown'
  BY DEF IInv, CommandKnown, ChildExit, deliver, child_is_done, edit, queues, keys, spent,
     command
<1>4. NestedTurns'
  BY DEF IInv, NestedTurns, ChildExit, deliver, child_is_done, edit, queues, keys, spent,
     command
<1>5. BatchKept'
  BY DEF IInv, BatchKept, ChildExit, deliver, child_is_done, edit, queues, keys, spent, command
<1>6. TimeoutSettled'
  BY DEF IInv, TimeoutSettled, HostRuns, ChildExit, deliver, child_is_done, edit, queues,
     keys, spent, command
<1>7. LanesOwed'
  BY DEF IInv, LanesOwed, ChildExit, deliver, child_is_done, edit, queues, keys, spent, command
<1>8. SnapsKnown'
  BY DEF IInv, SnapsKnown, ChildExit, deliver, child_is_done, edit, queues, keys, spent, command
<1>9. Announced'
  BY DEF IInv, Announced, Snap, ChildExit, deliver, child_is_done, edit, queues, keys, spent,
     command
<1>10. Drained'
  BY DEF IInv, Drained, ChildExit, deliver, child_is_done, edit, queues, keys, spent, command
<1>11. InputTypes'
  BY <1>a DEF IInv, InputTypes, Event, Key, Signal, ChildExit, deliver, edit, queues, keys,
     spent, command
<1>12. WorkTypes'
  BY DEF IInv, WorkTypes, LaneStates, Snaps, NoSnap, ChildExit, deliver, edit, queues, keys,
     spent, command
<1>13. BellRung'
  BY <1>a DEF IInv, BellRung, child_is_done, ChildExit, deliver, edit, queues, keys, spent,
     command
<1>14. QED
  BY <1>1, <1>2, <1>3, <1>4, <1>5, <1>6, <1>7, <1>8, <1>9, <1>10, <1>11, <1>12, <1>13 DEF IInv

LEMMA SliceKeeps ==
  ASSUME IInv, NEW f \in Fiber, Slice(f)
  PROVE  IInv'
<1>1. InputTypes'
  BY DEF IInv, InputTypes, Slice, queues, keys, spent
<1>2. WorkTypes'
  BY DEF IInv, WorkTypes, Slice, edit, command
<1>3. HostTypes'
  BY DEF IInv, HostTypes, Fiber, Stages, Slice, W!Grant, W!Become, edit, queues, keys, spent,
     command
<1>4. Ticks'
  BY DEF IInv, Ticks, HostRuns, Fiber, Slice, W!Grant, W!Become, edit, queues, keys, spent,
     command
<1>5. CommandKnown'
  BY LoopAssumption DEF IInv, HostTypes, Ticks, CommandKnown, NestedTurns, TimeoutSettled,
     HostRuns, Fiber, Stages, LaneStates, Event, keys, spent, command, Slice, W!Grant, W!Become
<1>6. NestedTurns'
  BY DEF IInv, NestedTurns, Fiber, Slice, W!Grant, W!Become, edit, queues, keys, spent, command
<1>7. BatchKept'
  BY DEF IInv, BatchKept, Slice, W!Become, edit, queues, keys, spent, command
<1>8. TimeoutSettled'
  BY DEF IInv, TimeoutSettled, HostRuns, Slice, W!Grant, W!Become, edit, queues, keys, spent,
     command
<1>9. BellRung'
  BY DEF IInv, HostTypes, NestedTurns, BatchKept, BellRung, HostRuns, Snaps, NoSnap, Snap,
     child_is_done, edit, spent, command, Slice
<1>10. LanesOwed'
  BY DEF IInv, InputTypes, Ticks, BatchKept, LanesOwed, SnapsKnown, Announced, Key, Signal,
     Event, NoSnap, child_is_done, edit, queues, Slice, W!Grant, W!Become
<1>11. SnapsKnown'
  BY DEF IInv, SnapsKnown, NoSnap, Slice, W!Grant, W!Become, edit, queues, keys, spent, command
<1>12. Announced'
  BY DEF IInv, Announced, Snap, Slice, W!Grant, edit, queues, keys, spent, command
<1>13. Drained'
  BY LoopAssumption DEF IInv, Drained, HostTypes, Ticks, CommandKnown, NoSnap, Fiber, Stages,
     HostRuns, Slice, W!Become, edit, queues, keys, spent, command
<1>14. QED
  BY <1>1, <1>2, <1>3, <1>4, <1>5, <1>6, <1>7, <1>8, <1>9, <1>10, <1>11, <1>12, <1>13 DEF IInv

LEMMA LaneParkKeeps ==
  ASSUME IInv, NEW l \in Lane, LanePark(l)
  PROVE  IInv'
<1>t. lane[l] \in LaneStates /\ mode[l] \in {"unborn", "owed", "running", "waiting"}
  BY DEF IInv, WorkTypes, HostTypes, Fiber
<1>r. Snap \in Snaps /\ Snap # NoSnap /\ NoSnap \in Snaps
  BY DEF IInv, WorkTypes, Snap, Snaps, NoSnap
<1>a. /\ lane' \in [Lane -> LaneStates]
      /\ \A k \in Lane : k # l => lane'[k] = lane[k]
      /\ lane'[l].at = "recv"
      /\ lane'[l].slot = NoSnap
      /\ lane'[l].snap = lane[l].snap
  BY DEF IInv, WorkTypes, LanePark, LaneStep
<1>n. Announced'
  <2>1. UNCHANGED <<host, line, executing, ends, shown>>
    BY DEF LanePark, LaneStep
  <2> SUFFICES ASSUME NEW k \in Lane, ~executing, ~ends.exiting,
                      host.at \notin {"drain", "gone"}, line.len > 0
               PROVE  \/ k \in host.unsent
                      \/ shown'[k] = line.view
                      \/ lane'[k].slot = Snap
                      \/ lane'[k].at # "recv" /\ lane'[k].snap = Snap /\ ~lane'[k].flag
    BY <2>1 DEF Announced, Snap
  <2>2. \/ k \in host.unsent
        \/ shown[k] = line.view
        \/ lane[k].slot = Snap
        \/ lane[k].at # "recv" /\ lane[k].snap = Snap /\ ~lane[k].flag
    BY DEF IInv, Announced
  <2>3. CASE k # l
    BY <2>2, <2>3, <1>a, <2>1
  <2>4. CASE k = l
    BY <2>2, <1>a DEF LanePark
  <2>5. QED
    BY <2>3, <2>4
<1>k. SnapsKnown'
  <2>1. UNCHANGED <<host, line>>
          /\ (lane[l].at = "recv" => lane'[l].snap \in {lane[l].snap, lane[l].slot})
    BY DEF LanePark, LaneStep
  <2>2. lane[l].slot # NoSnap => lane[l].slot.gen \in Nat
    BY <1>t DEF LaneStates, Snaps
  <2>3. lane'[l].slot.gen <= line.gen /\ lane'[l].snap.gen <= line.gen
    BY <1>a DEF IInv, SnapsKnown, LanePark
  <2>4. /\ lane'[l].slot.gen = line.gen /\ l \notin host.unsent => lane'[l].slot.view = line.view
        /\ lane'[l].at # "recv" /\ ~lane'[l].flag /\ lane'[l].snap.gen = line.gen
             /\ l \notin host.unsent =>
             lane'[l].snap.view = line.view
    BY <1>a DEF IInv, NoSnap, WorkTypes
  <2>5. QED
    BY <1>a, <2>1, <2>3, <2>4 DEF IInv, SnapsKnown
<1>1. InputTypes'
  BY DEF IInv, InputTypes, LanePark, LaneStep, keys, spent
<1>2. BatchKept'
  BY DEF IInv, BatchKept, LanePark, LaneStep
<1>3. BellRung'
  BY DEF IInv, BellRung, child_is_done, LanePark, LaneStep, command
<1>4. HostTypes'
  BY DEF IInv, HostTypes, Fiber, Stages, LanePark, LaneStep, W!Wait, W!Become, edit, queues,
     keys, spent, command
<1>5. WorkTypes'
  BY <1>t DEF IInv, WorkTypes, LaneStates, Snaps, NoSnap, LanePark, LaneStep, W!Wait,
     W!Become, edit, queues, keys, spent, command
<1>6. Ticks'
  BY DEF IInv, Ticks, HostRuns, Fiber, LanePark, LaneStep, W!Wait, W!Become, edit, queues,
     keys, spent, command
<1>7. CommandKnown'
  BY DEF IInv, CommandKnown, HostTypes, Ticks, WorkTypes, NestedTurns, BatchKept,
     TimeoutSettled, Fiber, Stages, HostRuns, LaneStates, Snaps, NoSnap, LanePark, LaneStep,
     W!Wait, W!Become, edit, queues, keys, spent, command
<1>8. NestedTurns'
  BY DEF IInv, NestedTurns, Fiber, LanePark, LaneStep, W!Wait, edit, queues, keys, spent,
     command
<1>9. TimeoutSettled'
  BY DEF IInv, TimeoutSettled, HostRuns, LanePark, LaneStep, W!Wait, W!Become, edit, queues,
     keys, spent, command
<1>10. LanesOwed'
  BY DEF IInv, LanesOwed, NoSnap, LanePark, LaneStep, W!Wait, W!Become, edit, queues, keys,
     spent, command
<1>11. SnapsKnown'
  BY LoopAssumption DEF IInv, HostTypes, BatchKept, SnapsKnown, Announced, LaneStates,
     Signal, NoSnap, Snap, keys, spent, command, LanePark, LaneStep
<1>12. Announced'
  BY <1>n DEF HostRuns
<1>13. Drained'
  BY DEF IInv, Drained, NoSnap, LanePark, LaneStep, edit, queues, keys, spent, command
<1>14. QED
  BY <1>1, <1>2, <1>3, <1>4, <1>5, <1>6, <1>7, <1>8, <1>9, <1>10, <1>11, <1>12, <1>13 DEF IInv

LEMMA LaneRecvKeeps ==
  ASSUME IInv, NEW l \in Lane, LaneRecv(l)
  PROVE  IInv'
<1>t. lane[l] \in LaneStates /\ mode[l] \in {"unborn", "owed", "running", "waiting"}
  BY DEF IInv, WorkTypes, HostTypes, Fiber
<1>r. Snap \in Snaps /\ Snap # NoSnap /\ NoSnap \in Snaps
  BY DEF IInv, WorkTypes, Snap, Snaps, NoSnap
<1>a. /\ lane' \in [Lane -> LaneStates]
      /\ \A k \in Lane : k # l => lane'[k] = lane[k]
      /\ lane'[l].at = "compute"
      /\ lane'[l].slot = NoSnap
      /\ lane'[l].snap = lane[l].slot
      /\ lane'[l].flag = FALSE
  BY <1>t, <1>r DEF IInv, WorkTypes, LaneStates, Snaps, LaneRecv, LaneStep, Received
<1>n. Announced'
  <2>1. UNCHANGED <<host, line, executing, ends, shown>>
    BY DEF LaneRecv, LaneStep
  <2> SUFFICES ASSUME NEW k \in Lane, ~executing, ~ends.exiting,
                      host.at \notin {"drain", "gone"}, line.len > 0
               PROVE  \/ k \in host.unsent
                      \/ shown'[k] = line.view
                      \/ lane'[k].slot = Snap
                      \/ lane'[k].at # "recv" /\ lane'[k].snap = Snap /\ ~lane'[k].flag
    BY <2>1 DEF Announced, Snap
  <2>2. \/ k \in host.unsent
        \/ shown[k] = line.view
        \/ lane[k].slot = Snap
        \/ lane[k].at # "recv" /\ lane[k].snap = Snap /\ ~lane[k].flag
    BY DEF IInv, Announced
  <2>3. CASE k # l
    BY <2>2, <2>3, <1>a, <2>1
  <2>4. CASE k = l
    BY <2>2, <2>4, <1>a, <2>1 DEF LaneRecv
  <2>5. QED
    BY <2>3, <2>4
<1>k. SnapsKnown'
  <2>1. UNCHANGED <<host, line>>
          /\ (lane[l].at = "recv" => lane'[l].snap \in {lane[l].snap, lane[l].slot})
    BY <1>t, <1>a DEF LaneRecv, LaneStep, LaneStates
  <2>2. lane[l].slot # NoSnap => lane[l].slot.gen \in Nat
    BY <1>t DEF LaneStates, Snaps
  <2>3. lane'[l].slot.gen <= line.gen /\ lane'[l].snap.gen <= line.gen
    BY <1>a, <1>r, <2>1 DEF IInv, SnapsKnown, NoSnap, WorkTypes
  <2>4. /\ lane'[l].slot.gen = line.gen /\ l \notin host.unsent => lane'[l].slot.view = line.view
        /\ lane'[l].at # "recv" /\ ~lane'[l].flag /\ lane'[l].snap.gen = line.gen
             /\ l \notin host.unsent =>
             lane'[l].snap.view = line.view
    BY <1>a, <1>r DEF IInv, SnapsKnown, NoSnap, WorkTypes
  <2>5. QED
    BY <1>a, <2>1, <2>3, <2>4 DEF IInv, SnapsKnown
<1>1. HostTypes'
  BY DEF IInv, HostTypes, LaneRecv, LaneStep, Received, edit, queues, keys, spent, command
<1>2. InputTypes'
  BY DEF IInv, InputTypes, LaneRecv, LaneStep, Received, edit, queues, keys, spent, command
<1>3. Ticks'
  BY DEF IInv, Ticks, HostRuns, LaneRecv, LaneStep, Received, edit, queues, keys, spent, command
<1>4. CommandKnown'
  BY DEF IInv, CommandKnown, LaneRecv, LaneStep, Received, edit, queues, keys, spent, command
<1>5. NestedTurns'
  BY DEF IInv, NestedTurns, LaneRecv, LaneStep, Received, edit, queues, keys, spent, command
<1>6. BatchKept'
  BY DEF IInv, BatchKept, LaneRecv, LaneStep, Received, edit, queues, keys, spent, command
<1>7. TimeoutSettled'
  BY DEF IInv, TimeoutSettled, HostRuns, LaneRecv, LaneStep, Received, edit, queues, keys,
     spent, command
<1>8. BellRung'
  BY DEF IInv, BellRung, child_is_done, LaneRecv, LaneStep, Received, edit, queues, keys,
     spent, command
<1>9. Drained'
  BY DEF IInv, Drained, LaneRecv, LaneStep, Received, edit, queues, keys, spent, command
<1>10. WorkTypes'
  BY <1>t, <1>r, <1>a DEF IInv, WorkTypes, LaneStates, Snaps, NoSnap, LaneRecv, LaneStep,
     Received, edit, queues, keys, spent, command
<1>11. LanesOwed'
  BY <1>t, <1>r, <1>a DEF IInv, LanesOwed, NoSnap, LaneRecv, LaneStep, Received, edit,
     queues, keys, spent, command
<1>12. SnapsKnown'
  BY <1>k DEF IInv, SnapsKnown, NoSnap, LaneRecv, LaneStep, Received, edit, queues, keys,
     spent, command
<1>13. Announced'
  BY <1>n DEF IInv, Announced, Snap, LaneRecv, LaneStep, Received, edit, queues, keys, spent,
     command
<1>14. QED
  BY <1>1, <1>2, <1>3, <1>4, <1>5, <1>6, <1>7, <1>8, <1>9, <1>10, <1>11, <1>12, <1>13 DEF IInv

LEMMA reactor_yieldKeeps ==
  ASSUME IInv, NEW l \in Lane, reactor_yield(l)
  PROVE  IInv'
<1>t. lane[l] \in LaneStates /\ mode[l] \in {"unborn", "owed", "running", "waiting"}
  BY DEF IInv, WorkTypes, HostTypes, Fiber
<1>r. Snap \in Snaps /\ Snap # NoSnap /\ NoSnap \in Snaps
  BY DEF IInv, WorkTypes, Snap, Snaps, NoSnap
<1>p. lane[l].polls + 1 \in Nat
  BY <1>t DEF LaneStates
<1>a. /\ lane' \in [Lane -> LaneStates]
      /\ \A k \in Lane : k # l => lane'[k] = lane[k]
      /\ lane'[l].at = "yielded"
      /\ lane'[l].slot = lane[l].slot
      /\ lane'[l].snap = lane[l].snap
      /\ lane'[l].flag = lane[l].flag
  BY <1>p DEF IInv, WorkTypes, LaneStates, reactor_yield, LaneStep
<1>n. Announced'
  <2>1. UNCHANGED <<host, line, executing, ends, shown>>
    BY DEF reactor_yield, LaneStep
  <2> SUFFICES ASSUME NEW k \in Lane, ~executing, ~ends.exiting,
                      host.at \notin {"drain", "gone"}, line.len > 0
               PROVE  \/ k \in host.unsent
                      \/ shown'[k] = line.view
                      \/ lane'[k].slot = Snap
                      \/ lane'[k].at # "recv" /\ lane'[k].snap = Snap /\ ~lane'[k].flag
    BY <2>1 DEF Announced, Snap
  <2>2. \/ k \in host.unsent
        \/ shown[k] = line.view
        \/ lane[k].slot = Snap
        \/ lane[k].at # "recv" /\ lane[k].snap = Snap /\ ~lane[k].flag
    BY DEF IInv, Announced
  <2>3. CASE k # l
    BY <2>2, <1>a, <2>1
  <2>4. CASE k = l
    BY <2>2, <1>a DEF reactor_yield
  <2>5. QED
    BY <2>3, <2>4
<1>k. SnapsKnown'
  <2>1. UNCHANGED <<host, line>>
          /\ (lane[l].at = "recv" => lane'[l].snap \in {lane[l].snap, lane[l].slot})
    BY DEF reactor_yield, LaneStep
  <2>2. lane[l].slot # NoSnap => lane[l].slot.gen \in Nat
    BY <1>t DEF LaneStates, Snaps
  <2>3. lane'[l].slot.gen <= line.gen /\ lane'[l].snap.gen <= line.gen
    BY <1>a DEF IInv, SnapsKnown
  <2>4. /\ lane'[l].slot.gen = line.gen /\ l \notin host.unsent => lane'[l].slot.view = line.view
        /\ lane'[l].at # "recv" /\ ~lane'[l].flag /\ lane'[l].snap.gen = line.gen
             /\ l \notin host.unsent =>
             lane'[l].snap.view = line.view
    BY <1>a DEF IInv, SnapsKnown, reactor_yield
  <2>5. QED
    BY <1>a, <2>1, <2>3, <2>4 DEF IInv, SnapsKnown
<1>1. InputTypes'
  BY DEF IInv, InputTypes, reactor_yield, LaneStep, queues, keys, spent
<1>2. BatchKept'
  BY DEF IInv, BatchKept, reactor_yield, LaneStep, spent
<1>3. BellRung'
  BY DEF IInv, BellRung, child_is_done, reactor_yield, LaneStep, queues, command
<1>4. HostTypes'
  BY DEF IInv, HostTypes, Fiber, Stages, reactor_yield, LaneStep, W!Yield, W!Become, edit,
     queues, keys, spent, command
<1>5. WorkTypes'
  BY <1>t, <1>r, <1>a DEF IInv, WorkTypes, LaneStates, Snaps, NoSnap, reactor_yield,
     LaneStep, W!Yield, W!Become, edit, queues, keys, spent, command
<1>6. Ticks'
  BY DEF IInv, Ticks, HostRuns, Fiber, reactor_yield, LaneStep, W!Yield, W!Become, edit,
     queues, keys, spent, command
<1>7. CommandKnown'
  BY LoopAssumption DEF IInv, CommandKnown, HostTypes, Fiber, Stages, reactor_yield,
     LaneStep, W!Yield, W!Become, edit, queues, keys, spent, command
<1>8. NestedTurns'
  BY DEF IInv, NestedTurns, Fiber, reactor_yield, LaneStep, W!Yield, W!Become, edit, queues,
     keys, spent, command
<1>9. TimeoutSettled'
  BY DEF IInv, TimeoutSettled, HostTypes, HostRuns, Fiber, Stages, reactor_yield, LaneStep,
     W!Become, edit, queues, keys, spent, command
<1>10. LanesOwed'
  BY <1>a DEF IInv, LanesOwed, NoSnap, reactor_yield, LaneStep, W!Yield, W!Become, edit,
     queues, keys, spent, command
<1>11. SnapsKnown'
  BY <1>k
<1>12. Announced'
  BY <1>n
<1>13. Drained'
  BY DEF IInv, Drained, NoSnap, reactor_yield, LaneStep, W!Yield, W!Become, edit, queues,
     keys, spent, command
<1>14. QED
  BY <1>1, <1>2, <1>3, <1>4, <1>5, <1>6, <1>7, <1>8, <1>9, <1>10, <1>11, <1>12, <1>13 DEF IInv

LEMMA PollAnsweredKeeps ==
  ASSUME IInv, NEW l \in Lane, PollAnswered(l)
  PROVE  IInv'
<1>t. lane[l] \in LaneStates /\ mode[l] \in {"unborn", "owed", "running", "waiting"}
  BY DEF IInv, WorkTypes, HostTypes, Fiber
<1>r. Snap \in Snaps /\ Snap # NoSnap /\ NoSnap \in Snaps
  BY DEF IInv, WorkTypes, Snap, Snaps, NoSnap
<1>a. /\ lane' \in [Lane -> LaneStates]
      /\ \A k \in Lane : k # l => lane'[k] = lane[k]
      /\ lane'[l].at \in {"recv", "compute"}
      /\ (lane'[l].at = "recv" => lane[l].flag)
      /\ lane'[l].slot = lane[l].slot
      /\ lane'[l].snap = lane[l].snap
      /\ lane'[l].flag = lane[l].flag
  BY <1>t, <1>r DEF IInv, WorkTypes, LaneStates, Snaps, PollAnswered, LaneStep
<1>n. Announced'
  <2>1. UNCHANGED <<host, line, executing, ends, shown>>
    BY DEF PollAnswered, LaneStep
  <2> SUFFICES ASSUME NEW k \in Lane, ~executing, ~ends.exiting,
                      host.at \notin {"drain", "gone"}, line.len > 0
               PROVE  \/ k \in host.unsent
                      \/ shown'[k] = line.view
                      \/ lane'[k].slot = Snap
                      \/ lane'[k].at # "recv" /\ lane'[k].snap = Snap /\ ~lane'[k].flag
    BY <2>1 DEF Announced, Snap
  <2>2. \/ k \in host.unsent
        \/ shown[k] = line.view
        \/ lane[k].slot = Snap
        \/ lane[k].at # "recv" /\ lane[k].snap = Snap /\ ~lane[k].flag
    BY DEF IInv, Announced
  <2>3. CASE k # l
    BY <2>2, <2>3, <1>a, <2>1
  <2>4. CASE k = l
    BY <2>2, <2>4, <1>a, <2>1 DEF PollAnswered
  <2>5. QED
    BY <2>3, <2>4
<1>w. WorkTypes'
  <2>1. UNCHANGED <<line, shown, exec, child, awaiting>>
    BY DEF PollAnswered, LaneStep, command
  <2>2. QED
    BY <1>a, <2>1 DEF IInv, WorkTypes
<1>k. SnapsKnown'
  <2>1. UNCHANGED <<host, line>>
          /\ (lane[l].at = "recv" => lane'[l].snap \in {lane[l].snap, lane[l].slot})
    BY <1>t DEF PollAnswered, LaneStep, LaneStates
  <2>2. lane[l].slot # NoSnap => lane[l].slot.gen \in Nat
    BY <1>t DEF LaneStates, Snaps
  <2>3. lane'[l].slot.gen <= line.gen /\ lane'[l].snap.gen <= line.gen
    BY <1>a, <1>r, <2>1 DEF IInv, SnapsKnown, NoSnap, WorkTypes
  <2>4. /\ lane'[l].slot.gen = line.gen /\ l \notin host.unsent => lane'[l].slot.view = line.view
        /\ lane'[l].at # "recv" /\ ~lane'[l].flag /\ lane'[l].snap.gen = line.gen
             /\ l \notin host.unsent =>
             lane'[l].snap.view = line.view
    BY <1>a, <1>r DEF IInv, SnapsKnown, NoSnap, WorkTypes, PollAnswered
  <2>5. QED
    BY <1>a, <2>1, <2>3, <2>4 DEF IInv, SnapsKnown
<1>1. HostTypes'
  BY DEF IInv, HostTypes, PollAnswered, LaneStep, edit, queues, keys, spent, command
<1>2. InputTypes'
  BY DEF IInv, InputTypes, PollAnswered, LaneStep, edit, queues, keys, spent, command
<1>3. Ticks'
  BY DEF IInv, Ticks, HostRuns, PollAnswered, LaneStep, edit, queues, keys, spent, command
<1>4. CommandKnown'
  BY DEF IInv, CommandKnown, PollAnswered, LaneStep, edit, queues, keys, spent, command
<1>5. NestedTurns'
  BY DEF IInv, NestedTurns, PollAnswered, LaneStep, edit, queues, keys, spent, command
<1>6. BatchKept'
  BY DEF IInv, BatchKept, PollAnswered, LaneStep, edit, queues, keys, spent, command
<1>7. TimeoutSettled'
  BY DEF IInv, TimeoutSettled, HostRuns, PollAnswered, LaneStep, edit, queues, keys, spent,
     command
<1>8. BellRung'
  BY DEF IInv, BellRung, child_is_done, PollAnswered, LaneStep, edit, queues, keys, spent,
     command
<1>9. Drained'
  BY DEF IInv, Drained, PollAnswered, LaneStep, edit, queues, keys, spent, command
<1>10. WorkTypes'
  BY <1>w DEF IInv, WorkTypes, LaneStates, Snaps, NoSnap, PollAnswered, LaneStep, edit,
     queues, keys, spent, command
<1>11. LanesOwed'
  BY <1>t, <1>r, <1>a DEF IInv, LanesOwed, NoSnap, PollAnswered, LaneStep, edit, queues,
     keys, spent, command
<1>12. SnapsKnown'
  BY <1>k DEF IInv, SnapsKnown, NoSnap, PollAnswered, LaneStep, edit, queues, keys, spent,
     command
<1>13. Announced'
  BY <1>n DEF IInv, Announced, Snap, PollAnswered, LaneStep, edit, queues, keys, spent, command
<1>14. QED
  BY <1>1, <1>2, <1>3, <1>4, <1>5, <1>6, <1>7, <1>8, <1>9, <1>10, <1>11, <1>12, <1>13 DEF IInv

LEMMA apply_reactor_batchKeeps ==
  ASSUME IInv, NEW l \in Lane, apply_reactor_batch(l)
  PROVE  IInv'
<1>t. lane[l] \in LaneStates /\ mode[l] \in {"unborn", "owed", "running", "waiting"}
  BY DEF IInv, WorkTypes, HostTypes, Fiber
<1>r. Snap \in Snaps /\ Snap # NoSnap /\ NoSnap \in Snaps
  BY DEF IInv, WorkTypes, Snap, Snaps, NoSnap
<1>a. /\ lane' \in [Lane -> LaneStates]
      /\ \A k \in Lane : k # l => lane'[k] = lane[k]
      /\ lane'[l].at = "recv"
      /\ lane'[l].slot = lane[l].slot
      /\ lane'[l].snap = lane[l].snap
      /\ lane'[l].flag = lane[l].flag
  BY <1>t, <1>r DEF IInv, WorkTypes, LaneStates, Snaps, apply_reactor_batch, LaneStep
<1>b. events' \in Seq(Event) /\ shown' \in [Lane -> Nat]
      /\ (~Declined(l) /\ Applies(l) => shown'[l] = lane[l].snap.view)
      /\ (~Applies(l) \/ Declined(l) => shown'[l] = shown[l])
      /\ \A k \in Lane : k # l => shown'[k] = shown[k]
  <2>1. CASE Declined(l)
    BY <2>1 DEF apply_reactor_batch, IInv, InputTypes, WorkTypes
  <2>2. CASE ~Declined(l)
    <3>1. events' = Append(events, "result") /\ "result" \in Event
      BY <2>2 DEF apply_reactor_batch, Event
    <3>2. events' \in Seq(Event)
      BY <3>1, AppendProperties DEF IInv, InputTypes
    <3>3. lane[l].snap.view \in Nat
      BY <1>t DEF LaneStates, Snaps
    <3>4. QED
      BY <2>2, <3>2, <3>3 DEF apply_reactor_batch, IInv, WorkTypes
  <2>3. QED
    BY <2>1, <2>2
<1>n. Announced'
  <2>1. UNCHANGED <<host, line, executing, ends>>
    BY DEF apply_reactor_batch, LaneStep
  <2> SUFFICES ASSUME NEW k \in Lane, ~executing, ~ends.exiting,
                      host.at \notin {"drain", "gone"}, line.len > 0,
                      k \notin host.unsent
               PROVE  \/ shown'[k] = line.view
                      \/ lane'[k].slot = Snap
                      \/ lane'[k].at # "recv" /\ lane'[k].snap = Snap /\ ~lane'[k].flag
    BY <2>1 DEF Announced, Snap
  <2>2. \/ shown[k] = line.view
        \/ lane[k].slot = Snap
        \/ lane[k].at # "recv" /\ lane[k].snap = Snap /\ ~lane[k].flag
    BY DEF IInv, Announced
  <2>3. CASE k # l
    BY <1>a, <1>b, <2>2, <2>3
  <2>4. CASE k = l /\ ~Declined(l) /\ Applies(l)
    <3>1. lane[l].at # "recv" /\ ~lane[l].flag /\ lane[l].snap.gen = line.gen
      BY <2>4 DEF apply_reactor_batch, Declined, Applies
    <3>2. lane[l].snap.view = line.view
      BY <2>4, <3>1 DEF IInv, SnapsKnown
    <3>3. QED
      BY <1>b, <2>4, <3>2
  <2>5. CASE k = l /\ ~(~Declined(l) /\ Applies(l))
    <3>1. shown'[l] = shown[l] /\ lane'[l].slot = lane[l].slot
      BY <1>a, <1>b, <2>5
    <3>2. ~(lane[l].snap = Snap /\ ~lane[l].flag)
      BY <2>5 DEF Declined, Applies, Snap
    <3>3. QED
      BY <2>2, <2>5, <3>1, <3>2
  <2>6. QED
    BY <2>3, <2>4, <2>5
<1>k. SnapsKnown'
  <2>1. UNCHANGED <<host, line>>
          /\ (lane[l].at = "recv" => lane'[l].snap \in {lane[l].snap, lane[l].slot})
    BY <1>t DEF apply_reactor_batch, LaneStep, LaneStates
  <2>2. lane[l].slot # NoSnap => lane[l].slot.gen \in Nat
    BY <1>t DEF LaneStates, Snaps
  <2>3. lane'[l].slot.gen <= line.gen /\ lane'[l].snap.gen <= line.gen
    BY <1>a, <1>r, <2>1 DEF IInv, SnapsKnown, NoSnap, WorkTypes
  <2>4. /\ lane'[l].slot.gen = line.gen /\ l \notin host.unsent => lane'[l].slot.view = line.view
        /\ lane'[l].at # "recv" /\ ~lane'[l].flag /\ lane'[l].snap.gen = line.gen
             /\ l \notin host.unsent =>
             lane'[l].snap.view = line.view
    BY <1>a, <1>r DEF IInv, SnapsKnown, NoSnap, WorkTypes
  <2>5. QED
    BY <1>a, <2>1, <2>3, <2>4 DEF IInv, SnapsKnown
<1>1. HostTypes'
  BY DEF IInv, HostTypes, apply_reactor_batch, LaneStep, Declined, Applies, edit, queues,
     keys, spent, command
<1>2. Ticks'
  BY DEF IInv, Ticks, HostRuns, apply_reactor_batch, LaneStep, Declined, Applies, edit,
     queues, keys, spent, command
<1>3. CommandKnown'
  BY DEF IInv, CommandKnown, apply_reactor_batch, LaneStep, Declined, Applies, edit, queues,
     keys, spent, command
<1>4. TimeoutSettled'
  BY DEF IInv, TimeoutSettled, HostRuns, apply_reactor_batch, LaneStep, Declined, Applies,
     edit, queues, keys, spent, command
<1>5. BellRung'
  BY DEF IInv, BellRung, child_is_done, apply_reactor_batch, LaneStep, Declined, Applies,
     edit, queues, keys, spent, command
<1>6. Drained'
  BY DEF IInv, Drained, apply_reactor_batch, LaneStep, Declined, Applies, edit, queues, keys,
     spent, command
<1>7. InputTypes'
  BY <1>b DEF IInv, InputTypes, Event, Key, Signal, apply_reactor_batch, LaneStep, Declined,
     Applies, edit, queues, keys, spent, command
<1>8. WorkTypes'
  BY <1>a, <1>b DEF IInv, WorkTypes, LaneStates, Snaps, NoSnap, apply_reactor_batch,
     LaneStep, Declined, Applies, edit, queues, keys, spent, command
<1>9. NestedTurns'
  BY DEF IInv, NestedTurns, Fiber, apply_reactor_batch, LaneStep, Declined, Applies, edit,
     queues, keys, spent, command
<1>10. BatchKept'
  BY LoopAssumption DEF IInv, BatchKept, HostTypes, Ticks, CommandKnown, Fiber, Stages,
     HostRuns, apply_reactor_batch, LaneStep, Declined, Applies, edit, queues, keys, spent,
     command
<1>11. LanesOwed'
  BY <1>t, <1>r, <1>a DEF IInv, LanesOwed, NoSnap, apply_reactor_batch, LaneStep, Declined,
     Applies, edit, queues, keys, spent, command
<1>12. SnapsKnown'
  BY <1>k DEF IInv, SnapsKnown, NoSnap, apply_reactor_batch, LaneStep, Declined, Applies,
     edit, queues, keys, spent, command
<1>13. Announced'
  BY <1>n DEF IInv, Announced, Snap, apply_reactor_batch, LaneStep, Declined, Applies, edit,
     queues, keys, spent, command
<1>14. QED
  BY <1>1, <1>2, <1>3, <1>4, <1>5, <1>6, <1>7, <1>8, <1>9, <1>10, <1>11, <1>12, <1>13 DEF IInv

LEMMA ExecParkKeeps ==
  ASSUME IInv, ExecPark
  PROVE  IInv'
<1>1. InputTypes'
  BY DEF IInv, InputTypes, ExecPark, ExecRuns, ExecStep, command, W!Wait, W!Become, edit,
     queues, keys, spent
<1>2. WorkTypes'
  BY DEF IInv, WorkTypes, ExecPark, ExecRuns, ExecStep, command, W!Wait, W!Become, edit,
     queues, keys, spent
<1>3. BatchKept'
  BY DEF IInv, BatchKept, ExecPark, ExecRuns, ExecStep, command, W!Wait, W!Become, edit,
     queues, keys, spent
<1>4. BellRung'
  BY DEF IInv, BellRung, child_is_done, ExecPark, ExecRuns, ExecStep, command, W!Wait,
     W!Become, edit, queues, keys, spent
<1>5. SnapsKnown'
  BY DEF IInv, SnapsKnown, ExecPark, ExecRuns, ExecStep, command, W!Wait, W!Become, edit,
     queues, keys, spent
<1>6. Announced'
  BY DEF IInv, Announced, Snap, ExecPark, ExecRuns, ExecStep, command, W!Wait, W!Become,
     edit, queues, keys, spent
<1>7. HostTypes'
  BY DEF IInv, HostTypes, Fiber, Stages, ExecPark, ExecRuns, ExecStep, W!Wait, W!Become,
     edit, queues, keys, spent, command
<1>8. Ticks'
  BY DEF IInv, Ticks, HostRuns, Fiber, ExecPark, ExecRuns, ExecStep, W!Wait, W!Become, edit,
     queues, keys, spent, command
<1>9. CommandKnown'
  BY DEF IInv, CommandKnown, ExecPark, ExecRuns, ExecStep, W!Wait, W!Become, edit, queues,
     keys, spent, command
<1>10. NestedTurns'
  BY DEF IInv, NestedTurns, Fiber, ExecPark, ExecRuns, ExecStep, W!Wait, W!Become, edit,
     queues, keys, spent, command
<1>11. TimeoutSettled'
  BY DEF IInv, TimeoutSettled, HostRuns, ExecPark, ExecRuns, ExecStep, W!Wait, W!Become,
     edit, queues, keys, spent, command
<1>12. LanesOwed'
  BY LoopAssumption DEF IInv, LanesOwed, HostTypes, NoSnap, Fiber, Stages, ExecPark,
     ExecRuns, ExecStep, W!Wait, W!Become, edit, queues, keys, spent, command
<1>13. Drained'
  BY DEF IInv, Drained, NoSnap, ExecPark, ExecRuns, ExecStep, W!Wait, W!Become, edit, queues,
     keys, spent, command
<1>14. QED
  BY <1>1, <1>2, <1>3, <1>4, <1>5, <1>6, <1>7, <1>8, <1>9, <1>10, <1>11, <1>12, <1>13 DEF IInv

LEMMA ExecRecvKeeps ==
  ASSUME IInv, ExecRecv
  PROVE  IInv'
<1>1. HostTypes'
  BY DEF IInv, HostTypes, ExecRecv, ExecRuns, ExecStep, edit, queues, keys, spent, command
<1>2. InputTypes'
  BY DEF IInv, InputTypes, ExecRecv, ExecRuns, ExecStep, edit, queues, keys, spent, command
<1>3. Ticks'
  BY DEF IInv, Ticks, HostRuns, ExecRecv, ExecRuns, ExecStep, edit, queues, keys, spent, command
<1>4. NestedTurns'
  BY DEF IInv, NestedTurns, ExecRecv, ExecRuns, ExecStep, edit, queues, keys, spent, command
<1>5. BatchKept'
  BY DEF IInv, BatchKept, ExecRecv, ExecRuns, ExecStep, edit, queues, keys, spent, command
<1>6. BellRung'
  BY DEF IInv, BellRung, child_is_done, ExecRecv, ExecRuns, ExecStep, edit, queues, keys,
     spent, command
<1>7. LanesOwed'
  BY DEF IInv, LanesOwed, ExecRecv, ExecRuns, ExecStep, edit, queues, keys, spent, command
<1>8. SnapsKnown'
  BY DEF IInv, SnapsKnown, ExecRecv, ExecRuns, ExecStep, edit, queues, keys, spent, command
<1>9. Announced'
  BY DEF IInv, Announced, Snap, ExecRecv, ExecRuns, ExecStep, edit, queues, keys, spent, command
<1>10. Drained'
  BY DEF IInv, Drained, ExecRecv, ExecRuns, ExecStep, edit, queues, keys, spent, command
<1>11. WorkTypes'
  BY DEF IInv, WorkTypes, LaneStates, Snaps, NoSnap, ExecRecv, ExecRuns, ExecStep, edit,
     queues, keys, spent, command
<1>12. CommandKnown'
  BY DEF IInv, CommandKnown, ExecRecv, ExecRuns, ExecStep, edit, queues, keys, spent, command
<1>13. TimeoutSettled'
  BY DEF IInv, TimeoutSettled, HostRuns, ExecRecv, ExecRuns, ExecStep, edit, queues, keys,
     spent, command
<1>14. QED
  BY <1>1, <1>2, <1>3, <1>4, <1>5, <1>6, <1>7, <1>8, <1>9, <1>10, <1>11, <1>12, <1>13 DEF IInv

LEMMA ForkKeeps ==
  ASSUME IInv, Fork
  PROVE  IInv'
<1>1. HostTypes'
  BY DEF IInv, HostTypes, Fork, Works, ExecRuns, ExecStep, edit, queues, keys, spent, command
<1>2. InputTypes'
  BY DEF IInv, InputTypes, Fork, Works, ExecRuns, ExecStep, edit, queues, keys, spent, command
<1>3. Ticks'
  BY DEF IInv, Ticks, HostRuns, Fork, Works, ExecRuns, ExecStep, edit, queues, keys, spent,
     command
<1>4. CommandKnown'
  BY DEF IInv, CommandKnown, Fork, Works, ExecRuns, ExecStep, edit, queues, keys, spent, command
<1>5. NestedTurns'
  BY DEF IInv, NestedTurns, Fork, Works, ExecRuns, ExecStep, edit, queues, keys, spent, command
<1>6. BatchKept'
  BY DEF IInv, BatchKept, Fork, Works, ExecRuns, ExecStep, edit, queues, keys, spent, command
<1>7. TimeoutSettled'
  BY DEF IInv, TimeoutSettled, HostRuns, Fork, Works, ExecRuns, ExecStep, edit, queues, keys,
     spent, command
<1>8. LanesOwed'
  BY DEF IInv, LanesOwed, Fork, Works, ExecRuns, ExecStep, edit, queues, keys, spent, command
<1>9. SnapsKnown'
  BY DEF IInv, SnapsKnown, Fork, Works, ExecRuns, ExecStep, edit, queues, keys, spent, command
<1>10. Announced'
  BY DEF IInv, Announced, Snap, Fork, Works, ExecRuns, ExecStep, edit, queues, keys, spent,
     command
<1>11. Drained'
  BY DEF IInv, Drained, Fork, Works, ExecRuns, ExecStep, edit, queues, keys, spent, command
<1>12. WorkTypes'
  BY DEF IInv, WorkTypes, LaneStates, Snaps, NoSnap, Fork, Works, ExecRuns, ExecStep, edit,
     queues, keys, spent, command
<1>13. BellRung'
  BY DEF IInv, BellRung, child_is_done, Fork, Works, ExecRuns, ExecStep, edit, queues, keys,
     spent, command
<1>14. QED
  BY <1>1, <1>2, <1>3, <1>4, <1>5, <1>6, <1>7, <1>8, <1>9, <1>10, <1>11, <1>12, <1>13 DEF IInv

LEMMA IgnoreSigchldKeeps ==
  ASSUME IInv, IgnoreSigchld
  PROVE  IInv'
<1>1. HostTypes'
  BY DEF IInv, HostTypes, IgnoreSigchld, Works, ExecRuns, ExecStep, command, edit, queues,
     keys, spent
<1>2. WorkTypes'
  BY DEF IInv, WorkTypes, IgnoreSigchld, Works, ExecRuns, ExecStep, command, edit, queues,
     keys, spent
<1>3. Ticks'
  BY DEF IInv, Ticks, HostRuns, IgnoreSigchld, Works, ExecRuns, ExecStep, command, edit,
     queues, keys, spent
<1>4. CommandKnown'
  BY DEF IInv, CommandKnown, IgnoreSigchld, Works, ExecRuns, ExecStep, command, edit, queues,
     keys, spent
<1>5. NestedTurns'
  BY DEF IInv, NestedTurns, IgnoreSigchld, Works, ExecRuns, ExecStep, command, edit, queues,
     keys, spent
<1>6. BatchKept'
  BY DEF IInv, BatchKept, IgnoreSigchld, Works, ExecRuns, ExecStep, command, edit, queues,
     keys, spent
<1>7. TimeoutSettled'
  BY DEF IInv, TimeoutSettled, HostRuns, IgnoreSigchld, Works, ExecRuns, ExecStep, command,
     edit, queues, keys, spent
<1>8. LanesOwed'
  BY DEF IInv, LanesOwed, IgnoreSigchld, Works, ExecRuns, ExecStep, command, edit, queues,
     keys, spent
<1>9. SnapsKnown'
  BY DEF IInv, SnapsKnown, IgnoreSigchld, Works, ExecRuns, ExecStep, command, edit, queues,
     keys, spent
<1>10. Announced'
  BY DEF IInv, Announced, Snap, IgnoreSigchld, Works, ExecRuns, ExecStep, command, edit,
     queues, keys, spent
<1>11. Drained'
  BY DEF IInv, Drained, IgnoreSigchld, Works, ExecRuns, ExecStep, command, edit, queues,
     keys, spent
<1>12. InputTypes'
  BY DEF IInv, InputTypes, Event, Key, Signal, IgnoreSigchld, Works, ExecRuns, ExecStep,
     edit, queues, keys, spent, command
<1>13. BellRung'
  BY LoopAssumption DEF IInv, BellRung, HostTypes, Ticks, CommandKnown, child_is_done, Fiber,
     Stages, HostRuns, IgnoreSigchld, Works, ExecRuns, ExecStep, edit, queues, keys, spent,
     command
<1>14. QED
  BY <1>1, <1>2, <1>3, <1>4, <1>5, <1>6, <1>7, <1>8, <1>9, <1>10, <1>11, <1>12, <1>13 DEF IInv

LEMMA RequestStopKeeps ==
  ASSUME IInv, RequestStop
  PROVE  IInv'
<1>1. InputTypes'
  BY DEF IInv, InputTypes, RequestStop, Works, ExecRuns, ExecStep, command, edit, queues,
     keys, spent
<1>2. WorkTypes'
  BY DEF IInv, WorkTypes, RequestStop, Works, ExecRuns, ExecStep, command, edit, queues,
     keys, spent
<1>3. Ticks'
  BY DEF IInv, Ticks, HostRuns, RequestStop, Works, ExecRuns, ExecStep, command, edit,
     queues, keys, spent
<1>4. CommandKnown'
  BY DEF IInv, CommandKnown, RequestStop, Works, ExecRuns, ExecStep, command, edit, queues,
     keys, spent
<1>5. NestedTurns'
  BY DEF IInv, NestedTurns, RequestStop, Works, ExecRuns, ExecStep, command, edit, queues,
     keys, spent
<1>6. BellRung'
  BY DEF IInv, BellRung, child_is_done, RequestStop, Works, ExecRuns, ExecStep, command,
     edit, queues, keys, spent
<1>7. LanesOwed'
  BY DEF IInv, LanesOwed, RequestStop, Works, ExecRuns, ExecStep, command, edit, queues,
     keys, spent
<1>8. SnapsKnown'
  BY DEF IInv, SnapsKnown, RequestStop, Works, ExecRuns, ExecStep, command, edit, queues,
     keys, spent
<1>9. Drained'
  BY DEF IInv, Drained, RequestStop, Works, ExecRuns, ExecStep, command, edit, queues, keys,
     spent
<1>10. HostTypes'
  BY DEF IInv, HostTypes, Fiber, Stages, RequestStop, Works, ExecRuns, ExecStep, edit,
     queues, keys, spent, command
<1>11. BatchKept'
  BY DEF IInv, BatchKept, RequestStop, Works, ExecRuns, ExecStep, edit, queues, keys, spent,
     command
<1>12. TimeoutSettled'
  BY DEF IInv, TimeoutSettled, HostRuns, RequestStop, Works, ExecRuns, ExecStep, edit,
     queues, keys, spent, command
<1>13. Announced'
  BY DEF IInv, Announced, Snap, RequestStop, Works, ExecRuns, ExecStep, edit, queues, keys,
     spent, command
<1>14. QED
  BY <1>1, <1>2, <1>3, <1>4, <1>5, <1>6, <1>7, <1>8, <1>9, <1>10, <1>11, <1>12, <1>13 DEF IInv

LEMMA await_childKeeps ==
  ASSUME IInv, await_child
  PROVE  IInv'
<1>a. \/ mode' = mode /\ exec' = exec /\ awaiting' = awaiting /\ child' \in {child, "none"}
      \/ /\ mode' = [mode EXCEPT ![Exec] = "waiting"]
         /\ exec' = [exec EXCEPT !.at = "await"]
         /\ awaiting' = "child" /\ child' = child
      \/ /\ mode' = mode /\ exec' = [exec EXCEPT !.at = "waitpid"]
         /\ awaiting' = awaiting /\ child' = child
  BY DEF await_child, enlist, Reaped, W!Wait, W!Become
<1>b. exec \in [at : {"recv", "command", "await", "waitpid"}, inbox : BOOLEAN,
                done : BOOLEAN]
      /\ exec.at = "command" /\ mode[Exec] = "running"
      /\ UNCHANGED <<executing, line, shown, lane>>
  BY DEF IInv, WorkTypes, await_child, Works, ExecRuns, ExecStep, edit
<1>c. /\ exec' \in [at : {"recv", "command", "await", "waitpid"}, inbox : BOOLEAN,
                     done : BOOLEAN]
      /\ exec'.inbox = exec.inbox /\ exec'.done = exec.done
  BY <1>a, <1>b
<1>w. WorkTypes'
  BY <1>a, <1>b DEF IInv, WorkTypes
<1>m. mode \in [Fiber -> {"unborn", "owed", "running", "waiting"}] /\ Exec \in Fiber
  BY DEF IInv, HostTypes, Fiber
<1>k. CommandKnown'
  BY <1>a, <1>b, <1>m DEF IInv, CommandKnown
<1>1. InputTypes'
  BY DEF IInv, InputTypes, await_child, ExecRuns, ExecStep, Ready, child_is_done, edit, queues
<1>2. BatchKept'
  BY DEF IInv, BatchKept, await_child, ExecStep, child_is_done, W!Become, queues
<1>3. SnapsKnown'
  BY DEF IInv, SnapsKnown, await_child, Works, ExecRuns, ExecStep, ParksOnChild, Reaped,
     edit, command
<1>4. Announced'
  BY DEF IInv, Announced, Snap, await_child, ExecRuns, ExecStep, edit
<1>5. HostTypes'
  BY LoopAssumption DEF IInv, HostTypes, Ticks, TimeoutSettled, BellRung, Drained, Fiber,
     Snaps, Snap, edit, spent, command, await_child, ExecStep, ParksOnChild, enlist, W!Wait,
     W!Become
<1>6. WorkTypes'
  BY <1>w DEF InputTypes, Ticks, BatchKept, HostRuns, Snaps, Snap, child_is_done, queues,
     Works, Reaped
<1>7. Ticks'
  BY LoopAssumption DEF IInv, Ticks, HostTypes, HostRuns, Fiber, Stages, await_child, Works,
     ExecRuns, ExecStep, ParksOnChild, enlist, Ready, Reaped, W!Wait, W!Become, edit, queues,
     keys, spent, command
<1>8. CommandKnown'
  BY <1>k
<1>9. NestedTurns'
  BY LoopAssumption DEF IInv, NestedTurns, HostTypes, Fiber, Stages, await_child, Works,
     ExecRuns, ExecStep, ParksOnChild, enlist, Ready, Reaped, W!Wait, W!Become, edit, queues,
     keys, spent, command
<1>10. TimeoutSettled'
  BY LoopAssumption DEF IInv, TimeoutSettled, HostTypes, HostRuns, Fiber, Stages,
     await_child, Works, ExecRuns, ExecStep, ParksOnChild, enlist, Ready, Reaped, W!Wait,
     W!Become, edit, queues, keys, spent, command
<1>11. BellRung'
  BY LoopAssumption DEF IInv, BellRung, HostTypes, Ticks, CommandKnown, child_is_done, Fiber,
     Stages, HostRuns, await_child, Works, ExecRuns, ExecStep, ParksOnChild, enlist, Ready,
     Reaped, W!Wait, W!Become, edit, queues, keys, spent, command
<1>12. LanesOwed'
  BY DEF IInv, LanesOwed, HostTypes, Ticks, CommandKnown, WorkTypes, NestedTurns, BatchKept,
     TimeoutSettled, NoSnap, Fiber, Stages, HostRuns, LaneStates, Snaps, await_child, Works,
     ExecRuns, ExecStep, ParksOnChild, enlist, Ready, Reaped, W!Wait, W!Become, edit, queues,
     keys, spent, command
<1>13. Drained'
  BY DEF IInv, Drained, HostTypes, Ticks, CommandKnown, NoSnap, Fiber, Stages, HostRuns,
     await_child, Works, ExecRuns, ExecStep, W!Wait, edit, queues, keys, spent, command
<1>14. QED
  BY <1>1, <1>2, <1>3, <1>4, <1>5, <1>6, <1>7, <1>8, <1>9, <1>10, <1>11, <1>12, <1>13 DEF IInv

LEMMA waitpidKeeps ==
  ASSUME IInv, waitpid
  PROVE  IInv'
<1>1. HostTypes'
  BY DEF IInv, HostTypes, waitpid, ExecRuns, ExecStep, child_is_done, edit, queues, keys,
     spent, command
<1>2. InputTypes'
  BY DEF IInv, InputTypes, waitpid, ExecRuns, ExecStep, child_is_done, edit, queues, keys,
     spent, command
<1>3. Ticks'
  BY DEF IInv, Ticks, HostRuns, waitpid, ExecRuns, ExecStep, child_is_done, edit, queues,
     keys, spent, command
<1>4. NestedTurns'
  BY DEF IInv, NestedTurns, waitpid, ExecRuns, ExecStep, child_is_done, edit, queues, keys,
     spent, command
<1>5. BatchKept'
  BY DEF IInv, BatchKept, waitpid, ExecRuns, ExecStep, child_is_done, edit, queues, keys,
     spent, command
<1>6. LanesOwed'
  BY DEF IInv, LanesOwed, waitpid, ExecRuns, ExecStep, child_is_done, edit, queues, keys,
     spent, command
<1>7. SnapsKnown'
  BY DEF IInv, SnapsKnown, waitpid, ExecRuns, ExecStep, child_is_done, edit, queues, keys,
     spent, command
<1>8. Announced'
  BY DEF IInv, Announced, Snap, waitpid, ExecRuns, ExecStep, child_is_done, edit, queues,
     keys, spent, command
<1>9. Drained'
  BY DEF IInv, Drained, waitpid, ExecRuns, ExecStep, child_is_done, edit, queues, keys,
     spent, command
<1>10. WorkTypes'
  BY DEF IInv, WorkTypes, LaneStates, Snaps, NoSnap, waitpid, ExecRuns, ExecStep, edit,
     queues, keys, spent, command
<1>11. CommandKnown'
  BY DEF IInv, CommandKnown, waitpid, ExecRuns, ExecStep, edit, queues, keys, spent, command
<1>12. TimeoutSettled'
  BY DEF IInv, TimeoutSettled, HostRuns, waitpid, ExecRuns, ExecStep, edit, queues, keys,
     spent, command
<1>13. BellRung'
  BY LoopAssumption DEF IInv, BellRung, HostTypes, Ticks, CommandKnown, child_is_done, Fiber,
     Stages, HostRuns, waitpid, ExecRuns, ExecStep, edit, queues, keys, spent, command
<1>14. QED
  BY <1>1, <1>2, <1>3, <1>4, <1>5, <1>6, <1>7, <1>8, <1>9, <1>10, <1>11, <1>12, <1>13 DEF IInv

LEMMA await_readableKeeps ==
  ASSUME IInv, await_readable
  PROVE  IInv'
<1>a. \/ mode' = mode /\ exec' = exec /\ awaiting' = awaiting /\ child' \in {child, "none"}
      \/ /\ mode' = [mode EXCEPT ![Exec] = "waiting"]
         /\ exec' = [exec EXCEPT !.at = "await"]
         /\ awaiting' = "tty" /\ child' = child
  BY DEF await_readable, enlist, Reaped, W!Wait, W!Become
<1>b. exec \in [at : {"recv", "command", "await", "waitpid"}, inbox : BOOLEAN,
                done : BOOLEAN]
      /\ exec.at = "command" /\ mode[Exec] = "running"
      /\ UNCHANGED <<executing, line, shown, lane>>
  BY DEF IInv, WorkTypes, await_readable, Works, ExecRuns, ExecStep, edit
<1>c. /\ exec' \in [at : {"recv", "command", "await", "waitpid"}, inbox : BOOLEAN,
                     done : BOOLEAN]
      /\ exec'.inbox = exec.inbox /\ exec'.done = exec.done
  BY <1>a, <1>b
<1>w. WorkTypes'
  BY <1>a, <1>b DEF IInv, WorkTypes
<1>m. mode \in [Fiber -> {"unborn", "owed", "running", "waiting"}] /\ Exec \in Fiber
  BY DEF IInv, HostTypes, Fiber
<1>k. CommandKnown'
  BY <1>a, <1>b, <1>m DEF IInv, CommandKnown
<1>1. InputTypes'
  BY DEF IInv, InputTypes, await_readable, Works, ExecStep, enlist, Ready, Reaped, W!Wait,
     queues, keys
<1>2. BatchKept'
  BY DEF IInv, BatchKept, await_readable, ExecRuns, ExecStep, Ready, Readable, queues
<1>3. SnapsKnown'
  BY DEF IInv, SnapsKnown, await_readable, Works, ExecStep, Reaped, edit, keys, spent
<1>4. Announced'
  BY DEF IInv, Announced, Snap, await_readable, ExecStep, Ready, W!Become, edit, keys, spent,
     command
<1>5. HostTypes'
  BY DEF IInv, HostTypes, Fiber, Stages, await_readable, Works, ExecRuns, ExecStep, enlist,
     Ready, Reaped, Readable, W!Wait, W!Become, edit, queues, keys, spent, command
<1>6. WorkTypes'
  BY <1>w
<1>7. Ticks'
  BY LoopAssumption DEF IInv, Ticks, HostTypes, HostRuns, Fiber, Stages, await_readable,
     Works, ExecRuns, ExecStep, enlist, Ready, Reaped, Readable, W!Wait, W!Become, edit, queues,
     keys, spent, command
<1>8. CommandKnown'
  BY <1>k
<1>9. NestedTurns'
  BY LoopAssumption DEF IInv, NestedTurns, HostTypes, Fiber, Stages, await_readable, Works,
     ExecRuns, ExecStep, enlist, Ready, Reaped, Readable, W!Wait, W!Become, edit, queues, keys,
     spent, command
<1>10. TimeoutSettled'
  BY LoopAssumption DEF IInv, TimeoutSettled, HostTypes, HostRuns, Fiber, Stages,
     await_readable, Works, ExecRuns, ExecStep, enlist, Ready, Reaped, Readable, W!Wait,
     W!Become, edit, queues, keys, spent, command
<1>11. BellRung'
  BY DEF IInv, BellRung, child_is_done, await_readable, Works, ExecRuns, ExecStep, enlist,
     Ready, Reaped, Readable, W!Wait, W!Become, edit, queues, keys, spent, command
<1>12. LanesOwed'
  BY LoopAssumption DEF IInv, LanesOwed, HostTypes, NoSnap, Fiber, Stages, await_readable,
     Works, ExecRuns, ExecStep, enlist, Ready, Reaped, Readable, W!Wait, W!Become, edit, queues,
     keys, spent, command
<1>13. Drained'
  BY DEF IInv, Drained, HostTypes, Ticks, CommandKnown, NoSnap, Fiber, Stages, HostRuns,
     await_readable, Works, ExecRuns, ExecStep, enlist, Reaped, W!Wait, edit, queues, keys,
     spent, command
<1>14. QED
  BY <1>1, <1>2, <1>3, <1>4, <1>5, <1>6, <1>7, <1>8, <1>9, <1>10, <1>11, <1>12, <1>13 DEF IInv

LEMMA AwokenKeeps ==
  ASSUME IInv, Awoken
  PROVE  IInv'
<1>1. HostTypes'
  BY DEF IInv, HostTypes, Awoken, ExecRuns, ExecStep, edit, queues, keys, spent, command
<1>2. InputTypes'
  BY DEF IInv, InputTypes, Awoken, ExecRuns, ExecStep, edit, queues, keys, spent, command
<1>3. Ticks'
  BY DEF IInv, Ticks, HostRuns, Awoken, ExecRuns, ExecStep, edit, queues, keys, spent, command
<1>4. NestedTurns'
  BY DEF IInv, NestedTurns, Awoken, ExecRuns, ExecStep, edit, queues, keys, spent, command
<1>5. BatchKept'
  BY DEF IInv, BatchKept, Awoken, ExecRuns, ExecStep, edit, queues, keys, spent, command
<1>6. BellRung'
  BY DEF IInv, BellRung, child_is_done, Awoken, ExecRuns, ExecStep, edit, queues, keys,
     spent, command
<1>7. LanesOwed'
  BY DEF IInv, LanesOwed, Awoken, ExecRuns, ExecStep, edit, queues, keys, spent, command
<1>8. SnapsKnown'
  BY DEF IInv, SnapsKnown, Awoken, ExecRuns, ExecStep, edit, queues, keys, spent, command
<1>9. Announced'
  BY DEF IInv, Announced, Snap, Awoken, ExecRuns, ExecStep, edit, queues, keys, spent, command
<1>10. Drained'
  BY DEF IInv, Drained, Awoken, ExecRuns, ExecStep, edit, queues, keys, spent, command
<1>11. WorkTypes'
  BY DEF IInv, WorkTypes, LaneStates, Snaps, NoSnap, Awoken, ExecRuns, ExecStep, edit,
     queues, keys, spent, command
<1>12. CommandKnown'
  BY DEF IInv, CommandKnown, Awoken, ExecRuns, ExecStep, edit, queues, keys, spent, command
<1>13. TimeoutSettled'
  BY DEF IInv, TimeoutSettled, HostRuns, Awoken, ExecRuns, ExecStep, edit, queues, keys,
     spent, command
<1>14. QED
  BY <1>1, <1>2, <1>3, <1>4, <1>5, <1>6, <1>7, <1>8, <1>9, <1>10, <1>11, <1>12, <1>13 DEF IInv

LEMMA ReadKeyKeeps ==
  ASSUME IInv, ReadKey
  PROVE  IInv'
<1>s. /\ events \in Seq(Event) /\ carried \in Seq(Event) /\ deferred \in Seq(Signal)
      /\ tty \in [keys : Seq(Key), gone : BOOLEAN]
  BY DEF IInv, InputTypes
<1>a. tty' \in [keys : Seq(Key), gone : BOOLEAN]
  <2>1. Tail(tty.keys) \in Seq(Key)
    BY <1>s, HeadTailProperties DEF ReadKey
  <2>2. QED
    BY <1>s, <2>1 DEF ReadKey
<1>1. HostTypes'
  BY DEF IInv, HostTypes, ReadKey, ExecRuns, ExecStep, command, edit, queues, keys, spent
<1>2. WorkTypes'
  BY DEF IInv, WorkTypes, ReadKey, ExecRuns, ExecStep, command, edit, queues, keys, spent
<1>3. Ticks'
  BY DEF IInv, Ticks, HostRuns, ReadKey, ExecRuns, ExecStep, command, edit, queues, keys, spent
<1>4. CommandKnown'
  BY DEF IInv, CommandKnown, ReadKey, ExecRuns, ExecStep, command, edit, queues, keys, spent
<1>5. NestedTurns'
  BY DEF IInv, NestedTurns, ReadKey, ExecRuns, ExecStep, command, edit, queues, keys, spent
<1>6. BatchKept'
  BY DEF IInv, BatchKept, ReadKey, ExecRuns, ExecStep, command, edit, queues, keys, spent
<1>7. TimeoutSettled'
  BY DEF IInv, TimeoutSettled, HostRuns, ReadKey, ExecRuns, ExecStep, command, edit, queues,
     keys, spent
<1>8. BellRung'
  BY DEF IInv, BellRung, child_is_done, ReadKey, ExecRuns, ExecStep, command, edit, queues,
     keys, spent
<1>9. LanesOwed'
  BY DEF IInv, LanesOwed, ReadKey, ExecRuns, ExecStep, command, edit, queues, keys, spent
<1>10. SnapsKnown'
  BY DEF IInv, SnapsKnown, ReadKey, ExecRuns, ExecStep, command, edit, queues, keys, spent
<1>11. Announced'
  BY DEF IInv, Announced, Snap, ReadKey, ExecRuns, ExecStep, command, edit, queues, keys, spent
<1>12. Drained'
  BY DEF IInv, Drained, ReadKey, ExecRuns, ExecStep, command, edit, queues, keys, spent
<1>13. InputTypes'
  BY <1>a DEF ReadKey, ExecStep, IInv, InputTypes, queues
<1>14. QED
  BY <1>1, <1>2, <1>3, <1>4, <1>5, <1>6, <1>7, <1>8, <1>9, <1>10, <1>11, <1>12, <1>13 DEF IInv

LEMMA AnswerKeeps ==
  ASSUME IInv, Answer
  PROVE  IInv'
<1>1. HostTypes'
  BY DEF IInv, HostTypes, Answer, ExecRuns, ExecStep, edit, queues, keys, spent, command
<1>2. InputTypes'
  BY DEF IInv, InputTypes, Answer, ExecRuns, ExecStep, edit, queues, keys, spent, command
<1>3. Ticks'
  BY DEF IInv, Ticks, HostRuns, Answer, ExecRuns, ExecStep, edit, queues, keys, spent, command
<1>4. NestedTurns'
  BY DEF IInv, NestedTurns, Answer, ExecRuns, ExecStep, edit, queues, keys, spent, command
<1>5. BatchKept'
  BY DEF IInv, BatchKept, Answer, ExecRuns, ExecStep, edit, queues, keys, spent, command
<1>6. BellRung'
  BY DEF IInv, BellRung, child_is_done, Answer, ExecRuns, ExecStep, edit, queues, keys,
     spent, command
<1>7. LanesOwed'
  BY DEF IInv, LanesOwed, Answer, ExecRuns, ExecStep, edit, queues, keys, spent, command
<1>8. SnapsKnown'
  BY DEF IInv, SnapsKnown, Answer, ExecRuns, ExecStep, edit, queues, keys, spent, command
<1>9. Announced'
  BY DEF IInv, Announced, Snap, Answer, ExecRuns, ExecStep, edit, queues, keys, spent, command
<1>10. Drained'
  BY DEF IInv, Drained, Answer, ExecRuns, ExecStep, edit, queues, keys, spent, command
<1>11. WorkTypes'
  BY DEF IInv, WorkTypes, LaneStates, Snaps, NoSnap, Answer, ExecRuns, ExecStep, edit,
     queues, keys, spent, command
<1>12. CommandKnown'
  BY DEF IInv, CommandKnown, Answer, ExecRuns, ExecStep, edit, queues, keys, spent, command
<1>13. TimeoutSettled'
  BY LoopAssumption DEF IInv, TimeoutSettled, HostTypes, HostRuns, Fiber, Stages, Answer,
     ExecRuns, ExecStep, edit, queues, keys, spent, command
<1>14. QED
  BY <1>1, <1>2, <1>3, <1>4, <1>5, <1>6, <1>7, <1>8, <1>9, <1>10, <1>11, <1>12, <1>13 DEF IInv

LEMMA BeginTurnKeeps ==
  ASSUME IInv, BeginTurn
  PROVE  IInv'
<1>1. WorkTypes'
  BY DEF IInv, WorkTypes, BeginTurn, HostAt, TurnsGoOn, LineIsBack, Runnable, Parked, edit,
     queues, keys, spent, command
<1>2. CommandKnown'
  BY DEF IInv, CommandKnown, BeginTurn, HostAt, TurnsGoOn, LineIsBack, Runnable, Parked,
     edit, queues, keys, spent, command
<1>3. LanesOwed'
  BY DEF IInv, LanesOwed, BeginTurn, HostAt, TurnsGoOn, LineIsBack, Runnable, Parked, edit,
     queues, keys, spent, command
<1>4. HostTypes'
  BY DEF IInv, HostTypes, Fiber, Stages, BeginTurn, HostAt, TurnsGoOn, LineIsBack, Runnable,
     Parked, edit, queues, keys, spent, command
<1>5. InputTypes'
  BY DEF IInv, InputTypes, Event, Key, Signal, BeginTurn, HostAt, TurnsGoOn, LineIsBack,
     Runnable, Parked, edit, queues, keys, spent, command
<1>6. Ticks'
  BY DEF IInv, Ticks, HostRuns, Fiber, BeginTurn, HostAt, TurnsGoOn, LineIsBack, Runnable,
     Parked, edit, queues, keys, spent, command
<1>7. NestedTurns'
  BY DEF IInv, NestedTurns, Fiber, BeginTurn, HostAt, TurnsGoOn, LineIsBack, Runnable,
     Parked, edit, queues, keys, spent, command
<1>8. BatchKept'
  BY DEF IInv, BatchKept, BeginTurn, HostAt, TurnsGoOn, LineIsBack, Runnable, Parked, edit,
     queues, keys, spent, command
<1>9. TimeoutSettled'
  BY LoopAssumption DEF IInv, TimeoutSettled, HostTypes, Ticks, CommandKnown, HostRuns,
     Fiber, Stages, BeginTurn, HostAt, TurnsGoOn, LineIsBack, Runnable, Parked, edit, queues,
     keys, spent, command
<1>10. BellRung'
  BY DEF IInv, BellRung, child_is_done, BeginTurn, HostAt, TurnsGoOn, LineIsBack, Runnable,
     Parked, edit, queues, keys, spent, command
<1>11. SnapsKnown'
  BY DEF IInv, SnapsKnown, NoSnap, BeginTurn, HostAt, TurnsGoOn, LineIsBack, Runnable,
     Parked, edit, queues, keys, spent, command
<1>12. Announced'
  BY DEF IInv, Announced, Snap, BeginTurn, HostAt, TurnsGoOn, LineIsBack, Runnable, Parked,
     edit, queues, keys, spent, command
<1>13. Drained'
  BY DEF IInv, Drained, NoSnap, BeginTurn, HostAt, TurnsGoOn, LineIsBack, Runnable, Parked,
     edit, queues, keys, spent, command
<1>14. QED
  BY <1>1, <1>2, <1>3, <1>4, <1>5, <1>6, <1>7, <1>8, <1>9, <1>10, <1>11, <1>12, <1>13 DEF IInv

LEMMA LeadKeeps ==
  ASSUME IInv, Lead
  PROVE  IInv'
<1>1. InputTypes'
  BY DEF IInv, InputTypes, Lead, Ticked, edit, queues, keys, spent, command
<1>2. WorkTypes'
  BY DEF IInv, WorkTypes, Lead, Ticked, edit, queues, keys, spent, command
<1>3. CommandKnown'
  BY DEF IInv, CommandKnown, Lead, Ticked, edit, queues, keys, spent, command
<1>4. LanesOwed'
  BY DEF IInv, LanesOwed, Lead, Ticked, edit, queues, keys, spent, command
<1>5. HostTypes'
  BY DEF IInv, HostTypes, Fiber, Stages, Lead, Ticked, edit, queues, keys, spent, command
<1>6. Ticks'
  BY DEF IInv, Ticks, HostRuns, Fiber, Lead, Ticked, edit, queues, keys, spent, command
<1>7. NestedTurns'
  BY DEF IInv, NestedTurns, Fiber, Lead, Ticked, edit, queues, keys, spent, command
<1>8. BatchKept'
  BY DEF IInv, BatchKept, Lead, Ticked, edit, queues, keys, spent, command
<1>9. TimeoutSettled'
  BY DEF IInv, TimeoutSettled, HostRuns, Lead, Ticked, edit, queues, keys, spent, command
<1>10. BellRung'
  BY DEF IInv, BellRung, child_is_done, Lead, Ticked, edit, queues, keys, spent, command
<1>11. SnapsKnown'
  BY DEF IInv, SnapsKnown, NoSnap, Lead, Ticked, edit, queues, keys, spent, command
<1>12. Announced'
  BY DEF IInv, Announced, Snap, Lead, Ticked, edit, queues, keys, spent, command
<1>13. Drained'
  BY DEF IInv, Drained, NoSnap, Lead, Ticked, edit, queues, keys, spent, command
<1>14. QED
  BY <1>1, <1>2, <1>3, <1>4, <1>5, <1>6, <1>7, <1>8, <1>9, <1>10, <1>11, <1>12, <1>13 DEF IInv

LEMMA TrailKeeps ==
  ASSUME IInv, Trail
  PROVE  IInv'
<1>1. InputTypes'
  BY DEF IInv, InputTypes, Trail, Ticked, edit, queues, keys, spent, command
<1>2. WorkTypes'
  BY DEF IInv, WorkTypes, Trail, Ticked, edit, queues, keys, spent, command
<1>3. CommandKnown'
  BY DEF IInv, CommandKnown, Trail, Ticked, edit, queues, keys, spent, command
<1>4. LanesOwed'
  BY DEF IInv, LanesOwed, Trail, Ticked, edit, queues, keys, spent, command
<1>5. HostTypes'
  BY DEF IInv, HostTypes, Fiber, Stages, Trail, Ticked, edit, queues, keys, spent, command
<1>6. Ticks'
  BY DEF IInv, Ticks, HostRuns, Fiber, Trail, Ticked, edit, queues, keys, spent, command
<1>7. NestedTurns'
  BY DEF IInv, NestedTurns, Fiber, Trail, Ticked, edit, queues, keys, spent, command
<1>8. BatchKept'
  BY DEF IInv, BatchKept, Trail, Ticked, edit, queues, keys, spent, command
<1>9. TimeoutSettled'
  BY DEF IInv, TimeoutSettled, HostRuns, Trail, Ticked, edit, queues, keys, spent, command
<1>10. BellRung'
  BY DEF IInv, BellRung, child_is_done, Trail, Ticked, edit, queues, keys, spent, command
<1>11. SnapsKnown'
  BY DEF IInv, SnapsKnown, NoSnap, Trail, Ticked, edit, queues, keys, spent, command
<1>12. Announced'
  BY DEF IInv, Announced, Snap, Trail, Ticked, edit, queues, keys, spent, command
<1>13. Drained'
  BY DEF IInv, Drained, NoSnap, Trail, Ticked, edit, queues, keys, spent, command
<1>14. QED
  BY <1>1, <1>2, <1>3, <1>4, <1>5, <1>6, <1>7, <1>8, <1>9, <1>10, <1>11, <1>12, <1>13 DEF IInv

LEMMA ready_nowKeeps ==
  ASSUME IInv, ready_now
  PROVE  IInv'
<1>1. InputTypes'
  BY DEF IInv, InputTypes, ready_now, HostAt, Polled, Speaks, PollBlocks, NothingOwed,
     Runnable, Parked, Readable, edit, queues, keys, spent, command
<1>2. WorkTypes'
  BY DEF IInv, WorkTypes, ready_now, HostAt, Polled, Speaks, PollBlocks, NothingOwed,
     Runnable, Parked, Readable, edit, queues, keys, spent, command
<1>3. CommandKnown'
  BY DEF IInv, CommandKnown, ready_now, HostAt, Polled, Speaks, PollBlocks, NothingOwed,
     Runnable, Parked, Readable, edit, queues, keys, spent, command
<1>4. LanesOwed'
  BY DEF IInv, LanesOwed, ready_now, HostAt, Polled, Speaks, PollBlocks, NothingOwed,
     Runnable, Parked, Readable, edit, queues, keys, spent, command
<1>5. HostTypes'
  BY DEF IInv, HostTypes, Fiber, Stages, ready_now, HostAt, Polled, Speaks, PollBlocks,
     NothingOwed, Runnable, Parked, Readable, edit, queues, keys, spent, command
<1>6. Ticks'
  BY DEF IInv, Ticks, HostRuns, Fiber, ready_now, HostAt, Polled, Speaks, PollBlocks,
     NothingOwed, Runnable, Parked, Readable, edit, queues, keys, spent, command
<1>7. NestedTurns'
  BY DEF IInv, NestedTurns, Fiber, ready_now, HostAt, Polled, Speaks, PollBlocks,
     NothingOwed, Runnable, Parked, Readable, edit, queues, keys, spent, command
<1>8. BatchKept'
  BY DEF IInv, BatchKept, ready_now, HostAt, Polled, Speaks, PollBlocks, NothingOwed,
     Runnable, Parked, Readable, edit, queues, keys, spent, command
<1>9. TimeoutSettled'
  BY DEF IInv, TimeoutSettled, HostRuns, ready_now, HostAt, Polled, Speaks, PollBlocks,
     NothingOwed, Runnable, Parked, Readable, edit, queues, keys, spent, command
<1>10. BellRung'
  BY DEF IInv, BellRung, child_is_done, ready_now, HostAt, Polled, Speaks, PollBlocks,
     NothingOwed, Runnable, Parked, Readable, edit, queues, keys, spent, command
<1>11. SnapsKnown'
  BY DEF IInv, SnapsKnown, NoSnap, ready_now, HostAt, Polled, Speaks, PollBlocks,
     NothingOwed, Runnable, Parked, Readable, edit, queues, keys, spent, command
<1>12. Announced'
  BY DEF IInv, Announced, Snap, ready_now, HostAt, Polled, Speaks, PollBlocks, NothingOwed,
     Runnable, Parked, Readable, edit, queues, keys, spent, command
<1>13. Drained'
  BY DEF IInv, Drained, NoSnap, ready_now, HostAt, Polled, Speaks, PollBlocks, NothingOwed,
     Runnable, Parked, Readable, edit, queues, keys, spent, command
<1>14. QED
  BY <1>1, <1>2, <1>3, <1>4, <1>5, <1>6, <1>7, <1>8, <1>9, <1>10, <1>11, <1>12, <1>13 DEF IInv

LEMMA PollFailsKeeps ==
  ASSUME IInv, PollFails
  PROVE  IInv'
<1>1. InputTypes'
  BY DEF IInv, InputTypes, PollFails, HostAt, AfterFailure, has_execution_fiber_mid_command,
     edit, queues, keys, spent, command
<1>2. WorkTypes'
  BY DEF IInv, WorkTypes, PollFails, HostAt, AfterFailure, has_execution_fiber_mid_command,
     edit, queues, keys, spent, command
<1>3. CommandKnown'
  BY DEF IInv, CommandKnown, PollFails, HostAt, AfterFailure,
     has_execution_fiber_mid_command, edit, queues, keys, spent, command
<1>4. LanesOwed'
  BY DEF IInv, LanesOwed, PollFails, HostAt, AfterFailure, has_execution_fiber_mid_command,
     edit, queues, keys, spent, command
<1>5. HostTypes'
  BY DEF IInv, HostTypes, Fiber, Stages, PollFails, HostAt, AfterFailure,
     has_execution_fiber_mid_command, edit, queues, keys, spent, command
<1>6. Ticks'
  BY DEF IInv, Ticks, HostRuns, Fiber, PollFails, HostAt, AfterFailure,
     has_execution_fiber_mid_command, edit, queues, keys, spent, command
<1>7. NestedTurns'
  BY DEF IInv, NestedTurns, Fiber, PollFails, HostAt, AfterFailure,
     has_execution_fiber_mid_command, edit, queues, keys, spent, command
<1>8. BatchKept'
  BY DEF IInv, BatchKept, PollFails, HostAt, AfterFailure, has_execution_fiber_mid_command,
     edit, queues, keys, spent, command
<1>9. TimeoutSettled'
  BY DEF IInv, TimeoutSettled, HostRuns, PollFails, HostAt, AfterFailure,
     has_execution_fiber_mid_command, edit, queues, keys, spent, command
<1>10. BellRung'
  BY DEF IInv, BellRung, child_is_done, PollFails, HostAt, AfterFailure,
     has_execution_fiber_mid_command, edit, queues, keys, spent, command
<1>11. SnapsKnown'
  BY DEF IInv, SnapsKnown, NoSnap, PollFails, HostAt, AfterFailure,
     has_execution_fiber_mid_command, edit, queues, keys, spent, command
<1>12. Announced'
  BY DEF IInv, Announced, Snap, PollFails, HostAt, AfterFailure,
     has_execution_fiber_mid_command, edit, queues, keys, spent, command
<1>13. Drained'
  BY DEF IInv, Drained, NoSnap, PollFails, HostAt, AfterFailure,
     has_execution_fiber_mid_command, edit, queues, keys, spent, command
<1>14. QED
  BY <1>1, <1>2, <1>3, <1>4, <1>5, <1>6, <1>7, <1>8, <1>9, <1>10, <1>11, <1>12, <1>13 DEF IInv

LEMMA drain_ttyKeeps ==
  ASSUME IInv, drain_tty
  PROVE  IInv'
<1>s. /\ events \in Seq(Event) /\ carried \in Seq(Event) /\ deferred \in Seq(Signal)
      /\ tty \in [keys : Seq(Key), gone : BOOLEAN]
  BY DEF IInv, InputTypes
<1>e. /\ ends \in [exiting : BOOLEAN, stopping : BOOLEAN, pollFailed : BOOLEAN]
      /\ UNCHANGED <<mode, executing, line, lane, shown, typed, taken, carried, deferred, sig, unanswered>>
  BY DEF IInv, HostTypes, drain_tty, edit, queues, keys, spent
<1>a. /\ ends' \in [exiting : BOOLEAN, stopping : BOOLEAN, pollFailed : BOOLEAN]
      /\ ends.exiting => ends'.exiting
      /\ events' \in Seq(Event)
      /\ tty' \in [keys : Seq(Key), gone : BOOLEAN]
  <2>1. CASE "tty" \in host.ready
    <3>1. <<>> \in Seq(Key) /\ tty.gone \in BOOLEAN /\ ends.exiting \in BOOLEAN
      BY <1>s, <1>e
    <3>2. /\ ends' = [ends EXCEPT !.exiting = @ \/ tty.gone]
          /\ tty' = [tty EXCEPT !.keys = <<>>]
          /\ events' = events \o tty.keys \o (IF tty.gone THEN <<"HUP">> ELSE <<>>)
      BY <2>1 DEF drain_tty, Unread
    <3>3. tty.keys \in Seq(Event) /\ (IF tty.gone THEN <<"HUP">> ELSE <<>>) \in Seq(Event)
      <4>1. tty.keys \in Seq(Event)
        BY <1>s DEF Event
      <4>2. <<>> \in Seq(Event) /\ <<"HUP">> \in Seq(Event)
        BY DEF Event
      <4>3. QED
        BY <4>1, <4>2
    <3>4. events' \in Seq(Event)
      BY <1>s, <3>2, <3>3, ConcatProperties
    <3>5. (ends.exiting \/ tty.gone) \in BOOLEAN
      OBVIOUS
    <3>6. /\ ends' \in [exiting : BOOLEAN, stopping : BOOLEAN, pollFailed : BOOLEAN]
          /\ ends'.exiting = (ends.exiting \/ tty.gone)
      BY <1>e, <3>2, <3>5
    <3>7. QED
      BY <1>s, <3>1, <3>2, <3>4, <3>6
  <2>2. CASE "tty" \notin host.ready
    BY <1>s, <1>e, <2>2 DEF drain_tty
  <2>3. QED
    BY <2>1, <2>2
<1>h. /\ host' = [host EXCEPT !.at = "signals"] /\ host.at = "tty" /\ HostRuns
      /\ "tty" \notin host.ready => UNCHANGED <<events, ends>>
  BY DEF drain_tty, HostAt
<1>n. Announced'
  BY <1>h, <1>a, <1>e DEF IInv, Announced, HostTypes, Snap
<1>x. HostTypes'
  BY <1>h, <1>a, <1>e DEF IInv, HostTypes, Stages
<1>y. InputTypes'
  BY <1>h, <1>a, <1>e DEF IInv, InputTypes
<1>1. WorkTypes'
  BY DEF IInv, WorkTypes, drain_tty, HostAt, Unread, edit, queues, keys, spent, command
<1>2. CommandKnown'
  BY DEF IInv, CommandKnown, drain_tty, HostAt, Unread, edit, queues, keys, spent, command
<1>3. LanesOwed'
  BY DEF IInv, LanesOwed, drain_tty, HostAt, Unread, edit, queues, keys, spent, command
<1>4. HostTypes'
  BY <1>x DEF IInv, HostTypes, Fiber, Stages, drain_tty, HostAt, Unread, edit, queues, keys,
     spent, command
<1>5. InputTypes'
  BY <1>y DEF IInv, InputTypes, Event, Key, Signal, drain_tty, HostAt, Unread, edit, queues,
     keys, spent, command
<1>6. Ticks'
  BY DEF IInv, Ticks, HostRuns, Fiber, drain_tty, HostAt, Unread, edit, queues, keys, spent,
     command
<1>7. NestedTurns'
  BY DEF IInv, NestedTurns, Fiber, drain_tty, HostAt, Unread, edit, queues, keys, spent, command
<1>8. BatchKept'
  BY LoopAssumption DEF IInv, BatchKept, HostTypes, Fiber, Stages, drain_tty, HostAt, Unread,
     edit, queues, keys, spent, command
<1>9. TimeoutSettled'
  BY DEF IInv, TimeoutSettled, HostRuns, drain_tty, HostAt, Unread, edit, queues, keys,
     spent, command
<1>10. BellRung'
  BY DEF IInv, BellRung, child_is_done, drain_tty, HostAt, Unread, edit, queues, keys, spent,
     command
<1>11. SnapsKnown'
  BY DEF IInv, SnapsKnown, NoSnap, drain_tty, HostAt, Unread, edit, queues, keys, spent, command
<1>12. Announced'
  BY <1>n DEF IInv, Announced, Snap, drain_tty, HostAt, Unread, edit, queues, keys, spent,
     command
<1>13. Drained'
  BY DEF IInv, Drained, NoSnap, drain_tty, HostAt, Unread, edit, queues, keys, spent, command
<1>14. QED
  BY <1>1, <1>2, <1>3, <1>4, <1>5, <1>6, <1>7, <1>8, <1>9, <1>10, <1>11, <1>12, <1>13 DEF IInv

LEMMA DrainPipeKeeps ==
  ASSUME IInv, DrainPipe
  PROVE  IInv'
<1>1. WorkTypes'
  BY DEF IInv, WorkTypes, DrainPipe, HostAt, edit, queues, keys, spent, command
<1>2. CommandKnown'
  BY DEF IInv, CommandKnown, DrainPipe, HostAt, edit, queues, keys, spent, command
<1>3. LanesOwed'
  BY DEF IInv, LanesOwed, DrainPipe, HostAt, edit, queues, keys, spent, command
<1>4. HostTypes'
  BY DEF IInv, HostTypes, Fiber, Stages, DrainPipe, HostAt, edit, queues, keys, spent, command
<1>5. InputTypes'
  BY DEF IInv, InputTypes, Event, Key, Signal, DrainPipe, HostAt, edit, queues, keys, spent,
     command
<1>6. Ticks'
  BY DEF IInv, Ticks, HostRuns, Fiber, DrainPipe, HostAt, edit, queues, keys, spent, command
<1>7. NestedTurns'
  BY DEF IInv, NestedTurns, Fiber, DrainPipe, HostAt, edit, queues, keys, spent, command
<1>8. BatchKept'
  BY DEF IInv, BatchKept, DrainPipe, HostAt, edit, queues, keys, spent, command
<1>9. TimeoutSettled'
  BY DEF IInv, TimeoutSettled, HostRuns, DrainPipe, HostAt, edit, queues, keys, spent, command
<1>10. BellRung'
  BY LoopAssumption DEF IInv, HostTypes, InputTypes, WorkTypes, Ticks, CommandKnown,
     NestedTurns, BatchKept, TimeoutSettled, BellRung, LanesOwed, SnapsKnown, Announced,
     Drained, HostRuns, Fiber, Stages, Snaps, LaneStates, Key, Signal, Event, NoSnap, Snap,
     child_is_done, edit, queues, keys, spent, command, DrainPipe, HostAt
<1>11. SnapsKnown'
  BY DEF IInv, SnapsKnown, NoSnap, DrainPipe, HostAt, edit, queues, keys, spent, command
<1>12. Announced'
  BY DEF IInv, Announced, Snap, DrainPipe, HostAt, edit, queues, keys, spent, command
<1>13. Drained'
  BY DEF IInv, Drained, NoSnap, DrainPipe, HostAt, edit, queues, keys, spent, command
<1>14. QED
  BY <1>1, <1>2, <1>3, <1>4, <1>5, <1>6, <1>7, <1>8, <1>9, <1>10, <1>11, <1>12, <1>13 DEF IInv

LEMMA TakeSignalsKeeps ==
  ASSUME IInv, TakeSignals
  PROVE  IInv'
<1>s. /\ events \in Seq(Event) /\ carried \in Seq(Event) /\ deferred \in Seq(Signal)
      /\ tty \in [keys : Seq(Key), gone : BOOLEAN]
  BY DEF IInv, InputTypes
<1>a. \A signals \in SUBSET Signal : ByNumber(signals) \in Seq(Signal)
  BY ByNumberIsSeq
<1>b. sig \in [pending : SUBSET Signal, byte : BOOLEAN, caught : BOOLEAN]
      /\ UNCHANGED <<tty, typed, taken, carried, unanswered>>
  BY DEF IInv, InputTypes, TakeSignals, keys, spent
<1>c. sig' \in [pending : SUBSET Signal, byte : BOOLEAN, caught : BOOLEAN]
  BY <1>b DEF TakeSignals
<1>d. events' \in Seq(Event) /\ deferred' \in Seq(Signal)
  <2>1. CASE HoldsBack
    <3>1. ByNumber(sig.pending \ ToSet(deferred)) \in Seq(Signal)
      BY <1>a, <1>b
    <3>2. QED
      <4>1. deferred' = deferred \o ByNumber(sig.pending \ ToSet(deferred)) /\ events' = events
        BY <2>1 DEF TakeSignals, Held
      <4>2. QED
        BY <1>s, <3>1, <4>1, ConcatProperties
  <2>2. CASE ~HoldsBack
    <3>1. ByNumber(sig.pending) \in Seq(Event)
      BY <1>a, <1>b DEF Event
    <3>2. QED
      <4>1. events' = events \o ByNumber(sig.pending) /\ deferred' = deferred
        BY <2>2 DEF TakeSignals, Pending
      <4>2. QED
        BY <1>s, <3>1, <4>1, ConcatProperties
  <2>3. QED
    BY <2>1, <2>2
<1>y. InputTypes'
  BY <1>b, <1>c, <1>d DEF IInv, InputTypes
<1>1. WorkTypes'
  BY DEF IInv, WorkTypes, TakeSignals, HostAt, HoldsBack, Held, ByNumber, Pending, edit,
     queues, keys, spent, command
<1>2. CommandKnown'
  BY DEF IInv, CommandKnown, TakeSignals, HostAt, HoldsBack, Held, ByNumber, Pending, edit,
     queues, keys, spent, command
<1>3. LanesOwed'
  BY DEF IInv, LanesOwed, TakeSignals, HostAt, HoldsBack, Held, ByNumber, Pending, edit,
     queues, keys, spent, command
<1>4. HostTypes'
  BY DEF IInv, HostTypes, Fiber, Stages, TakeSignals, HostAt, HoldsBack, Held, ByNumber,
     Pending, edit, queues, keys, spent, command
<1>5. InputTypes'
  BY <1>y DEF IInv, InputTypes, Event, Key, Signal, TakeSignals, HostAt, HoldsBack, Held,
     ByNumber, Pending, edit, queues, keys, spent, command
<1>6. Ticks'
  BY DEF IInv, Ticks, HostRuns, Fiber, TakeSignals, HostAt, HoldsBack, Held, ByNumber,
     Pending, edit, queues, keys, spent, command
<1>7. NestedTurns'
  BY DEF IInv, NestedTurns, Fiber, TakeSignals, HostAt, HoldsBack, Held, ByNumber, Pending,
     edit, queues, keys, spent, command
<1>8. BatchKept'
  BY DEF IInv, BatchKept, TakeSignals, HostAt, HoldsBack, Held, ByNumber, Pending, edit,
     queues, keys, spent, command
<1>9. TimeoutSettled'
  BY DEF IInv, TimeoutSettled, HostRuns, TakeSignals, HostAt, HoldsBack, Held, ByNumber,
     Pending, edit, queues, keys, spent, command
<1>10. BellRung'
  BY DEF IInv, BellRung, child_is_done, TakeSignals, HostAt, HoldsBack, Held, ByNumber,
     Pending, edit, queues, keys, spent, command
<1>11. SnapsKnown'
  BY DEF IInv, SnapsKnown, NoSnap, TakeSignals, HostAt, HoldsBack, Held, ByNumber, Pending,
     edit, queues, keys, spent, command
<1>12. Announced'
  BY DEF IInv, Announced, Snap, TakeSignals, HostAt, HoldsBack, Held, ByNumber, Pending,
     edit, queues, keys, spent, command
<1>13. Drained'
  BY DEF IInv, Drained, NoSnap, TakeSignals, HostAt, HoldsBack, Held, ByNumber, Pending,
     edit, queues, keys, spent, command
<1>14. QED
  BY <1>1, <1>2, <1>3, <1>4, <1>5, <1>6, <1>7, <1>8, <1>9, <1>10, <1>11, <1>12, <1>13 DEF IInv

LEMMA service_awaitsKeeps ==
  ASSUME IInv, service_awaits
  PROVE  IInv'
<1>m. /\ mode \in [Fiber -> {"unborn", "owed", "running", "waiting"}] /\ Exec \in Fiber
      /\ Lane \subseteq Fiber /\ Exec \notin Lane
      /\ host \in [at : Stages, zero : BOOLEAN, todo : SUBSET Fiber,
                   sliced : BOOLEAN, outer : BOOLEAN,
                   ready : SUBSET {"tty", "signal"}, unsent : SUBSET Lane]
  BY LoopAssumption DEF IInv, HostTypes, Fiber
<1>a. /\ host' = [host EXCEPT !.at = "walk"] /\ host.at = "awaits" /\ HostRuns
      /\ UNCHANGED <<ends, executing, events, exec, lane, line, shown>>
      /\ \/ UNCHANGED <<mode, child, awaiting>>
         \/ /\ mode[Exec] = "waiting" /\ mode' = [mode EXCEPT ![Exec] = "owed"]
            /\ awaiting # "none" /\ awaiting' = "none"
            /\ child' \in {child, "none"}
  BY DEF service_awaits, HostAt, Ready, Reaped, EntryGone, edit, queues, W!Wake, W!Become
<1>b. /\ host' \in [at : Stages, zero : BOOLEAN, todo : SUBSET Fiber,
                    sliced : BOOLEAN, outer : BOOLEAN,
                    ready : SUBSET {"tty", "signal"}, unsent : SUBSET Lane]
      /\ host'.at = "walk" /\ host'.todo = {} /\ host'.unsent = {}
  BY <1>a, <1>m DEF Stages, IInv, Ticks
<1>c. /\ mode' \in [Fiber -> {"unborn", "owed", "running", "waiting"}]
      /\ \A f \in Fiber : mode'[f] # "running"
      /\ \A l \in Lane : mode'[l] = mode[l]
      /\ mode'[Exec] # "unborn" <=> mode[Exec] # "unborn"
  BY <1>a, <1>m DEF HostRuns
<1>n1. HostTypes'
  BY <1>a, <1>b, <1>c DEF IInv, HostTypes
<1>n2. Ticks'
  BY <1>b, <1>c DEF Ticks, HostRuns
<1>n3. CommandKnown'
  <2>1. CASE UNCHANGED <<mode, child, awaiting>>
    BY <1>a, <2>1 DEF IInv, CommandKnown
  <2>2. CASE ~(UNCHANGED <<mode, child, awaiting>>)
    <3>1. /\ exec.at = "await" /\ executing /\ ~exec.inbox /\ ~exec.done
          /\ mode'[Exec] = "owed" /\ awaiting' = "none"
      BY <1>a, <1>m, <2>2 DEF IInv, CommandKnown
    <3>2. QED
      BY <1>a, <3>1 DEF CommandKnown
  <2>3. QED
    BY <2>1, <2>2
<1>n4. NestedTurns'
  BY <1>a, <1>b, <1>c, <1>m DEF IInv, NestedTurns
<1>n5. LanesOwed'
  BY <1>a, <1>c DEF IInv, LanesOwed
<1>1. InputTypes'
  BY DEF IInv, InputTypes, service_awaits, HostAt, Ready, Reaped, EntryGone, Readable,
     child_is_done, W!Wake, W!Become, edit, queues, keys, spent, command
<1>2. HostTypes'
  BY <1>n1 DEF IInv, HostTypes, Fiber, Stages, service_awaits, HostAt, Ready, Reaped,
     EntryGone, Readable, W!Wake, W!Become, edit, queues, keys, spent, command
<1>3. WorkTypes'
  BY DEF IInv, WorkTypes, LaneStates, Snaps, NoSnap, service_awaits, HostAt, Ready, Reaped,
     EntryGone, Readable, W!Wake, W!Become, edit, queues, keys, spent, command
<1>4. Ticks'
  BY <1>n2 DEF IInv, Ticks, HostRuns, Fiber, service_awaits, HostAt, Ready, Reaped,
     EntryGone, Readable, W!Wake, W!Become, edit, queues, keys, spent, command
<1>5. CommandKnown'
  BY <1>n3 DEF IInv, CommandKnown, service_awaits, HostAt, Ready, Reaped, EntryGone,
     Readable, W!Wake, W!Become, edit, queues, keys, spent, command
<1>6. NestedTurns'
  BY <1>n4 DEF IInv, NestedTurns, Fiber, service_awaits, HostAt, Ready, Reaped, EntryGone,
     Readable, W!Wake, W!Become, edit, queues, keys, spent, command
<1>7. BatchKept'
  BY DEF IInv, BatchKept, service_awaits, HostAt, Ready, Reaped, EntryGone, Readable, W!Wake,
     W!Become, edit, queues, keys, spent, command
<1>8. TimeoutSettled'
  BY DEF IInv, TimeoutSettled, HostRuns, service_awaits, HostAt, Ready, Reaped, EntryGone,
     Readable, W!Wake, W!Become, edit, queues, keys, spent, command
<1>9. BellRung'
  BY DEF IInv, BellRung, child_is_done, service_awaits, HostAt, Ready, Reaped, EntryGone,
     Readable, W!Wake, W!Become, edit, queues, keys, spent, command
<1>10. LanesOwed'
  BY <1>n5 DEF IInv, LanesOwed, NoSnap, service_awaits, HostAt, Ready, Reaped, EntryGone,
     Readable, W!Wake, W!Become, edit, queues, keys, spent, command
<1>11. SnapsKnown'
  BY DEF IInv, SnapsKnown, NoSnap, service_awaits, HostAt, Ready, Reaped, EntryGone,
     Readable, W!Wake, W!Become, edit, queues, keys, spent, command
<1>12. Announced'
  BY DEF IInv, Announced, Snap, service_awaits, HostAt, Ready, Reaped, EntryGone, Readable,
     W!Wake, W!Become, edit, queues, keys, spent, command
<1>13. Drained'
  BY DEF IInv, Drained, NoSnap, service_awaits, HostAt, Ready, Reaped, EntryGone, Readable,
     W!Wake, W!Become, edit, queues, keys, spent, command
<1>14. QED
  BY <1>1, <1>2, <1>3, <1>4, <1>5, <1>6, <1>7, <1>8, <1>9, <1>10, <1>11, <1>12, <1>13 DEF IInv

LEMMA WalkKeeps ==
  ASSUME IInv, Walk
  PROVE  IInv'
<1>m. /\ mode \in [Fiber -> {"unborn", "owed", "running", "waiting"}] /\ Exec \in Fiber
      /\ Lane \subseteq Fiber /\ Exec \notin Lane
      /\ host \in [at : Stages, zero : BOOLEAN, todo : SUBSET Fiber,
                   sliced : BOOLEAN, outer : BOOLEAN,
                   ready : SUBSET {"tty", "signal"}, unsent : SUBSET Lane]
  BY LoopAssumption DEF IInv, HostTypes, Fiber
<1>s. /\ events \in Seq(Event) /\ carried \in Seq(Event) /\ deferred \in Seq(Signal)
      /\ tty \in [keys : Seq(Key), gone : BOOLEAN]
  BY DEF IInv, InputTypes
<1>r. Runnable \in SUBSET Fiber /\ (executing => Runnable \cap Lane = {})
  BY DEF Runnable, Parked, Walk, HostAt
<1>a. /\ host.at = "walk" /\ HostRuns
      /\ UNCHANGED <<mode, ends, executing, tty, typed, taken, deferred, sig, line, shown,
                     lane, exec, child, awaiting, unanswered>>
  BY DEF Walk, HostAt, edit, keys, command, spent
<1>b. host.unsent = {} /\ host.todo = {}
  BY <1>a DEF IInv, Ticks
<1>c. \/ /\ events # <<>> /\ carried' = events /\ events' = <<>>
         /\ host' = [host EXCEPT !.at = "each"]
      \/ /\ events = <<>> /\ carried' = carried /\ events' = events
         /\ \/ host' = [host EXCEPT !.at = "top"]
            \/ /\ ~ends.exiting
               /\ host' = [host EXCEPT !.at = "trail", !.todo = Runnable, !.sliced = TRUE]
  BY DEF Walk
<1>d. /\ host' \in [at : Stages, zero : BOOLEAN, todo : SUBSET Fiber,
                    sliced : BOOLEAN, outer : BOOLEAN,
                    ready : SUBSET {"tty", "signal"}, unsent : SUBSET Lane]
      /\ host'.unsent = {}
      /\ host'.at = "each" => events # <<>> /\ events' = <<>> /\ host'.todo = {}
      /\ host'.at = "top" => events = <<>> /\ events' = <<>> /\ host'.todo = {}
                             /\ carried' = carried
      /\ host'.at = "trail" => host'.todo = Runnable /\ carried' = carried /\ events' = events
      /\ host'.at \in {"each", "top", "trail"}
  <2>1. CASE /\ events # <<>> /\ carried' = events /\ events' = <<>>
             /\ host' = [host EXCEPT !.at = "each"]
    BY <2>1, <1>b, <1>m DEF Stages
  <2>2. CASE /\ events = <<>> /\ carried' = carried /\ events' = events
             /\ host' = [host EXCEPT !.at = "top"]
    BY <2>2, <1>b, <1>m DEF Stages
  <2>3. CASE /\ events = <<>> /\ carried' = carried /\ events' = events
             /\ host' = [host EXCEPT !.at = "trail", !.todo = Runnable, !.sliced = TRUE]
    BY <2>3, <1>b, <1>m, <1>r DEF Stages
  <2> QED BY <1>c, <2>1, <2>2, <2>3
<1>n1. HostTypes'
  BY <1>a, <1>d DEF IInv, HostTypes
<1>n2. InputTypes'
  <2>1. <<>> \in Seq(Event)
    BY EmptySeq
  <2>2. events' \in {events, <<>>} /\ carried' \in {events, carried}
    BY <1>c
  <2>3. events' \in Seq(Event) /\ carried' \in Seq(Event)
    BY <1>s, <2>1, <2>2
  <2>4. QED
    BY <1>a, <2>3 DEF IInv, InputTypes
<1>n3. Ticks'
  BY <1>a, <1>d DEF IInv, Ticks, HostRuns
<1>n4. NestedTurns'
  BY <1>a, <1>c, <1>d, <1>r DEF IInv, NestedTurns
<1>n5. TimeoutSettled'
  BY <1>d DEF TimeoutSettled
<1>n6. Drained'
  BY <1>d DEF Drained
<1>n7. BatchKept'
  BY <1>a, <1>c, <1>d DEF IInv, BatchKept
<1>1. WorkTypes'
  BY DEF IInv, WorkTypes, Walk, HostAt, Runnable, Parked, edit, queues, keys, spent, command
<1>2. CommandKnown'
  BY DEF IInv, CommandKnown, Walk, HostAt, Runnable, Parked, edit, queues, keys, spent, command
<1>3. LanesOwed'
  BY DEF IInv, LanesOwed, Walk, HostAt, Runnable, Parked, edit, queues, keys, spent, command
<1>4. HostTypes'
  BY <1>n1 DEF IInv, HostTypes, Fiber, Stages, Walk, HostAt, Runnable, Parked, edit, queues,
     keys, spent, command
<1>5. InputTypes'
  BY <1>n2 DEF IInv, InputTypes, Event, Key, Signal, Walk, HostAt, Runnable, Parked, edit,
     queues, keys, spent, command
<1>6. Ticks'
  BY <1>n3 DEF IInv, Ticks, HostRuns, Fiber, Walk, HostAt, Runnable, Parked, edit, queues,
     keys, spent, command
<1>7. NestedTurns'
  BY <1>n4 DEF IInv, NestedTurns, Fiber, Walk, HostAt, Runnable, Parked, edit, queues, keys,
     spent, command
<1>8. BatchKept'
  BY <1>n7 DEF IInv, BatchKept, Walk, HostAt, Runnable, Parked, edit, queues, keys, spent,
     command
<1>9. TimeoutSettled'
  BY <1>n5 DEF IInv, TimeoutSettled, HostRuns, Walk, HostAt, Runnable, Parked, edit, queues,
     keys, spent, command
<1>10. BellRung'
  BY DEF IInv, BellRung, child_is_done, Walk, HostAt, Runnable, Parked, edit, queues, keys,
     spent, command
<1>11. SnapsKnown'
  BY LoopAssumption DEF IInv, SnapsKnown, HostTypes, Ticks, CommandKnown, NoSnap, Fiber,
     Stages, HostRuns, Walk, HostAt, Runnable, Parked, edit, queues, keys, spent, command
<1>12. Announced'
  BY LoopAssumption DEF IInv, Announced, HostTypes, Ticks, CommandKnown, Snap, Fiber, Stages,
     HostRuns, Walk, HostAt, Runnable, Parked, edit, queues, keys, spent, command
<1>13. Drained'
  BY <1>n6 DEF IInv, Drained, NoSnap, Walk, HostAt, Runnable, Parked, edit, queues, keys,
     spent, command
<1>14. QED
  BY <1>1, <1>2, <1>3, <1>4, <1>5, <1>6, <1>7, <1>8, <1>9, <1>10, <1>11, <1>12, <1>13 DEF IInv

LEMMA WalkedKeeps ==
  ASSUME IInv, Walked
  PROVE  IInv'
<1>1. InputTypes'
  BY DEF IInv, InputTypes, Walked, HostAt, edit, queues, keys, spent, command
<1>2. WorkTypes'
  BY DEF IInv, WorkTypes, Walked, HostAt, edit, queues, keys, spent, command
<1>3. CommandKnown'
  BY DEF IInv, CommandKnown, Walked, HostAt, edit, queues, keys, spent, command
<1>4. LanesOwed'
  BY DEF IInv, LanesOwed, Walked, HostAt, edit, queues, keys, spent, command
<1>5. HostTypes'
  BY DEF IInv, HostTypes, Fiber, Stages, Walked, HostAt, edit, queues, keys, spent, command
<1>6. Ticks'
  BY DEF IInv, Ticks, HostRuns, Fiber, Walked, HostAt, edit, queues, keys, spent, command
<1>7. NestedTurns'
  BY DEF IInv, NestedTurns, Fiber, Walked, HostAt, edit, queues, keys, spent, command
<1>8. BatchKept'
  BY DEF IInv, BatchKept, Walked, HostAt, edit, queues, keys, spent, command
<1>9. TimeoutSettled'
  BY DEF IInv, TimeoutSettled, HostRuns, Walked, HostAt, edit, queues, keys, spent, command
<1>10. BellRung'
  BY DEF IInv, BellRung, child_is_done, Walked, HostAt, edit, queues, keys, spent, command
<1>11. SnapsKnown'
  BY DEF IInv, SnapsKnown, NoSnap, Walked, HostAt, edit, queues, keys, spent, command
<1>12. Announced'
  BY DEF IInv, Announced, Snap, Walked, HostAt, edit, queues, keys, spent, command
<1>13. Drained'
  BY DEF IInv, Drained, NoSnap, Walked, HostAt, edit, queues, keys, spent, command
<1>14. QED
  BY <1>1, <1>2, <1>3, <1>4, <1>5, <1>6, <1>7, <1>8, <1>9, <1>10, <1>11, <1>12, <1>13 DEF IInv

LEMMA HandleOtherKeeps ==
  ASSUME IInv, HandleOther
  PROVE  IInv'
<1>h. /\ host.at = "each" /\ HostRuns /\ host.todo = {} /\ host.unsent = {}
      /\ ~executing /\ events = <<>> /\ awaiting = "none"
      /\ exec.at = "recv" /\ ~exec.inbox /\ ~exec.done
      /\ mode[Exec] \in {"unborn", "waiting"}
      /\ carried \in Seq(Event) /\ carried' = Tail(carried)
      /\ Tail(carried) \in Seq(Event) /\ taken' \in Nat
  BY HandlesTells DEF HandleOther
<1>y. InputTypes'
  BY <1>h DEF IInv, InputTypes, HandleOther, spent
<1>1. WorkTypes'
  BY DEF IInv, WorkTypes, HandleOther, Handles, HostAt, Onward, edit, queues, keys, spent,
     command
<1>2. CommandKnown'
  BY DEF IInv, CommandKnown, HandleOther, Handles, HostAt, Onward, edit, queues, keys, spent,
     command
<1>3. LanesOwed'
  BY DEF IInv, LanesOwed, HandleOther, Handles, HostAt, Onward, edit, queues, keys, spent,
     command
<1>4. HostTypes'
  BY DEF IInv, HostTypes, Fiber, Stages, HandleOther, Handles, HostAt, Onward, edit, queues,
     keys, spent, command
<1>5. InputTypes'
  BY <1>y DEF IInv, InputTypes, Event, Key, Signal, HandleOther, Handles, HostAt, Onward,
     edit, queues, keys, spent, command
<1>6. Ticks'
  BY DEF IInv, Ticks, HostRuns, Fiber, HandleOther, Handles, HostAt, Onward, edit, queues,
     keys, spent, command
<1>7. NestedTurns'
  BY DEF IInv, NestedTurns, Fiber, HandleOther, Handles, HostAt, Onward, edit, queues, keys,
     spent, command
<1>8. BatchKept'
  BY DEF IInv, BatchKept, HandleOther, Handles, HostAt, Onward, edit, queues, keys, spent,
     command
<1>9. TimeoutSettled'
  BY DEF IInv, TimeoutSettled, HostRuns, HandleOther, Handles, HostAt, Onward, edit, queues,
     keys, spent, command
<1>10. BellRung'
  BY DEF IInv, BellRung, child_is_done, HandleOther, Handles, HostAt, Onward, edit, queues,
     keys, spent, command
<1>11. SnapsKnown'
  BY DEF IInv, SnapsKnown, NoSnap, HandleOther, Handles, HostAt, Onward, edit, queues, keys,
     spent, command
<1>12. Announced'
  BY DEF IInv, Announced, Snap, HandleOther, Handles, HostAt, Onward, edit, queues, keys,
     spent, command
<1>13. Drained'
  BY DEF IInv, Drained, NoSnap, HandleOther, Handles, HostAt, Onward, edit, queues, keys,
     spent, command
<1>14. QED
  BY <1>1, <1>2, <1>3, <1>4, <1>5, <1>6, <1>7, <1>8, <1>9, <1>10, <1>11, <1>12, <1>13 DEF IInv

LEMMA HandleKeyKeeps ==
  ASSUME IInv, HandleKey
  PROVE  IInv'
<1>h. /\ host.at = "each" /\ HostRuns /\ host.todo = {} /\ host.unsent = {}
      /\ ~executing /\ events = <<>> /\ awaiting = "none"
      /\ exec.at = "recv" /\ ~exec.inbox /\ ~exec.done
      /\ mode[Exec] \in {"unborn", "waiting"}
      /\ carried \in Seq(Event) /\ carried' = Tail(carried)
      /\ Tail(carried) \in Seq(Event) /\ taken' \in Nat
  BY HandlesTells DEF HandleKey
<1>m. /\ mode \in [Fiber -> {"unborn", "owed", "running", "waiting"}] /\ Exec \in Fiber
      /\ Lane \subseteq Fiber /\ Exec \notin Lane
      /\ host \in [at : Stages, zero : BOOLEAN, todo : SUBSET Fiber,
                   sliced : BOOLEAN, outer : BOOLEAN,
                   ready : SUBSET {"tty", "signal"}, unsent : SUBSET Lane]
  BY LoopAssumption DEF IInv, HostTypes, Fiber
<1>a. UNCHANGED <<mode, ends, executing, tty, typed, events, deferred, sig, shown,
                  lane, exec, child, awaiting, unanswered>>
  BY DEF HandleKey, command, spent
<1>b. /\ line \in [gen : Nat \ {0}, view : Nat, len : Nat]
      /\ line' \in [gen : Nat \ {0}, view : Nat, len : Nat]
  <2>1. line.gen \in Nat \ {0} /\ line.view \in Nat /\ line.len \in Nat
    BY DEF IInv, WorkTypes
  <2>2. \E n \in {0, 1} : line' = [gen |-> line.gen + n, view |-> line.view + 1,
                                 len |-> line.len + n]
    BY DEF HandleKey
  <2>3. QED
    BY <2>1, <2>2 DEF IInv, WorkTypes
<1>c. host' = [host EXCEPT !.at = "notify", !.unsent = Lane]
  BY DEF HandleKey
<1>n1. InputTypes'
  BY <1>a, <1>h DEF IInv, InputTypes
<1>n2. WorkTypes'
  BY <1>a, <1>b DEF IInv, WorkTypes
<1>k. SnapsKnown'
  <2>1. host'.unsent = Lane /\ lane' = lane
    BY <1>a, <1>c, <1>m
  <2>2. \A l \in Lane : lane[l].slot.gen \in Nat /\ lane[l].snap.gen \in Nat
    BY DEF IInv, WorkTypes, LaneStates, Snaps
  <2>3. line.gen \in Nat /\ line'.gen \in {line.gen, line.gen + 1}
    BY DEF HandleKey, IInv, WorkTypes
  <2>4. QED
    BY <2>1, <2>2, <2>3 DEF IInv, SnapsKnown
<1>1. CommandKnown'
  BY DEF IInv, CommandKnown, HandleKey, Handles, HostAt, Onward, edit, queues, keys, spent,
     command
<1>2. LanesOwed'
  BY DEF IInv, LanesOwed, HandleKey, Handles, HostAt, Onward, edit, queues, keys, spent, command
<1>3. HostTypes'
  BY DEF IInv, HostTypes, Fiber, Stages, HandleKey, Handles, HostAt, Onward, edit, queues,
     keys, spent, command
<1>4. InputTypes'
  BY <1>n1 DEF IInv, InputTypes, Event, Key, Signal, HandleKey, Handles, HostAt, Onward,
     edit, queues, keys, spent, command
<1>5. WorkTypes'
  BY <1>n2 DEF IInv, WorkTypes, LaneStates, Snaps, NoSnap, HandleKey, Handles, HostAt,
     Onward, edit, queues, keys, spent, command
<1>6. Ticks'
  BY DEF IInv, Ticks, HostRuns, Fiber, HandleKey, Handles, HostAt, Onward, edit, queues,
     keys, spent, command
<1>7. NestedTurns'
  BY DEF IInv, NestedTurns, Fiber, HandleKey, Handles, HostAt, Onward, edit, queues, keys,
     spent, command
<1>8. BatchKept'
  BY DEF IInv, BatchKept, HandleKey, Handles, HostAt, Onward, edit, queues, keys, spent, command
<1>9. TimeoutSettled'
  BY DEF IInv, TimeoutSettled, HostRuns, HandleKey, Handles, HostAt, Onward, edit, queues,
     keys, spent, command
<1>10. BellRung'
  BY DEF IInv, BellRung, child_is_done, HandleKey, Handles, HostAt, Onward, edit, queues,
     keys, spent, command
<1>11. SnapsKnown'
  BY <1>k DEF IInv, SnapsKnown, NoSnap, HandleKey, Handles, HostAt, Onward, edit, queues,
     keys, spent, command
<1>12. Announced'
  BY DEF IInv, Announced, Snap, HandleKey, Handles, HostAt, Onward, edit, queues, keys,
     spent, command
<1>13. Drained'
  BY DEF IInv, Drained, NoSnap, HandleKey, Handles, HostAt, Onward, edit, queues, keys,
     spent, command
<1>14. QED
  BY <1>1, <1>2, <1>3, <1>4, <1>5, <1>6, <1>7, <1>8, <1>9, <1>10, <1>11, <1>12, <1>13 DEF IInv

LEMMA notify_reactorsKeeps ==
  ASSUME IInv, NEW l \in Lane, notify_reactors(l)
  PROVE  IInv'
<1>m. /\ mode \in [Fiber -> {"unborn", "owed", "running", "waiting"}] /\ Exec \in Fiber
      /\ Lane \subseteq Fiber /\ Exec \notin Lane
      /\ host \in [at : Stages, zero : BOOLEAN, todo : SUBSET Fiber,
                   sliced : BOOLEAN, outer : BOOLEAN,
                   ready : SUBSET {"tty", "signal"}, unsent : SUBSET Lane]
  BY LoopAssumption DEF IInv, HostTypes, Fiber
<1>t. lane[l] \in LaneStates /\ mode[l] \in {"unborn", "owed", "running", "waiting"}
  BY DEF IInv, WorkTypes, HostTypes, Fiber
<1>r. Snap \in Snaps /\ Snap # NoSnap /\ NoSnap \in Snaps
  BY DEF IInv, WorkTypes, Snap, Snaps, NoSnap
<1>a. /\ host.at = "notify" /\ HostRuns /\ l \in host.unsent
      /\ UNCHANGED <<ends, executing, events, line, shown, exec, child, awaiting, carried>>
      /\ lane' = [lane EXCEPT ![l] = [lane[l] EXCEPT !.slot = Snap, !.fresh = FALSE, !.flag = TRUE]]
      /\ \/ mode[l] \in {"unborn", "waiting"} /\ mode' = [mode EXCEPT ![l] = "owed"]
         \/ mode[l] \notin {"unborn", "waiting"} /\ mode' = mode
      /\ host' = [host EXCEPT !.unsent = @ \ {l}, !.at = IF host.unsent
           = {l} THEN Onward ELSE "notify"]
  BY DEF notify_reactors, HostAt, send, Notified, W!Spawn, W!Wake, W!Become, edit, queues,
     command
<1>b. /\ lane' \in [Lane -> LaneStates]
      /\ \A k \in Lane : k # l => lane'[k] = lane[k]
      /\ lane'[l].slot = Snap
  BY <1>t, <1>r, <1>a DEF IInv, WorkTypes, LaneStates
<1>c. /\ mode' \in [Fiber -> {"unborn", "owed", "running", "waiting"}]
      /\ \A f \in Fiber : f # l => mode'[f] = mode[f]
      /\ mode'[l] \in {"owed", "running"}
      /\ \A f \in Fiber : mode'[f] # "running"
  BY <1>a, <1>m, <1>t DEF HostRuns
<1>d. /\ host' \in [at : Stages, zero : BOOLEAN, todo : SUBSET Fiber,
                    sliced : BOOLEAN, outer : BOOLEAN,
                    ready : SUBSET {"tty", "signal"}, unsent : SUBSET Lane]
      /\ host'.unsent = host.unsent \ {l}
      /\ host'.at \in {"notify", "each", "top"}
      /\ host'.at = "top" => ends.exiting
      /\ host'.unsent # {} => host'.at = "notify"
      /\ host'.todo = {}
  BY <1>a, <1>m DEF Stages, IInv, Ticks, Onward
<1>n1. HostTypes'
  BY <1>a, <1>c, <1>d DEF IInv, HostTypes
<1>n2. WorkTypes'
  BY <1>a, <1>b DEF IInv, WorkTypes
<1>n3. LanesOwed'
  BY <1>a, <1>b, <1>c, <1>m DEF IInv, LanesOwed
<1>n4. Announced'
  <2> SUFFICES ASSUME NEW k \in Lane, ~executing, ~ends.exiting, line.len > 0
               PROVE  \/ k \in host'.unsent
                      \/ shown[k] = line.view
                      \/ lane'[k].slot = Snap
                      \/ lane'[k].at # "recv" /\ lane'[k].snap = Snap /\ ~lane'[k].flag
    BY <1>a DEF Announced, Snap
  <2>1. CASE k = l
    BY <1>b, <2>1
  <2>2. CASE k # l
    <3>1. \/ k \in host.unsent
          \/ shown[k] = line.view
          \/ lane[k].slot = Snap
          \/ lane[k].at # "recv" /\ lane[k].snap = Snap /\ ~lane[k].flag
      BY <1>a DEF IInv, Announced
    <3>2. QED
      BY <1>b, <1>d, <2>2, <3>1
  <2>3. QED
    BY <2>1, <2>2
<1>n5. Ticks'
  BY <1>a, <1>c, <1>d DEF Ticks, HostRuns
<1>n6. CommandKnown'
  BY <1>a, <1>c, <1>m DEF IInv, CommandKnown
<1>n7. NestedTurns'
  BY <1>a DEF IInv, NestedTurns
<1>n8. BatchKept'
  BY <1>a, <1>d DEF IInv, BatchKept
<1>n9. TimeoutSettled' /\ Drained'
  BY <1>d DEF TimeoutSettled, Drained
<1>k. SnapsKnown'
  <2>1. line.gen \in Nat /\ Snap.gen = line.gen /\ Snap.view = line.view
    BY DEF IInv, WorkTypes, Snap
  <2>2. lane'[l].snap = lane[l].snap /\ lane'[l].flag
    BY <1>a, <1>t DEF IInv, WorkTypes, LaneStates
  <2>3. lane'[l].slot.gen = line.gen /\ lane'[l].slot.view = line.view /\ line' = line
    BY <1>a, <1>b, <2>1
  <2>4. \A k \in Lane : k # l => lane'[k] = lane[k] /\ (k \in host.unsent <=> k \in host'.unsent)
    BY <1>b, <1>d
  <2>5. lane[l].snap.gen <= line.gen /\ line.gen <= line.gen
    BY <2>1 DEF IInv, SnapsKnown
  <2>6. QED
    BY <2>2, <2>3, <2>4, <2>5 DEF IInv, SnapsKnown
<1>1. InputTypes'
  BY DEF IInv, InputTypes, notify_reactors, HostAt, send, Notified, Onward, W!Spawn, W!Wake,
     W!Become, edit, queues, keys, spent, command
<1>2. HostTypes'
  BY <1>n1 DEF IInv, HostTypes, Fiber, Stages, notify_reactors, HostAt, send, Notified,
     Onward, W!Spawn, W!Wake, W!Become, edit, queues, keys, spent, command
<1>3. WorkTypes'
  BY <1>n2 DEF IInv, WorkTypes, LaneStates, Snaps, NoSnap, notify_reactors, HostAt, send,
     Notified, Onward, W!Spawn, W!Wake, W!Become, edit, queues, keys, spent, command
<1>4. Ticks'
  BY <1>n5 DEF IInv, Ticks, HostRuns, Fiber, notify_reactors, HostAt, send, Notified, Onward,
     W!Spawn, W!Wake, W!Become, edit, queues, keys, spent, command
<1>5. CommandKnown'
  BY <1>n6 DEF IInv, CommandKnown, notify_reactors, HostAt, send, Notified, Onward, W!Spawn,
     W!Wake, W!Become, edit, queues, keys, spent, command
<1>6. NestedTurns'
  BY <1>n7 DEF IInv, NestedTurns, Fiber, notify_reactors, HostAt, send, Notified, Onward,
     W!Spawn, W!Wake, W!Become, edit, queues, keys, spent, command
<1>7. BatchKept'
  BY <1>n8 DEF IInv, BatchKept, notify_reactors, HostAt, send, Notified, Onward, W!Spawn,
     W!Wake, W!Become, edit, queues, keys, spent, command
<1>8. TimeoutSettled'
  BY <1>n9 DEF IInv, TimeoutSettled, HostRuns, notify_reactors, HostAt, send, Notified,
     Onward, W!Spawn, W!Wake, W!Become, edit, queues, keys, spent, command
<1>9. BellRung'
  BY DEF IInv, BellRung, child_is_done, notify_reactors, HostAt, send, Notified, Onward,
     W!Spawn, W!Wake, W!Become, edit, queues, keys, spent, command
<1>10. LanesOwed'
  BY <1>n3 DEF IInv, LanesOwed, NoSnap, notify_reactors, HostAt, send, Notified, Onward,
     W!Spawn, W!Wake, W!Become, edit, queues, keys, spent, command
<1>11. SnapsKnown'
  BY <1>k DEF IInv, SnapsKnown, NoSnap, notify_reactors, HostAt, send, Notified, Onward,
     W!Spawn, W!Wake, W!Become, edit, queues, keys, spent, command
<1>12. Announced'
  BY <1>n4 DEF IInv, Announced, Snap, notify_reactors, HostAt, send, Notified, Onward,
     W!Spawn, W!Wake, W!Become, edit, queues, keys, spent, command
<1>13. Drained'
  BY <1>n9 DEF IInv, Drained, NoSnap, notify_reactors, HostAt, send, Notified, Onward,
     W!Spawn, W!Wake, W!Become, edit, queues, keys, spent, command
<1>14. QED
  BY <1>1, <1>2, <1>3, <1>4, <1>5, <1>6, <1>7, <1>8, <1>9, <1>10, <1>11, <1>12, <1>13 DEF IInv

LEMMA accept_current_lineKeeps ==
  ASSUME IInv, accept_current_line
  PROVE  IInv'
<1>h. /\ host.at = "each" /\ HostRuns /\ host.todo = {} /\ host.unsent = {}
      /\ ~executing /\ events = <<>> /\ awaiting = "none"
      /\ exec.at = "recv" /\ ~exec.inbox /\ ~exec.done
      /\ mode[Exec] \in {"unborn", "waiting"}
      /\ carried \in Seq(Event) /\ carried' = Tail(carried)
      /\ Tail(carried) \in Seq(Event) /\ taken' \in Nat
  BY HandlesTells DEF accept_current_line
<1>m. /\ mode' \in [Fiber -> {"unborn", "owed", "running", "waiting"}]
      /\ mode'[Exec] = "owed" /\ \A l \in Lane : mode'[l] = mode[l]
      /\ \A f \in Fiber : mode'[f] # "running"
      /\ host' \in [at : Stages, zero : BOOLEAN, todo : SUBSET Fiber,
                    sliced : BOOLEAN, outer : BOOLEAN,
                    ready : SUBSET {"tty", "signal"}, unsent : SUBSET Lane]
      /\ host'.at = "top" /\ host'.todo = {} /\ host'.unsent = {}
      /\ exec' = [exec EXCEPT !.inbox = TRUE]
  BY <1>h, RunTheLineTells DEF accept_current_line
<1>l. /\ lane' \in [Lane -> LaneStates]
      /\ \A l \in Lane : /\ lane'[l].at = lane[l].at /\ lane'[l].slot = lane[l].slot
                        /\ lane'[l].snap = lane[l].snap
  BY SupersededTells DEF accept_current_line, quiesce
<1>a. /\ UNCHANGED <<ends, tty, typed, events, deferred, sig, child, awaiting>>
      /\ executing' = TRUE
  BY DEF accept_current_line, quiesce
<1>e. /\ exec' \in [at : {"recv", "command", "await", "waitpid"}, inbox : BOOLEAN,
                     done : BOOLEAN]
      /\ exec'.at = "recv" /\ exec'.inbox /\ ~exec'.done
  BY <1>m, <1>h DEF IInv, WorkTypes
<1>b. /\ line' \in [gen : Nat \ {0}, view : Nat, len : Nat]
      /\ shown' \in [Lane -> Nat] /\ unanswered' \in BOOLEAN
  BY DEF accept_current_line, edit, spent, IInv, WorkTypes, InputTypes
<1>n1. HostTypes'
  BY <1>a, <1>m DEF IInv, HostTypes
<1>n2. InputTypes'
  BY <1>a, <1>b, <1>h DEF IInv, InputTypes
<1>n3. WorkTypes'
  BY <1>a, <1>b, <1>e, <1>l DEF IInv, WorkTypes
<1>n4. Ticks'
  BY <1>m DEF Ticks, HostRuns
<1>n5. CommandKnown'
  BY <1>a, <1>e, <1>h, <1>m DEF CommandKnown
<1>n6. NestedTurns'
  BY <1>a, <1>h, <1>m, LoopAssumption DEF NestedTurns, Fiber
<1>n7. BatchKept'
  BY <1>a, <1>h, <1>m DEF BatchKept
<1>n8. TimeoutSettled' /\ Drained'
  BY <1>m DEF TimeoutSettled, Drained
<1>n9. BellRung'
  BY <1>a, <1>h, <1>m DEF IInv, BellRung
<1>n10. LanesOwed'
  BY <1>l, <1>m DEF IInv, LanesOwed
<1>n11. Announced'
  BY <1>a DEF Announced
<1>k. SnapsKnown'
  <2>1. \A l \in Lane : lane'[l].slot = lane[l].slot /\ lane'[l].snap = lane[l].snap
                        /\ lane'[l].at = lane[l].at /\ (lane[l].flag => lane'[l].flag)
    BY <1>l, SupersededFlags DEF accept_current_line, quiesce
  <2>2. \A l \in Lane : lane[l].slot.gen \in Nat /\ lane[l].snap.gen \in Nat
    BY DEF IInv, WorkTypes, LaneStates, Snaps
  <2>3. line' = line
    BY DEF accept_current_line, edit
  <2>4. QED
    BY <1>h, <2>1, <2>2, <2>3 DEF IInv, SnapsKnown
<1>1. HostTypes'
  BY <1>n1
<1>2. InputTypes'
  BY <1>n2
<1>3. WorkTypes'
  BY <1>n3
<1>4. Ticks'
  BY <1>n4
<1>5. CommandKnown'
  BY <1>n5
<1>6. NestedTurns'
  BY <1>n6
<1>7. BatchKept'
  BY <1>n7
<1>8. TimeoutSettled'
  BY <1>n8
<1>9. BellRung'
  BY <1>n9
<1>10. LanesOwed'
  BY <1>n10
<1>11. SnapsKnown'
  BY <1>k
<1>12. Announced'
  BY <1>n11
<1>13. Drained'
  BY <1>n8
<1>14. QED
  BY <1>1, <1>2, <1>3, <1>4, <1>5, <1>6, <1>7, <1>8, <1>9, <1>10, <1>11, <1>12, <1>13 DEF IInv

LEMMA finish_cancelled_lineKeeps ==
  ASSUME IInv, finish_cancelled_line
  PROVE  IInv'
<1>h. /\ host.at = "each" /\ HostRuns /\ host.todo = {} /\ host.unsent = {}
      /\ ~executing /\ events = <<>> /\ awaiting = "none"
      /\ exec.at = "recv" /\ ~exec.inbox /\ ~exec.done
      /\ mode[Exec] \in {"unborn", "waiting"}
      /\ carried \in Seq(Event) /\ carried' = Tail(carried)
      /\ Tail(carried) \in Seq(Event) /\ taken' \in Nat
  BY HandlesTells DEF finish_cancelled_line
<1>m. /\ mode' \in [Fiber -> {"unborn", "owed", "running", "waiting"}]
      /\ mode'[Exec] = "owed" /\ \A l \in Lane : mode'[l] = mode[l]
      /\ \A f \in Fiber : mode'[f] # "running"
      /\ host' \in [at : Stages, zero : BOOLEAN, todo : SUBSET Fiber,
                    sliced : BOOLEAN, outer : BOOLEAN,
                    ready : SUBSET {"tty", "signal"}, unsent : SUBSET Lane]
      /\ host'.at = "top" /\ host'.todo = {} /\ host'.unsent = {}
      /\ exec' = [exec EXCEPT !.inbox = TRUE]
  BY <1>h, RunTheLineTells DEF finish_cancelled_line
<1>l. /\ lane' \in [Lane -> LaneStates]
      /\ \A l \in Lane : /\ lane'[l].at = lane[l].at /\ lane'[l].slot = lane[l].slot
                        /\ lane'[l].snap = lane[l].snap
  BY SupersededTells DEF finish_cancelled_line, quiesce
<1>a. /\ UNCHANGED <<ends, tty, typed, events, deferred, sig, child, awaiting>>
      /\ executing' = TRUE
  BY DEF finish_cancelled_line, quiesce
<1>e. /\ exec' \in [at : {"recv", "command", "await", "waitpid"}, inbox : BOOLEAN,
                     done : BOOLEAN]
      /\ exec'.at = "recv" /\ exec'.inbox /\ ~exec'.done
  BY <1>m, <1>h DEF IInv, WorkTypes
<1>b. /\ line' \in [gen : Nat \ {0}, view : Nat, len : Nat]
      /\ shown' \in [Lane -> Nat] /\ unanswered' \in BOOLEAN
  <2>1. line.gen \in Nat \ {0} /\ line.view \in Nat
    BY DEF IInv, WorkTypes
  <2>2. line' = [gen |-> line.gen + 1, view |-> line.view + 1, len |-> 0]
    BY DEF finish_cancelled_line, Emptied
  <2>3. shown' = [l \in Lane |-> 0] /\ unanswered' = FALSE
    BY DEF finish_cancelled_line
  <2>4. line' \in [gen : Nat \ {0}, view : Nat, len : Nat]
    BY <2>1, <2>2
  <2>5. QED
    BY <2>3, <2>4
<1>n1. HostTypes'
  BY <1>a, <1>m DEF IInv, HostTypes
<1>n2. InputTypes'
  BY <1>a, <1>b, <1>h DEF IInv, InputTypes
<1>n3. WorkTypes'
  BY <1>a, <1>b, <1>e, <1>l DEF IInv, WorkTypes
<1>n4. Ticks'
  BY <1>m DEF Ticks, HostRuns
<1>n5. CommandKnown'
  BY <1>a, <1>e, <1>h, <1>m DEF CommandKnown
<1>n6. NestedTurns'
  BY <1>a, <1>h, <1>m, LoopAssumption DEF NestedTurns, Fiber
<1>n7. BatchKept'
  BY <1>a, <1>h, <1>m DEF BatchKept
<1>n8. TimeoutSettled' /\ Drained'
  BY <1>m DEF TimeoutSettled, Drained
<1>n9. BellRung'
  BY <1>a, <1>h, <1>m DEF IInv, BellRung
<1>n10. LanesOwed'
  BY <1>l, <1>m DEF IInv, LanesOwed
<1>n11. Announced'
  BY <1>a DEF Announced
<1>k. SnapsKnown'
  <2>1. \A l \in Lane : lane'[l].slot = lane[l].slot /\ lane'[l].snap = lane[l].snap
                        /\ lane'[l].at = lane[l].at /\ (lane[l].flag => lane'[l].flag)
    BY <1>l, SupersededFlags DEF finish_cancelled_line, quiesce
  <2>2. \A l \in Lane : lane[l].slot.gen \in Nat /\ lane[l].snap.gen \in Nat
    BY DEF IInv, WorkTypes, LaneStates, Snaps
  <2>3. line'.gen = line.gen + 1 /\ line.gen \in Nat
    BY DEF finish_cancelled_line, Emptied, IInv, WorkTypes
  <2>4. QED
    BY <1>h, <2>1, <2>2, <2>3 DEF IInv, SnapsKnown
<1>1. HostTypes'
  BY <1>n1
<1>2. InputTypes'
  BY <1>n2
<1>3. WorkTypes'
  BY <1>n3
<1>4. Ticks'
  BY <1>n4
<1>5. CommandKnown'
  BY <1>n5
<1>6. NestedTurns'
  BY <1>n6
<1>7. BatchKept'
  BY <1>n7
<1>8. TimeoutSettled'
  BY <1>n8
<1>9. BellRung'
  BY <1>n9
<1>10. LanesOwed'
  BY <1>n10
<1>11. SnapsKnown'
  BY <1>k
<1>12. Announced'
  BY <1>n11
<1>13. Drained'
  BY <1>n8
<1>14. QED
  BY <1>1, <1>2, <1>3, <1>4, <1>5, <1>6, <1>7, <1>8, <1>9, <1>10, <1>11, <1>12, <1>13 DEF IInv

LEMMA resume_after_executionKeeps ==
  ASSUME IInv, resume_after_execution
  PROVE  IInv'
<1>b. line' \in [gen : Nat \ {0}, view : Nat, len : Nat] /\ shown' \in [Lane -> Nat]
  <2>1. /\ line.gen \in Nat \ {0} /\ line.view \in Nat /\ shown \in [Lane -> Nat]
        /\ line \in [gen : Nat \ {0}, view : Nat, len : Nat]
    BY DEF IInv, WorkTypes
  <2>2. line' \in {line, Emptied} /\ shown' \in {shown, [l \in Lane |-> 0]}
    BY DEF resume_after_execution, edit
  <2>3. QED
    BY <2>1, <2>2 DEF Emptied
<1>w. WorkTypes'
  BY <1>b DEF resume_after_execution, IInv, WorkTypes
<1>k. SnapsKnown'
  <2>1. lane' = lane /\ host'.unsent = host.unsent
    BY DEF resume_after_execution
  <2>2. \A l \in Lane : lane[l].slot.gen \in Nat /\ lane[l].snap.gen \in Nat
    BY DEF IInv, WorkTypes, LaneStates, Snaps
  <2>3. line.gen \in Nat /\ (line' = line \/ line'.gen = line.gen + 1)
    BY DEF resume_after_execution, IInv, WorkTypes, Emptied, edit
  <2>4. QED
    BY <2>1, <2>2, <2>3 DEF IInv, SnapsKnown
<1>1. InputTypes'
  BY DEF IInv, InputTypes, resume_after_execution, queues, keys, spent
<1>2. LanesOwed'
  BY DEF IInv, LanesOwed, resume_after_execution
<1>3. HostTypes'
  BY DEF IInv, HostTypes, Fiber, Stages, resume_after_execution, LineIsBack, Ending, edit,
     queues, keys, spent, command
<1>4. WorkTypes'
  BY <1>w DEF IInv, WorkTypes, LaneStates, Snaps, NoSnap, resume_after_execution, Ending,
     Emptied, edit, queues, keys, spent, command
<1>5. Ticks'
  BY DEF IInv, InputTypes, Ticks, Announced, Drained, HostRuns, Snaps, NoSnap,
     resume_after_execution, HostAt, LineIsBack
<1>6. CommandKnown'
  BY LoopAssumption DEF IInv, CommandKnown, HostTypes, Ticks, Fiber, Stages, HostRuns,
     resume_after_execution, HostAt, LineIsBack, Emptied, edit, queues, keys, spent, command
<1>7. NestedTurns'
  BY DEF IInv, NestedTurns, Fiber, resume_after_execution, Emptied, edit, queues, keys,
     spent, command
<1>8. BatchKept'
  BY LoopAssumption DEF IInv, BatchKept, HostTypes, Fiber, Stages, resume_after_execution,
     HostAt, LineIsBack, Ending, Emptied, edit, queues, keys, spent, command
<1>9. TimeoutSettled'
  BY DEF IInv, WorkTypes, CommandKnown, TimeoutSettled, BellRung, LanesOwed, Stages,
     LaneStates, Signal, NoSnap, resume_after_execution, Emptied
<1>10. BellRung'
  BY DEF IInv, BellRung, child_is_done, resume_after_execution, HostAt, LineIsBack, Ending,
     Emptied, edit, queues, keys, spent, command
<1>11. SnapsKnown'
  BY <1>k
<1>12. Announced'
  BY DEF IInv, Announced, HostTypes, Snap, Fiber, Stages, resume_after_execution, LineIsBack,
     Ending, Emptied, edit, queues, keys, spent, command
<1>13. Drained'
  BY DEF IInv, Drained, NoSnap, resume_after_execution, HostAt, LineIsBack, Ending, Emptied,
     edit, queues, keys, spent, command
<1>14. QED
  BY <1>1, <1>2, <1>3, <1>4, <1>5, <1>6, <1>7, <1>8, <1>9, <1>10, <1>11, <1>12, <1>13 DEF IInv

LEMMA LeaveKeeps ==
  ASSUME IInv, Leave
  PROVE  IInv'
<1>l. /\ lane' \in [Lane -> LaneStates]
      /\ \A l \in Lane : /\ lane'[l].at = lane[l].at /\ lane'[l].slot = lane[l].slot
                        /\ lane'[l].snap = lane[l].snap
  BY SupersededTells DEF Leave
<1>w. WorkTypes'
  BY <1>l DEF Leave, IInv, WorkTypes, edit, command
<1>o. LanesOwed'
  BY <1>l DEF Leave, IInv, LanesOwed
<1>h. host.unsent = {} /\ host'.unsent = {}
  BY DEF IInv, Ticks, Leave, HostAt, HostTypes
<1>k. SnapsKnown'
  <2>1. \A l \in Lane : lane'[l].slot = lane[l].slot /\ lane'[l].snap = lane[l].snap
                        /\ lane'[l].at = lane[l].at /\ (lane[l].flag => lane'[l].flag)
    BY <1>l, SupersededFlags DEF Leave, quiesce
  <2>2. \A l \in Lane : lane[l].slot.gen \in Nat /\ lane[l].snap.gen \in Nat
    BY DEF IInv, WorkTypes, LaneStates, Snaps
  <2>3. line' = line
    BY DEF Leave, edit
  <2>4. QED
    BY <1>h, <2>1, <2>2, <2>3 DEF IInv, SnapsKnown
<1>1. InputTypes'
  BY DEF IInv, InputTypes, Leave, HostAt, Superseded, edit, queues, keys, spent, command
<1>2. CommandKnown'
  BY DEF IInv, CommandKnown, Leave, HostAt, Superseded, edit, queues, keys, spent, command
<1>3. HostTypes'
  BY DEF IInv, HostTypes, Fiber, Stages, Leave, HostAt, Superseded, edit, queues, keys,
     spent, command
<1>4. WorkTypes'
  BY <1>w DEF IInv, WorkTypes, LaneStates, Snaps, NoSnap, Leave, HostAt, Superseded, edit,
     queues, keys, spent, command
<1>5. Ticks'
  BY DEF IInv, Ticks, HostRuns, Fiber, Leave, HostAt, Superseded, edit, queues, keys, spent,
     command
<1>6. NestedTurns'
  BY DEF IInv, NestedTurns, Fiber, Leave, HostAt, Superseded, edit, queues, keys, spent, command
<1>7. BatchKept'
  BY DEF IInv, BatchKept, Leave, HostAt, Superseded, edit, queues, keys, spent, command
<1>8. TimeoutSettled'
  BY DEF IInv, TimeoutSettled, HostRuns, Leave, HostAt, Superseded, edit, queues, keys,
     spent, command
<1>9. BellRung'
  BY DEF IInv, BellRung, child_is_done, Leave, HostAt, Superseded, edit, queues, keys, spent,
     command
<1>10. LanesOwed'
  BY <1>o DEF IInv, LanesOwed, NoSnap, Leave, HostAt, Superseded, edit, queues, keys, spent,
     command
<1>11. SnapsKnown'
  BY <1>k DEF IInv, SnapsKnown, NoSnap, Leave, HostAt, Superseded, edit, queues, keys, spent,
     command
<1>12. Announced'
  BY DEF IInv, Announced, Snap, Leave, HostAt, Superseded, edit, queues, keys, spent, command
<1>13. Drained'
  BY DEF IInv, Drained, NoSnap, Leave, HostAt, Superseded, edit, queues, keys, spent, command
<1>14. QED
  BY <1>1, <1>2, <1>3, <1>4, <1>5, <1>6, <1>7, <1>8, <1>9, <1>10, <1>11, <1>12, <1>13 DEF IInv

LEMMA drain_emittersKeeps ==
  ASSUME IInv, drain_emitters
  PROVE  IInv'
<1>1. InputTypes'
  BY DEF IInv, InputTypes, drain_emitters, queues, keys, spent
<1>2. WorkTypes'
  BY DEF IInv, WorkTypes, drain_emitters, edit, command
<1>3. CommandKnown'
  BY DEF IInv, CommandKnown, drain_emitters, command
<1>4. LanesOwed'
  BY DEF IInv, LanesOwed, drain_emitters
<1>5. HostTypes'
  BY LoopAssumption DEF IInv, HostTypes, BatchKept, BellRung, Drained, Fiber, Stages, Event,
     keys, drain_emitters
<1>6. Ticks'
  BY DEF IInv, Ticks, HostRuns, Fiber, drain_emitters, HostAt, Runnable, Parked, edit,
     queues, keys, spent, command
<1>7. NestedTurns'
  BY DEF IInv, NestedTurns, Fiber, drain_emitters, HostAt, Runnable, Parked, edit, queues,
     keys, spent, command
<1>8. BatchKept'
  BY DEF IInv, BatchKept, drain_emitters, HostAt, Runnable, edit, queues, keys, spent, command
<1>9. TimeoutSettled'
  BY LoopAssumption DEF WorkTypes, NestedTurns, BatchKept, TimeoutSettled, BellRung,
     LanesOwed, SnapsKnown, Drained, Fiber, Stages, LaneStates, Event, NoSnap, keys, spent,
     drain_emitters, HostAt, Runnable
<1>10. BellRung'
  BY DEF IInv, BellRung, child_is_done, drain_emitters, HostAt, Runnable, Parked, edit,
     queues, keys, spent, command
<1>11. SnapsKnown'
  BY DEF IInv, SnapsKnown, NoSnap, drain_emitters, HostAt, Parked, edit, queues, keys, spent,
     command
<1>12. Announced'
  BY DEF HostTypes, BatchKept, BellRung, Announced, Signal, Event, drain_emitters, HostAt
<1>13. Drained'
  BY DEF IInv, Drained, HostTypes, Ticks, CommandKnown, NoSnap, Fiber, Stages, HostRuns,
     drain_emitters, HostAt, Runnable, Parked, edit, queues, keys, spent, command
<1>14. QED
  BY <1>1, <1>2, <1>3, <1>4, <1>5, <1>6, <1>7, <1>8, <1>9, <1>10, <1>11, <1>12, <1>13 DEF IInv

-----------------------------------------------------------------------------
(* The invariant, step by step.                                            *)

LEMMA InitMeets ==
  ASSUME Init
  PROVE  IInv
<1>1. HostTypes
  BY LoopAssumption DEF HostTypes, Stages, NoEnd, Init, W!Init
<1>2. InputTypes
  BY EmptySeq, LoopAssumption DEF InputTypes, Init, W!Init
<1>3. NoSnap \in Snaps /\ NewLane \in LaneStates
  BY LoopAssumption DEF NoSnap, Snaps, NewLane, LaneStates, Init, W!Init
<1>4. WorkTypes
  BY <1>3, LoopAssumption DEF WorkTypes, Init, W!Init
<1>5. Ticks
  BY LoopAssumption DEF Ticks, HostRuns, Init, W!Init
<1>6. CommandKnown
  BY LoopAssumption DEF CommandKnown, Fiber, Init, W!Init
<1>7. NestedTurns /\ BatchKept /\ TimeoutSettled /\ BellRung /\ Announced /\ Drained
  BY LoopAssumption DEF NestedTurns, BatchKept, TimeoutSettled, BellRung, Announced, Drained,
     Init, W!Init
<1>8. LanesOwed /\ SnapsKnown
  BY LoopAssumption DEF LanesOwed, SnapsKnown, NewLane, NoSnap, Init, W!Init
<1>9. QED
  BY <1>1, <1>2, <1>4, <1>5, <1>6, <1>7, <1>8 DEF IInv

LEMMA StutterKeeps ==
  ASSUME IInv, UNCHANGED vars
  PROVE  IInv'
<1>1. UNCHANGED <<mode, host, ends, executing, tty, typed, taken, events, carried,
                  deferred, sig, line, shown, lane, exec, child, awaiting, unanswered>>
  BY DEF vars, keys, queues, edit, command, spent
<1>2. HostTypes' /\ InputTypes' /\ WorkTypes'
  BY <1>1 DEF IInv, HostTypes, InputTypes, WorkTypes
<1>3. Ticks' /\ CommandKnown' /\ NestedTurns' /\ BatchKept' /\ TimeoutSettled'
  BY <1>1 DEF IInv, Ticks, CommandKnown, NestedTurns, BatchKept, TimeoutSettled, HostRuns
<1>4. BellRung' /\ LanesOwed' /\ SnapsKnown' /\ Announced' /\ Drained'
  BY <1>1 DEF IInv, BellRung, LanesOwed, SnapsKnown, Announced, Drained, Snap, child_is_done
<1>5. QED
  BY <1>2, <1>3, <1>4 DEF IInv

LEMMA StepKeeps ==
  ASSUME IInv, Next
  PROVE  IInv'
<1>1. CASE World
  BY <1>1, TypeKeeps, HangUpKeeps, InterruptKeeps, ChildExitKeeps DEF World
<1>2. CASE CommandRuns
  <2>1. CASE Slice(Exec)
    BY <2>1, SliceKeeps DEF Fiber
  <2>2. CASE ExecPark \/ ExecRecv \/ Fork \/ IgnoreSigchld \/ RequestStop
    BY <2>2, ExecParkKeeps, ExecRecvKeeps, ForkKeeps, IgnoreSigchldKeeps, RequestStopKeeps
  <2>3. CASE await_child \/ waitpid \/ await_readable
    BY <2>3, await_childKeeps, waitpidKeeps, await_readableKeeps
  <2>4. CASE Awoken \/ ReadKey \/ Answer
    BY <2>4, AwokenKeeps, ReadKeyKeeps, AnswerKeeps
  <2>5. QED
    BY <1>2, <2>1, <2>2, <2>3, <2>4 DEF CommandRuns
<1>3. ASSUME NEW l \in Lane, LaneRuns(l)
      PROVE  IInv'
  <2>1. l \in Fiber
    BY DEF Fiber
  <2>2. QED
    BY <1>3, <2>1, SliceKeeps, LaneParkKeeps, LaneRecvKeeps, reactor_yieldKeeps,
       PollAnsweredKeeps, apply_reactor_batchKeeps DEF LaneRuns
<1>4. CASE HostSteps
  <2>1. CASE BeginTurn \/ Lead \/ ready_now \/ PollFails
    BY <2>1, BeginTurnKeeps, LeadKeeps, ready_nowKeeps, PollFailsKeeps
  <2>2. CASE drain_tty \/ DrainPipe \/ TakeSignals \/ service_awaits
    BY <2>2, drain_ttyKeeps, DrainPipeKeeps, TakeSignalsKeeps, service_awaitsKeeps
  <2>3. CASE Walk \/ Walked \/ Trail
    BY <2>3, WalkKeeps, WalkedKeeps, TrailKeeps
  <2>4. CASE HandleOther \/ HandleKey \/ \E l \in Lane : notify_reactors(l)
    BY <2>4, HandleOtherKeeps, HandleKeyKeeps, notify_reactorsKeeps
  <2>5. CASE accept_current_line \/ finish_cancelled_line \/ resume_after_execution
    BY <2>5, accept_current_lineKeeps, finish_cancelled_lineKeeps, resume_after_executionKeeps
  <2>6. CASE Leave \/ drain_emitters
    BY <2>6, LeaveKeeps, drain_emittersKeeps
  <2>7. QED
    BY <1>4, <2>1, <2>2, <2>3, <2>4, <2>5, <2>6 DEF HostSteps
<1>5. QED
  BY <1>1, <1>2, <1>3, <1>4 DEF Next

(* Whatever the user types, the kernel reports and a command does, the     *)
(* loop is where the invariant says (event_loop::run, turn, run_the_line). *)
THEOREM LoopInvariant == Spec => []IInv
<1>1. Init => IInv
  BY InitMeets
<1>2. IInv /\ [Next]_vars => IInv'
  BY StepKeeps, StutterKeeps
<1>3. QED
  BY <1>1, <1>2, PTL DEF Spec

-----------------------------------------------------------------------------
(* What follows from it.                                                   *)

LEMMA SleepOwesNothing == IInv => BlockedOwesNothing
<1> SUFFICES ASSUME IInv, PollBlocks
             PROVE  /\ ~exec.done
                    /\ executing => awaiting # "none"
                    /\ ~(awaiting = "child" /\ child_is_done)
                    /\ sig.pending = {}
                    /\ ~executing /\ line.len > 0 => \A l \in Lane : shown[l] = line.view
  BY DEF BlockedOwesNothing
<1>1. /\ host.at = "poll" /\ HostRuns /\ ~host.zero /\ Runnable = {}
      /\ \A fd \in Polled : ~Speaks(fd)
  BY DEF PollBlocks, HostAt, NothingOwed
<1>2. ~sig.byte
  <2>1. "signal" \in Polled
    BY DEF Polled
  <2>2. QED
    BY <1>1, <2>1 DEF Speaks
<1>3. ~exec.done /\ (~executing => ~ends.exiting)
  BY <1>1 DEF IInv, TimeoutSettled
<1>4. sig.pending = {} /\ ~(awaiting = "child" /\ child_is_done)
  BY <1>1, <1>2 DEF IInv, BellRung
<1>5. \A f \in Fiber : mode[f] = "owed" => Parked(f)
  BY <1>1 DEF Runnable
<1>6. \A f \in Fiber : mode[f] # "running" /\ mode[f] \in {"unborn", "owed", "running", "waiting"}
  BY <1>1 DEF HostRuns, IInv, HostTypes
<1>7. executing => awaiting # "none"
  <2>1. SUFFICES ASSUME executing PROVE awaiting # "none"
    OBVIOUS
  <2>2. mode[Exec] = "waiting"
    BY <1>5, <1>6, <2>1, LoopAssumption DEF IInv, CommandKnown, Fiber, Parked
  <2>3. exec.at \in {"recv", "command", "await", "waitpid"}
    BY DEF IInv, WorkTypes
  <2>4. QED
    BY <1>3, <2>1, <2>2, <2>3 DEF IInv, CommandKnown
<1>8. ASSUME ~executing, line.len > 0, NEW l \in Lane
      PROVE  shown[l] = line.view
  <2>1. mode[l] \notin {"owed", "running"}
    BY <1>5, <1>6, <1>8 DEF Fiber, Parked
  <2>2. lane[l].slot = NoSnap /\ lane[l].at = "recv"
    BY <2>1 DEF IInv, LanesOwed
  <2>3. Snap # NoSnap
    BY DEF IInv, WorkTypes, Snap, NoSnap
  <2>4. host.unsent = {}
    BY <1>1 DEF IInv, Ticks
  <2>5. QED
    BY <1>1, <1>3, <1>8, <2>2, <2>3, <2>4 DEF IInv, Announced
<1>9. QED
  BY <1>3, <1>4, <1>7, <1>8

(* The loop never sleeps on something it owes: no answer of a command, no  *)
(* child that has ended, no signal and no reactor's answer for the text on *)
(* the line is left waiting for an unrelated event (turn, enlist,          *)
(* signal_hub::drain, notify_reactors, reactor_body).                      *)
THEOREM NeverSleepsOnADebt == Spec => []BlockedOwesNothing
  BY LoopInvariant, SleepOwesNothing, PTL

LEMMA InvariantKeepsApart == IInv => FibersAreKeptApart
<1> SUFFICES ASSUME IInv PROVE FibersAreKeptApart
  OBVIOUS
<1>1. NoReaderUnderCommand
  BY DEF IInv, CommandKnown, NestedTurns, NoReaderUnderCommand
<1>2. awaiting # "none" => exec.at = "await" /\ mode[Exec] = "waiting"
  BY DEF IInv, CommandKnown
<1>3. host.at \in {"drain", "gone"} => ~has_execution_fiber_mid_command
  BY DEF IInv, NestedTurns, CommandKnown, has_execution_fiber_mid_command
<1>4. host.at = "gone" =>
        \A l \in Lane : mode[l] \in {"unborn", "waiting"} /\ lane[l].at = "recv"
  BY DEF IInv, Drained, LanesOwed
<1>5. QED
  BY <1>1, <1>2, <1>3, <1>4 DEF FibersAreKeptApart, NoFrameOutlivesItsUse

(* A command and the reactors never use the shell's tables at once, and no *)
(* stack is used once it is gone or left: not by the waiter table, not by  *)
(* a command at the end, not by a lane (quiesce, service_awaits,           *)
(* drain_emitters, ~event_loop).                                           *)
THEOREM FibersStayApart == Spec => []FibersAreKeptApart
  BY LoopInvariant, InvariantKeepsApart, PTL

-----------------------------------------------------------------------------
(* Counting keys: where in a sequence they are, and how many there are.    *)

LEMMA ToSetConcat ==
  ASSUME NEW s \in Seq(Event), NEW t \in Seq(Event)
  PROVE  ToSet(s \o t) = ToSet(s) \cup ToSet(t)
<1>1. /\ Len(s \o t) = Len(s) + Len(t) /\ Len(s) \in Nat /\ Len(t) \in Nat
      /\ \A k \in 1 .. Len(s) + Len(t) : (s \o t)[k] = IF k <= Len(s) THEN s[k] ELSE t[k - Len(s)]
      /\ s \o t \in Seq(Event)
  BY ConcatProperties, LenProperties
<1>2. /\ DOMAIN s = 1 .. Len(s) /\ DOMAIN t = 1 .. Len(t)
      /\ DOMAIN (s \o t) = 1 .. Len(s) + Len(t)
  BY <1>1, LenProperties
<1>3. \A k \in 1 .. Len(s) : (s \o t)[k] = s[k] /\ k \in 1 .. Len(s) + Len(t)
  BY <1>1
<1>4. \A k \in 1 .. Len(t) : /\ (s \o t)[k + Len(s)] = t[k]
                             /\ k + Len(s) \in 1 .. Len(s) + Len(t)
  BY <1>1
<1>5. \A k \in 1 .. Len(s) + Len(t) :
        k > Len(s) => k - Len(s) \in 1 .. Len(t) /\ (s \o t)[k] = t[k - Len(s)]
  BY <1>1
<1>6. ToSet(s \o t) \subseteq ToSet(s) \cup ToSet(t)
  BY <1>1, <1>2, <1>3, <1>5 DEF ToSet
<1>7. ToSet(s) \subseteq ToSet(s \o t)
  BY <1>2, <1>3 DEF ToSet
<1>8. ToSet(t) \subseteq ToSet(s \o t)
  BY <1>2, <1>4 DEF ToSet
<1>9. QED
  BY <1>6, <1>7, <1>8

KeysAt(s) == {k \in DOMAIN s : s[k] \in Key}

LEMMA KeysAtFinite ==
  ASSUME NEW s \in Seq(Event)
  PROVE  /\ KeysAt(s) \subseteq 1 .. Len(s) /\ DOMAIN s = 1 .. Len(s)
         /\ IsFiniteSet(KeysAt(s)) /\ KeysOf(s) = Cardinality(KeysAt(s))
         /\ KeysOf(s) \in Nat
<1>1. DOMAIN s = 1 .. Len(s) /\ Len(s) \in Nat
  BY LenProperties
<1>2. IsFiniteSet(1 .. Len(s))
  BY <1>1, FS_Interval
<1>3. KeysAt(s) \subseteq 1 .. Len(s)
  BY <1>1 DEF KeysAt
<1>4. IsFiniteSet(KeysAt(s))
  BY <1>2, <1>3, FS_Subset
<1>5. KeysOf(s) = Cardinality(KeysAt(s))
  BY DEF KeysOf, KeysAt
<1>6. QED
  BY <1>1, <1>3, <1>4, <1>5, FS_CardinalityType

\* Keys of two sequences, one after the other, add up.
LEMMA KeysOfConcat ==
  ASSUME NEW s \in Seq(Event), NEW t \in Seq(Event)
  PROVE  KeysOf(s \o t) = KeysOf(s) + KeysOf(t)
<1> DEFINE m == Len(s)
           B == {k \in 1 .. m + Len(t) : k > m /\ (s \o t)[k] \in Key}
           f == [k \in KeysAt(t) |-> k + m]
<1>1. /\ s \o t \in Seq(Event) /\ Len(s \o t) = m + Len(t) /\ m \in Nat /\ Len(t) \in Nat
      /\ \A k \in 1 .. m + Len(t) : (s \o t)[k] = IF k <= m THEN s[k] ELSE t[k - m]
  BY ConcatProperties, LenProperties
<1>2. /\ DOMAIN s = 1 .. m /\ DOMAIN t = 1 .. Len(t) /\ DOMAIN (s \o t) = 1 .. m + Len(t)
  BY <1>1, KeysAtFinite
<1>3. KeysAt(s \o t) = KeysAt(s) \cup B
  BY <1>1, <1>2 DEF KeysAt
<1>4. KeysAt(s) \cap B = {}
  BY <1>1, <1>2 DEF KeysAt
<1>5. IsFiniteSet(KeysAt(s)) /\ IsFiniteSet(KeysAt(t)) /\ IsFiniteSet(KeysAt(s \o t))
  BY <1>1, KeysAtFinite
<1>6. IsFiniteSet(B)
  BY <1>3, <1>5, FS_Subset
<1>7. f \in Bijection(KeysAt(t), B)
  <2>1. f \in [KeysAt(t) -> B]
    <3>1. SUFFICES ASSUME NEW k \in KeysAt(t) PROVE k + m \in B
      BY DEF f
    <3>2. k \in 1 .. Len(t) /\ t[k] \in Key
      BY <1>2 DEF KeysAt
    <3>3. k + m \in 1 .. m + Len(t) /\ k + m > m /\ (k + m) - m = k
      BY <1>1, <3>2
    <3>4. QED
      BY <1>1, <3>2, <3>3
  <2>2. \A a, b \in KeysAt(t) : f[a] = f[b] => a = b
    BY <1>1, <1>2 DEF KeysAt
  <2>3. \A b \in B : \E a \in KeysAt(t) : f[a] = b
    <3>1. SUFFICES ASSUME NEW b \in B PROVE \E a \in KeysAt(t) : f[a] = b
      OBVIOUS
    <3>2. b \in 1 .. m + Len(t) /\ b > m /\ (s \o t)[b] \in Key
      OBVIOUS
    <3>3. b - m \in 1 .. Len(t) /\ t[b - m] \in Key /\ (b - m) + m = b
      BY <1>1, <3>2
    <3>4. b - m \in KeysAt(t)
      BY <1>2, <3>3 DEF KeysAt
    <3>5. QED
      BY <3>3, <3>4
  <2>4. QED
    BY <2>1, <2>2, <2>3 DEF Bijection, Injection, Surjection, IsInjective
<1>8. Cardinality(B) = Cardinality(KeysAt(t))
  BY <1>5, <1>7, FS_Bijection DEF ExistsBijection
<1>9. Cardinality(KeysAt(s) \cup B) = Cardinality(KeysAt(s)) + Cardinality(B)
  <2>1. Cardinality(KeysAt(s) \cup B)
          = Cardinality(KeysAt(s)) + Cardinality(B) - Cardinality(KeysAt(s) \cap B)
    BY <1>5, <1>6, FS_Union
  <2>2. Cardinality(KeysAt(s) \cap B) = 0
    BY <1>4, FS_EmptySet
  <2>3. Cardinality(KeysAt(s)) \in Nat /\ Cardinality(B) \in Nat
    BY <1>5, <1>6, FS_CardinalityType
  <2> HIDE DEF B
  <2>4. QED
    BY <2>1, <2>2, <2>3
<1>10. QED
  BY <1>1, <1>3, <1>8, <1>9, KeysAtFinite

LEMMA KeysOfOne ==
  ASSUME NEW e \in Event
  PROVE  KeysOf(<<e>>) = IF e \in Key THEN 1 ELSE 0
<1>1. DOMAIN <<e>> = {1} /\ <<e>>[1] = e
  OBVIOUS
<1>2. KeysAt(<<e>>) = IF e \in Key THEN {1} ELSE {}
  BY <1>1 DEF KeysAt
<1>3. KeysOf(<<e>>) = Cardinality(KeysAt(<<e>>))
  BY DEF KeysOf, KeysAt
<1>4. QED
  BY <1>2, <1>3, FS_EmptySet, FS_Singleton

\* Nothing but keys, and no key at all.
LEMMA KeysOfKeys ==
  ASSUME NEW s \in Seq(Key)
  PROVE  KeysOf(s) = Len(s)
<1>1. DOMAIN s = 1 .. Len(s) /\ Len(s) \in Nat /\ \A k \in 1 .. Len(s) : s[k] \in Key
  BY LenProperties
<1>2. KeysAt(s) = 1 .. Len(s)
  BY <1>1 DEF KeysAt
<1>3. Cardinality(1 .. Len(s)) = Len(s)
  <2>1. 1 \in Int /\ Len(s) \in Int
    BY <1>1
  <2>2. Cardinality(1 .. Len(s)) = IF 1 > Len(s) THEN 0 ELSE Len(s) - 1 + 1
    BY <2>1, FS_Interval
  <2>3. QED
    BY <1>1, <2>2
<1>4. QED
  BY <1>2, <1>3 DEF KeysOf, KeysAt

LEMMA KeysOfSignals ==
  ASSUME NEW s \in Seq(Signal)
  PROVE  KeysOf(s) = 0
<1>1. DOMAIN s = 1 .. Len(s) /\ \A k \in 1 .. Len(s) : s[k] \in Signal
  BY LenProperties
<1>2. Signal \cap Key = {}
  BY DEF Signal, Key
<1>3. KeysAt(s) = {}
  BY <1>1, <1>2 DEF KeysAt
<1>4. QED
  BY <1>3, FS_EmptySet DEF KeysOf, KeysAt

\* Taking the first of a batch takes its key, if it is one, and leaves the rest.
LEMMA HeadTaken ==
  ASSUME NEW s \in Seq(Event), s # <<>>
  PROVE  /\ KeysOf(s) = KeysOf(Tail(s)) + (IF Head(s) \in Key THEN 1 ELSE 0)
         /\ ToSet(s) = ToSet(Tail(s)) \cup {Head(s)}
         /\ KeysOf(Tail(s)) \in Nat
<1>1. /\ Head(s) \in Event /\ Tail(s) \in Seq(Event) /\ Len(Tail(s)) = Len(s) - 1
      /\ \A k \in 1 .. Len(Tail(s)) : Tail(s)[k] = s[k + 1]
  BY HeadTailProperties
<1>2. <<Head(s)>> \in Seq(Event) /\ Len(<<Head(s)>>) = 1 /\ <<Head(s)>>[1] = Head(s)
  BY <1>1
<1>3. s = <<Head(s)>> \o Tail(s)
  OBVIOUS
<1>4. KeysOf(s) = KeysOf(<<Head(s)>>) + KeysOf(Tail(s))
  BY <1>1, <1>2, <1>3, KeysOfConcat
<1>5. KeysOf(Tail(s)) \in Nat
  BY <1>1, KeysAtFinite
<1>6. ToSet(s) = ToSet(<<Head(s)>>) \cup ToSet(Tail(s))
  BY <1>1, <1>2, <1>3, ToSetConcat
<1>7. ToSet(<<Head(s)>>) = {Head(s)}
  BY <1>2 DEF ToSet
<1>8. QED
  BY <1>1, <1>4, <1>5, <1>6, <1>7, KeysOfOne

(* What is typed and what interrupts, step by step.                        *)

\* A step that moves no key and no signal.
LEMMA NothingMoved ==
  ASSUME InputIsKept,
         UNCHANGED <<typed, taken, events, carried, deferred>>,
         tty'.keys = tty.keys, sig.pending \subseteq sig'.pending,
         unanswered' => unanswered \/ "INT" \in sig'.pending,
         ends.exiting => ends'.exiting
  PROVE  InputIsKept'
<1>1. NothingTypedIsLost'
  BY DEF InputIsKept, NothingTypedIsLost, KeysOf
<1>2. InterruptIsKept'
  BY DEF InputIsKept, InterruptIsKept, ToSet
<1>3. QED
  BY <1>1, <1>2 DEF InputIsKept

LEMMA QuietStepsKeepInput ==
  ASSUME IInv, InputIsKept,
         \/ HangUp \/ Interrupt \/ ChildExit
         \/ \E f \in Fiber : Slice(f)
         \/ \E l \in Lane : LanePark(l) \/ LaneRecv(l) \/ reactor_yield(l)
                            \/ PollAnswered(l) \/ notify_reactors(l)
         \/ ExecPark \/ ExecRecv \/ Fork \/ IgnoreSigchld \/ RequestStop
         \/ await_child \/ waitpid \/ await_readable \/ Awoken \/ Answer
         \/ Lead \/ ready_now \/ PollFails \/ DrainPipe \/ service_awaits
         \/ Walked \/ Trail \/ resume_after_execution \/ Leave \/ drain_emitters
         \/ UNCHANGED vars
  PROVE  InputIsKept'
<1> DEFINE Quiet == /\ UNCHANGED <<typed, taken, events, carried, deferred>>
                    /\ tty'.keys = tty.keys /\ sig.pending \subseteq sig'.pending
                    /\ unanswered' => unanswered \/ "INT" \in sig'.pending
                    /\ ends.exiting => ends'.exiting
<1>t. /\ tty \in [keys : Seq(Key), gone : BOOLEAN]
      /\ sig \in [pending : SUBSET Signal, byte : BOOLEAN, caught : BOOLEAN]
      /\ ends \in [exiting : BOOLEAN, stopping : BOOLEAN, pollFailed : BOOLEAN]
  BY DEF IInv, InputTypes, HostTypes
<1>1. SUFFICES Quiet
  BY NothingMoved
<1>2. CASE HangUp \/ Interrupt \/ ChildExit
  <2>1. CASE HangUp
    BY <2>1, <1>t DEF HangUp, queues, spent
  <2>2. CASE Interrupt
    <3>1. sig'.pending = sig.pending \cup {"INT"}
      BY <2>2, <1>t DEF Interrupt, deliver
    <3>2. QED
      BY <2>2, <3>1 DEF Interrupt, queues, keys
  <2>3. CASE ChildExit
    <3>1. sig'.pending \in {sig.pending, sig.pending \cup {"CHLD"}}
      BY <2>3, <1>t DEF ChildExit, deliver
    <3>2. QED
      BY <2>3, <3>1 DEF ChildExit, queues, keys, spent
  <2>4. QED
    BY <1>2, <2>1, <2>2, <2>3
<1>3. ASSUME NEW f \in Fiber, Slice(f) PROVE Quiet
  BY <1>3 DEF Slice, queues, keys, spent
<1>4. ASSUME NEW l \in Lane, LanePark(l) \/ LaneRecv(l) \/ reactor_yield(l) \/ PollAnswered(l)
      PROVE Quiet
  <2>1. \E changed : LaneStep(l, changed)
    BY <1>4 DEF LanePark, LaneRecv, reactor_yield, PollAnswered
  <2>2. events' = events
    BY <1>4 DEF LanePark, LaneRecv, reactor_yield, PollAnswered
  <2>3. UNCHANGED <<typed, taken, tty, carried, deferred, sig, unanswered, ends>>
    BY <2>1 DEF LaneStep, keys, spent
  <2>4. QED
    BY <2>2, <2>3
<1>5. ASSUME NEW l \in Lane, notify_reactors(l) PROVE Quiet
  BY <1>5 DEF notify_reactors, queues, keys, spent
<1>6. CASE ExecPark \/ ExecRecv \/ Fork \/ IgnoreSigchld \/ RequestStop
  BY <1>6, <1>t DEF ExecPark, ExecRecv, Fork, IgnoreSigchld, RequestStop, ExecStep, queues
<1>7. CASE await_child \/ waitpid \/ await_readable \/ Awoken \/ Answer
  BY <1>7 DEF await_child, waitpid, await_readable, Awoken, Answer, ExecStep, queues
<1>8. CASE Lead \/ Trail \/ ready_now \/ Walked \/ Leave \/ drain_emitters \/ service_awaits
  BY <1>8 DEF Lead, Trail, Ticked, ready_now, Walked, Leave, drain_emitters, service_awaits,
     queues, keys, spent
<1>9. CASE PollFails
  BY <1>9, <1>t DEF PollFails, AfterFailure, queues, keys
<1>10. CASE DrainPipe
  BY <1>10, <1>t DEF DrainPipe, queues, keys, spent
<1>11. CASE resume_after_execution
  BY <1>11, <1>t DEF resume_after_execution, Ending, queues, keys, spent
<1>12. CASE UNCHANGED vars
  BY <1>12 DEF vars, queues, keys, spent
<1>13. QED
  BY <1>2, <1>3, <1>4, <1>5, <1>6, <1>7, <1>8, <1>9, <1>10, <1>11, <1>12

LEMMA TypeKeepsInput ==
  ASSUME IInv, InputIsKept, NEW key \in Key, Type(key)
  PROVE  InputIsKept'
<1>1. /\ typed \in Seq(Key) /\ tty \in [keys : Seq(Key), gone : BOOLEAN]
      /\ typed' = Append(typed, key) /\ tty'.keys = Append(tty.keys, key)
      /\ UNCHANGED <<taken, events, carried, deferred, sig, ends, unanswered>>
  BY DEF IInv, InputTypes, Type, queues, spent
<1>2. /\ Len(typed') = Len(typed) + 1 /\ Len(tty'.keys) = Len(tty.keys) + 1
      /\ Len(typed) \in Nat /\ Len(tty.keys) \in Nat
  BY <1>1, AppendProperties, LenProperties
<1>3. KeysOf(carried) \in Nat /\ KeysOf(events) \in Nat /\ taken \in Nat
  BY KeysAtFinite DEF IInv, InputTypes
<1>4. KeysOf(carried)' = KeysOf(carried) /\ KeysOf(events)' = KeysOf(events)
  BY <1>1 DEF KeysOf
<1>5. NothingTypedIsLost'
  <2>1. SUFFICES ASSUME ~ends.exiting
                 PROVE  Len(typed') = taken + KeysOf(carried) + KeysOf(events) + Len(tty'.keys)
    BY <1>1, <1>4 DEF NothingTypedIsLost
  <2>2. Len(typed) = taken + KeysOf(carried) + KeysOf(events) + Len(tty.keys)
    BY <2>1 DEF InputIsKept, NothingTypedIsLost
  <2>3. QED
    BY <1>2, <1>3, <2>2
<1>6. InterruptIsKept'
  BY <1>1 DEF InputIsKept, InterruptIsKept, ToSet
<1>7. QED
  BY <1>5, <1>6 DEF InputIsKept

LEMMA ReadKeyKeepsInput ==
  ASSUME IInv, InputIsKept, ReadKey
  PROVE  InputIsKept'
<1>1. /\ tty \in [keys : Seq(Key), gone : BOOLEAN] /\ tty.keys # <<>>
      /\ tty'.keys = Tail(tty.keys) /\ taken' = taken + 1
      /\ UNCHANGED <<typed, events, carried, deferred, sig, ends, unanswered>>
  BY DEF IInv, InputTypes, ReadKey, ExecStep, queues
<1>2. Len(tty'.keys) = Len(tty.keys) - 1 /\ Len(tty.keys) \in Nat
  BY <1>1, HeadTailProperties, LenProperties
<1>3. KeysOf(carried) \in Nat /\ KeysOf(events) \in Nat /\ taken \in Nat
  BY KeysAtFinite DEF IInv, InputTypes
<1>4. KeysOf(carried)' = KeysOf(carried) /\ KeysOf(events)' = KeysOf(events)
  BY <1>1 DEF KeysOf
<1>5. NothingTypedIsLost'
  BY <1>1, <1>2, <1>3, <1>4 DEF InputIsKept, NothingTypedIsLost
<1>6. InterruptIsKept'
  BY <1>1 DEF InputIsKept, InterruptIsKept, ToSet
<1>7. QED
  BY <1>5, <1>6 DEF InputIsKept

LEMMA BatchKeepsInput ==
  ASSUME IInv, InputIsKept, NEW l \in Lane, apply_reactor_batch(l)
  PROVE  InputIsKept'
<1>1. /\ UNCHANGED <<typed, taken, carried, deferred, sig, ends, unanswered, tty>>
      /\ events' \in {events, Append(events, "result")}
      /\ events \in Seq(Event) /\ "result" \in Event \ Key
  BY DEF IInv, InputTypes, apply_reactor_batch, LaneStep, keys, spent, Event, Key, Signal
<1>2. Append(events, "result") = events \o <<"result">> /\ <<"result">> \in Seq(Event)
  BY <1>1, AppendIsConcat
<1>3. KeysOf(Append(events, "result")) = KeysOf(events) /\ KeysOf(events) \in Nat
  <2>1. KeysOf(events \o <<"result">>) = KeysOf(events) + KeysOf(<<"result">>)
    BY <1>1, <1>2, KeysOfConcat
  <2>2. KeysOf(<<"result">>) = 0
    BY <1>1, KeysOfOne
  <2>3. KeysOf(events) \in Nat
    BY <1>1, KeysAtFinite
  <2>4. KeysOf(events \o <<"result">>) = KeysOf(events)
    BY <2>1, <2>2, <2>3
  <2>5. QED
    BY <1>2, <2>3, <2>4, Zenon
<1>4. ToSet(events) \subseteq ToSet(Append(events, "result"))
  BY <1>1, <1>2, ToSetConcat
<1>5. KeysOf(carried)' = KeysOf(carried) /\ KeysOf(events)' = KeysOf(events)
  BY <1>1, <1>3 DEF KeysOf
<1>6. NothingTypedIsLost'
  BY <1>1, <1>5 DEF InputIsKept, NothingTypedIsLost
<1>7. ToSet(events) \subseteq ToSet(events)' /\ ToSet(carried)' = ToSet(carried)
      /\ ToSet(deferred)' = ToSet(deferred)
  BY <1>1, <1>4 DEF ToSet
<1>8. InterruptIsKept'
  BY <1>1, <1>7 DEF InputIsKept, InterruptIsKept
<1>9. QED
  BY <1>6, <1>8 DEF InputIsKept

LEMMA BeginTurnKeepsInput ==
  ASSUME IInv, InputIsKept, BeginTurn
  PROVE  InputIsKept'
<1>1. /\ host.at = "top" /\ UNCHANGED <<typed, taken, carried, sig, ends, unanswered, tty>>
      /\ events' = IF executing THEN <<>> ELSE deferred
      /\ deferred' = IF executing THEN deferred ELSE <<>>
  BY DEF BeginTurn, HostAt, keys, spent
<1>2. deferred \in Seq(Signal) /\ KeysOf(deferred) = 0 /\ KeysOf(<<>>) = 0
  <2>1. deferred \in Seq(Signal) /\ <<>> \in Seq(Signal)
    BY DEF IInv, InputTypes
  <2>2. QED
    BY <2>1, KeysOfSignals
<1>3. SUFFICES ASSUME ~ends.exiting
               PROVE  InputIsKept'
  BY <1>1 DEF InputIsKept, NothingTypedIsLost, InterruptIsKept
<1>4. events = <<>>
  BY <1>1, <1>3 DEF IInv, BatchKept
<1>5. KeysOf(events) = 0 /\ KeysOf(events') = 0 /\ ToSet(<<>>) = {}
  BY <1>1, <1>2, <1>4 DEF ToSet
<1>6. KeysOf(carried)' = KeysOf(carried) /\ KeysOf(events)' = KeysOf(events)
  BY <1>1, <1>5 DEF KeysOf
<1>7. NothingTypedIsLost'
  BY <1>1, <1>6 DEF InputIsKept, NothingTypedIsLost
<1>8. /\ ToSet(carried)' = ToSet(carried)
      /\ ToSet(deferred)' \cup ToSet(events)' = ToSet(deferred) \cup ToSet(events)
  BY <1>1, <1>4, <1>5 DEF ToSet
<1>9. InterruptIsKept'
  BY <1>1, <1>8 DEF InputIsKept, InterruptIsKept
<1>10. QED
  BY <1>7, <1>9 DEF InputIsKept

LEMMA DrainKeepsInput ==
  ASSUME IInv, InputIsKept, drain_tty
  PROVE  InputIsKept'
<1>1. /\ UNCHANGED <<typed, taken, carried, deferred, sig, unanswered>>
      /\ tty \in [keys : Seq(Key), gone : BOOLEAN] /\ events \in Seq(Event)
      /\ ends \in [exiting : BOOLEAN, stopping : BOOLEAN, pollFailed : BOOLEAN]
  BY DEF IInv, InputTypes, HostTypes, drain_tty, keys, spent
<1>2. CASE "tty" \notin host.ready
  <2>1. tty' = tty /\ events' = events /\ ends' = ends
    BY <1>2 DEF drain_tty
  <2>2. QED
    BY <1>1, <2>1, NothingMoved
<1>3. CASE "tty" \in host.ready
  <2> DEFINE hup == IF tty.gone THEN <<"HUP">> ELSE <<>>
  <2>1. /\ tty'.keys = <<>> /\ events' = events \o tty.keys \o hup
        /\ (ends.exiting => ends'.exiting)
    BY <1>1, <1>3 DEF drain_tty, Unread
  <2>2. tty.keys \in Seq(Event) /\ hup \in Seq(Event) /\ KeysOf(hup) = 0
    <3>1. tty.keys \in Seq(Event)
      BY <1>1 DEF Event
    <3>2. "HUP" \in Event /\ "HUP" \notin Key /\ <<>> \in Seq(Signal)
      BY DEF Event, Key
    <3>3. <<"HUP">> \in Seq(Event) /\ <<>> \in Seq(Event)
      BY <3>2
    <3>4. KeysOf(<<"HUP">>) = 0 /\ KeysOf(<<>>) = 0
      BY <3>2, KeysOfOne, KeysOfSignals
    <3>5. QED
      BY <3>1, <3>3, <3>4
  <2>3. events \o tty.keys \in Seq(Event)
    BY <1>1, <2>2, ConcatProperties
  <2> HIDE DEF hup
  <2>4. /\ KeysOf(events \o tty.keys \o hup) = KeysOf(events) + Len(tty.keys) + 0
        /\ KeysOf(events) \in Nat /\ Len(tty.keys) \in Nat
    <3>1. KeysOf(events \o tty.keys) = KeysOf(events) + KeysOf(tty.keys)
      BY <1>1, <2>2, KeysOfConcat
    <3>2. KeysOf((events \o tty.keys) \o hup) = KeysOf(events \o tty.keys) + KeysOf(hup)
      BY <2>2, <2>3, KeysOfConcat
    <3>3. KeysOf(tty.keys) = Len(tty.keys)
      BY <1>1, KeysOfKeys
    <3>4. KeysOf(events) \in Nat /\ Len(tty.keys) \in Nat
      BY <1>1, KeysAtFinite, LenProperties
    <3>5. QED
      BY <2>2, <3>1, <3>2, <3>3, <3>4
  <2>5. /\ KeysOf(events)' = KeysOf(events) + Len(tty.keys)
        /\ KeysOf(carried)' = KeysOf(carried) /\ Len(tty'.keys) = 0
    <3>1. KeysOf(events') = KeysOf(events) + Len(tty.keys)
      BY <2>1, <2>4
    <3>2. QED
      BY <1>1, <2>1, <3>1 DEF KeysOf
  <2>6. NothingTypedIsLost'
    <3>1. KeysOf(carried) \in Nat /\ taken \in Nat
      BY KeysAtFinite DEF IInv, InputTypes
    <3>2. QED
      BY <1>1, <2>1, <2>4, <2>5, <3>1 DEF InputIsKept, NothingTypedIsLost
  <2>7. ToSet(events) \subseteq ToSet(events')
    <3>1. ToSet(events \o tty.keys) = ToSet(events) \cup ToSet(tty.keys)
      BY <1>1, <2>2, ToSetConcat
    <3>2. ToSet((events \o tty.keys) \o hup) = ToSet(events \o tty.keys) \cup ToSet(hup)
      BY <2>2, <2>3, ToSetConcat
    <3>3. QED
      BY <2>1, <3>1, <3>2
  <2>8. InterruptIsKept'
    <3>1. ToSet(events) \subseteq ToSet(events)' /\ ToSet(carried)' = ToSet(carried)
          /\ ToSet(deferred)' = ToSet(deferred)
      BY <1>1, <2>7 DEF ToSet
    <3>2. QED
      BY <1>1, <2>1, <3>1 DEF InputIsKept, InterruptIsKept
  <2>9. QED
    BY <2>6, <2>8 DEF InputIsKept
<1>4. QED
  BY <1>2, <1>3

\* The signals taken are the pending ones, and none of them is a key.
LEMMA ByNumberTells ==
  ASSUME NEW signals \in SUBSET Signal
  PROVE  ToSet(ByNumber(signals)) = signals /\ KeysOf(ByNumber(signals)) = 0
<1>1. /\ "INT" \in Signal /\ "CHLD" \in Signal /\ Signal = {"INT", "CHLD"}
      /\ Signal \subseteq Event
  BY DEF Signal, Event
<1>2. <<"INT">> \in Seq(Event) /\ <<"CHLD">> \in Seq(Event) /\ <<>> \in Seq(Event)
  BY <1>1
<1> DEFINE first == IF "INT" \in signals THEN <<"INT">> ELSE <<>>
           second == IF "CHLD" \in signals THEN <<"CHLD">> ELSE <<>>
<1>3. ToSet(<<"INT">>) = {"INT"} /\ ToSet(<<"CHLD">>) = {"CHLD"} /\ ToSet(<<>>) = {}
  BY DEF ToSet
<1>4. first \in Seq(Event) /\ second \in Seq(Event)
  BY <1>2
<1>5. ToSet(first) = signals \cap {"INT"} /\ ToSet(second) = signals \cap {"CHLD"}
  BY <1>3
<1>6. ByNumber(signals) = first \o second
  BY DEF ByNumber
<1> HIDE DEF first, second
<1>7. ToSet(ByNumber(signals)) = ToSet(first) \cup ToSet(second)
  BY <1>4, <1>6, ToSetConcat
<1>8. KeysOf(ByNumber(signals)) = 0
  BY ByNumberIsSeq, KeysOfSignals
<1>9. QED
  BY <1>1, <1>5, <1>7, <1>8

LEMMA TakeKeepsInput ==
  ASSUME IInv, InputIsKept, TakeSignals
  PROVE  InputIsKept'
<1>1. /\ UNCHANGED <<typed, taken, carried, tty, ends, unanswered>>
      /\ sig \in [pending : SUBSET Signal, byte : BOOLEAN, caught : BOOLEAN]
      /\ events \in Seq(Event) /\ deferred \in Seq(Signal)
      /\ Signal \subseteq Event
  BY DEF IInv, InputTypes, TakeSignals, keys, spent, Event
<1>2. sig.pending \in SUBSET Signal /\ sig.pending \ ToSet(deferred) \in SUBSET Signal
  BY <1>1
<1>3. CASE HoldsBack
  <2> DEFINE new == ByNumber(sig.pending \ ToSet(deferred))
  <2>1. events' = events /\ deferred' = deferred \o new
    BY <1>3 DEF TakeSignals, Held
  <2>2. ToSet(new) = sig.pending \ ToSet(deferred) /\ new \in Seq(Event) /\ deferred \in Seq(Event)
    BY <1>1, <1>2, ByNumberTells, ByNumberIsSeq
  <2> HIDE DEF new
  <2>3. ToSet(deferred') = ToSet(deferred) \cup sig.pending
    <3>1. ToSet(deferred \o new) = ToSet(deferred) \cup ToSet(new)
      BY <2>2, ToSetConcat
    <3>2. QED
      BY <2>1, <2>2, <3>1
  <2>4. KeysOf(events)' = KeysOf(events) /\ KeysOf(carried)' = KeysOf(carried)
    BY <1>1, <2>1 DEF KeysOf
  <2>5. NothingTypedIsLost'
    BY <1>1, <2>4 DEF InputIsKept, NothingTypedIsLost
  <2>6. ToSet(deferred)' = ToSet(deferred) \cup sig.pending /\ ToSet(events)' = ToSet(events)
        /\ ToSet(carried)' = ToSet(carried)
    BY <1>1, <2>1, <2>3 DEF ToSet
  <2>7. InterruptIsKept'
    BY <1>1, <2>6 DEF InputIsKept, InterruptIsKept
  <2>8. QED
    BY <2>5, <2>7 DEF InputIsKept
<1>4. CASE ~HoldsBack
  <2> DEFINE new == ByNumber(sig.pending)
  <2>1. events' = events \o new /\ deferred' = deferred
    BY <1>4 DEF TakeSignals, Pending
  <2>2. ToSet(new) = sig.pending /\ new \in Seq(Event) /\ KeysOf(new) = 0
    BY <1>1, <1>2, ByNumberTells, ByNumberIsSeq
  <2> HIDE DEF new
  <2>3. ToSet(events') = ToSet(events) \cup sig.pending
    <3>1. ToSet(events \o new) = ToSet(events) \cup ToSet(new)
      BY <1>1, <2>2, ToSetConcat
    <3>2. QED
      BY <2>1, <2>2, <3>1
  <2>4. KeysOf(events') = KeysOf(events)
    <3>1. KeysOf(events \o new) = KeysOf(events) + KeysOf(new) /\ KeysOf(events) \in Nat
      BY <1>1, <2>2, KeysOfConcat, KeysAtFinite
    <3>2. QED
      BY <2>1, <2>2, <3>1
  <2>5. NothingTypedIsLost'
    <3>1. KeysOf(events)' = KeysOf(events) /\ KeysOf(carried)' = KeysOf(carried)
      BY <1>1, <2>4 DEF KeysOf
    <3>2. QED
      BY <1>1, <3>1 DEF InputIsKept, NothingTypedIsLost
  <2>6. ToSet(events)' = ToSet(events) \cup sig.pending /\ ToSet(deferred)' = ToSet(deferred)
        /\ ToSet(carried)' = ToSet(carried)
    BY <1>1, <2>1, <2>3 DEF ToSet
  <2>7. InterruptIsKept'
    BY <1>1, <2>6 DEF InputIsKept, InterruptIsKept
  <2>8. QED
    BY <2>5, <2>7 DEF InputIsKept
<1>5. QED
  BY <1>3, <1>4

LEMMA WalkKeepsInput ==
  ASSUME IInv, InputIsKept, Walk
  PROVE  InputIsKept'
<1>1. /\ host.at = "walk" /\ UNCHANGED <<typed, taken, deferred, sig, tty, ends, unanswered>>
      /\ events \in Seq(Event) /\ carried \in Seq(Event)
  BY DEF IInv, InputTypes, Walk, HostAt, keys, spent
<1>2. CASE events = <<>>
  <2>1. events' = events /\ carried' = carried
    BY <1>2 DEF Walk
  <2>2. QED
    BY <1>1, <2>1, NothingMoved
<1>3. CASE events # <<>>
  <2>1. carried' = events /\ events' = <<>>
    BY <1>3 DEF Walk
  <2>2. SUFFICES ASSUME ~ends.exiting PROVE InputIsKept'
    BY <1>1 DEF InputIsKept, NothingTypedIsLost, InterruptIsKept
  <2>3. carried = <<>>
    BY <1>1, <1>3, <2>2 DEF IInv, NestedTurns, BatchKept
  <2>4. KeysOf(<<>>) = 0 /\ ToSet(<<>>) = {}
    <3>1. <<>> \in Seq(Signal)
      OBVIOUS
    <3>2. ToSet(<<>>) = {}
      BY DEF ToSet
    <3>3. QED
      BY <3>1, <3>2, KeysOfSignals
  <2>5. /\ KeysOf(carried') = KeysOf(events) /\ KeysOf(events') = 0 /\ KeysOf(carried) = 0
        /\ KeysOf(events) \in Nat /\ taken \in Nat
    BY <1>1, <2>1, <2>3, <2>4, KeysAtFinite DEF IInv, InputTypes
  <2>6. NothingTypedIsLost'
    <3>1. KeysOf(carried)' = KeysOf(events) /\ KeysOf(events)' = 0
      BY <2>5 DEF KeysOf
    <3>2. QED
      BY <1>1, <2>5, <3>1 DEF InputIsKept, NothingTypedIsLost
  <2>7. ToSet(carried)' = ToSet(events) /\ ToSet(events)' = ToSet(carried)
        /\ ToSet(deferred)' = ToSet(deferred)
    BY <1>1, <2>1, <2>3 DEF ToSet
  <2>8. InterruptIsKept'
    BY <1>1, <2>7 DEF InputIsKept, InterruptIsKept
  <2>9. QED
    BY <2>6, <2>8 DEF InputIsKept
<1>4. QED
  BY <1>2, <1>3

\* One event acted on: the others stay, and a key is counted once.
LEMMA HandlesKeepsInput ==
  ASSUME IInv, InputIsKept, NEW kinds, Handles(kinds),
         UNCHANGED <<typed, tty, events, deferred, sig, ends>>,
         unanswered' => unanswered /\ "INT" \notin kinds
  PROVE  InputIsKept'
<1>1. /\ carried \in Seq(Event) /\ carried # <<>> /\ carried' = Tail(carried)
      /\ Head(carried) \in kinds
      /\ taken' = IF Head(carried) \in Key THEN taken + 1 ELSE taken
  BY DEF Handles, IInv, InputTypes
<1>2. /\ KeysOf(carried) = KeysOf(carried') + (IF Head(carried) \in Key THEN 1 ELSE 0)
      /\ ToSet(carried) = ToSet(carried') \cup {Head(carried)}
      /\ KeysOf(carried') \in Nat
  BY <1>1, HeadTaken
<1>3. KeysOf(carried)' = KeysOf(carried') /\ KeysOf(events)' = KeysOf(events)
      /\ ToSet(carried)' = ToSet(carried') /\ ToSet(events)' = ToSet(events)
      /\ ToSet(deferred)' = ToSet(deferred)
  BY DEF KeysOf, ToSet
<1>4. KeysOf(events) \in Nat /\ taken \in Nat /\ Len(tty.keys) \in Nat
  BY KeysAtFinite, LenProperties DEF IInv, InputTypes
<1>5. NothingTypedIsLost'
  <2> DEFINE one == IF Head(carried) \in Key THEN 1 ELSE 0
  <2>1. /\ taken' = taken + one /\ KeysOf(carried) = KeysOf(carried)' + one
        /\ KeysOf(events)' = KeysOf(events) /\ one \in {0, 1}
        /\ KeysOf(carried)' \in Nat
    BY <1>1, <1>2, <1>3, <1>4
  <2>2. /\ ends' = ends /\ Len(typed)' = Len(typed)
        /\ Len(tty.keys)' = Len(tty.keys)
    OBVIOUS
  <2>3. ~ends.exiting => Len(typed) = taken + KeysOf(carried) + KeysOf(events) + Len(tty.keys)
    BY DEF InputIsKept, NothingTypedIsLost
  <2> HIDE DEF one
  <2>4. taken + KeysOf(carried) + KeysOf(events) + Len(tty.keys)
        = taken' + KeysOf(carried)' + KeysOf(events)' + Len(tty.keys)'
    BY <1>4, <2>1, <2>2
  <2> QED BY <2>2, <2>3, <2>4 DEF NothingTypedIsLost
<1>6. InterruptIsKept'
  BY <1>1, <1>2, <1>3 DEF InputIsKept, InterruptIsKept
<1>7. QED
  BY <1>5, <1>6 DEF InputIsKept

LEMMA EventsKeepInput ==
  ASSUME IInv, InputIsKept,
         HandleOther \/ HandleKey \/ accept_current_line \/ finish_cancelled_line
  PROVE  InputIsKept'
<1>1. CASE HandleOther
  BY <1>1, HandlesKeepsInput DEF HandleOther, spent
<1>2. CASE HandleKey
  BY <1>2, HandlesKeepsInput DEF HandleKey, spent
<1>3. CASE accept_current_line
  BY <1>3, HandlesKeepsInput DEF accept_current_line, spent
<1>4. CASE finish_cancelled_line
  BY <1>4, HandlesKeepsInput DEF finish_cancelled_line
<1>5. QED
  BY <1>1, <1>2, <1>3, <1>4

LEMMA StepKeepsInput ==
  ASSUME IInv, InputIsKept, [Next]_vars
  PROVE  InputIsKept'
<1>1. CASE World
  BY <1>1, TypeKeepsInput, QuietStepsKeepInput DEF World
<1>2. CASE CommandRuns
  <2>1. CASE Slice(Exec)
    <3>1. Exec \in Fiber
      BY DEF Fiber
    <3>2. QED
      BY <2>1, <3>1, QuietStepsKeepInput
  <2>2. CASE ReadKey
    BY <2>2, ReadKeyKeepsInput
  <2>3. CASE CommandRuns /\ ~Slice(Exec) /\ ~ReadKey
    BY <2>3, QuietStepsKeepInput DEF CommandRuns
  <2>4. QED
    BY <1>2, <2>1, <2>2, <2>3
<1>3. ASSUME NEW l \in Lane, LaneRuns(l)
      PROVE  InputIsKept'
  <2>1. CASE Slice(l)
    <3>1. l \in Fiber
      BY DEF Fiber
    <3>2. QED
      BY <2>1, <3>1, QuietStepsKeepInput
  <2>2. CASE apply_reactor_batch(l)
    BY <2>2, BatchKeepsInput
  <2>3. CASE LanePark(l) \/ LaneRecv(l) \/ reactor_yield(l) \/ PollAnswered(l)
    BY <2>3, QuietStepsKeepInput
  <2>4. QED
    BY <1>3, <2>1, <2>2, <2>3 DEF LaneRuns
<1>4. CASE HostSteps
  <2>1. CASE BeginTurn \/ drain_tty \/ TakeSignals \/ Walk
    BY <2>1, BeginTurnKeepsInput, DrainKeepsInput, TakeKeepsInput, WalkKeepsInput
  <2>2. CASE HandleOther \/ HandleKey \/ accept_current_line \/ finish_cancelled_line
    BY <2>2, EventsKeepInput
  <2>3. CASE \/ Lead \/ ready_now \/ PollFails \/ DrainPipe \/ service_awaits \/ Walked
             \/ Trail \/ (\E l \in Lane : notify_reactors(l)) \/ resume_after_execution
             \/ Leave \/ drain_emitters
    BY <2>3, QuietStepsKeepInput
  <2>4. QED
    BY <1>4, <2>1, <2>2, <2>3 DEF HostSteps
<1>5. CASE UNCHANGED vars
  BY <1>5, QuietStepsKeepInput
<1>6. QED
  BY <1>1, <1>2, <1>3, <1>4, <1>5 DEF Next

(* A key typed is acted on once, whatever commands run in between, and a   *)
(* SIGINT is kept until a line has been cancelled for it (turn,            *)
(* run_the_line, the deferral of signals, drain_tty).                      *)
THEOREM InputStaysKept == Spec => []InputIsKept
<1>1. Init => InputIsKept
  <2>1. <<>> \in Seq(Signal) /\ Len(<<>>) = 0
    OBVIOUS
  <2>2. KeysOf(<<>>) = 0
    BY <2>1, KeysOfSignals
  <2>3. QED
    BY <2>1, <2>2 DEF Init, InputIsKept, NothingTypedIsLost, InterruptIsKept
<1>2. IInv /\ InputIsKept /\ [Next]_vars => InputIsKept'
  BY StepKeepsInput
<1>3. QED
  BY <1>1, <1>2, LoopInvariant, PTL DEF Spec

=============================================================================
