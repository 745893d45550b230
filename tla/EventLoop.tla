----------------------------- MODULE EventLoop -----------------------------
(***************************************************************************)
(* The interactive loop of src/src/ui/loop.cpp: one thread that polls, and *)
(* the fibers it gives slices to - one lane per reactor, and the execution *)
(* fiber a command runs on.  While a command runs, the line that started   *)
(* it is still being handled: the host takes nested turns under it.        *)
(*                                                                         *)
(* The fibers are scheduled as FiberWakes says, which FiberScheduler is    *)
(* shown to implement.  The host and the fibers share a thread, so a step  *)
(* is what runs between two points where a signal, a child's exit or the   *)
(* kernel can come between; those are actions of their own.                *)
(***************************************************************************)
EXTENDS Integers, FiniteSets, SequencesExt

CONSTANTS
  Lane,           \* the reactors' fibers
  Exec,           \* the execution fiber
  CommandsRead,   \* a command may read the terminal
  CommandsStop,   \* a command may end the shell
  CommandsIgnore, \* a command may ignore SIGCHLD
  MayHangUp,      \* the terminal may go away
  MaxPolls,       \* bound: cancellation polls of one compute
  MaxKeys,        \* bound: keys typed
  MaxInterrupts,  \* bound: SIGINTs
  MaxWork,        \* bound: forks, waits and reads of all commands
  MaxFailures     \* bound: polls that fail

ASSUME LoopAssumption ==
  /\ Exec \notin Lane
  /\ {CommandsRead, CommandsStop, CommandsIgnore, MayHangUp} \subseteq BOOLEAN
  /\ {MaxPolls, MaxKeys, MaxInterrupts, MaxWork, MaxFailures} \subseteq Nat

Fiber == Lane \cup {Exec}

VARIABLES
  mode,      \* FiberWakes: who is owed a slice, who runs, who waits
  host,      \* the turn the host is in
  ends,      \* _exiting, _stopping, _poll_failed
  executing, \* _phase is phase::executing
  tty,       \* the keys waiting on the terminal, and whether it hung up
  typed, taken,   \* history: the keys typed, and how many were acted on
  events, carried, deferred,  \* _events, _carried_events, _deferred_signals
  sig,       \* the hub: pending signals, the self-pipe, is SIGCHLD caught
  line,      \* the editor: its generation, its view and its length
  shown,     \* the view each lane's last applied batch was computed from
  lane,      \* each reactor_lane
  exec,      \* the execution fiber
  child, awaiting,     \* the forked child; what the waiter table holds
  unanswered, \* history: a SIGINT has not cancelled a line yet
  interrupts, work, failures  \* spent of the bounds

edit == <<line, shown>>
queues == <<events, carried, deferred>>
keys == <<tty, typed, taken>>
spent == <<unanswered, interrupts, work, failures>>
command == <<exec, child, awaiting>>
vars == <<mode, host, ends, executing, keys, queues, sig, edit, lane, command,
          spent>>

W == INSTANCE FiberWakes

Key == {"char", "move", "enter"}
Signal == {"INT", "CHLD"}
Event == Key \cup Signal \cup {"HUP", "result"}

NoSnap == [gen |-> 0, view |-> 0]   \* an empty slot
Snap == [gen |-> line.gen, view |-> line.view]

NoEnd == [exiting |-> FALSE, stopping |-> FALSE, pollFailed |-> FALSE]
NewLane == [at |-> "recv", slot |-> NoSnap, snap |-> NoSnap, fresh |-> FALSE,
            flag |-> FALSE, polls |-> 0]

Init ==
  /\ W!Init
  /\ host = [at |-> "top", zero |-> FALSE, todo |-> {}, sliced |-> FALSE,
             outer |-> FALSE, ready |-> {}, unsent |-> {}]
  /\ ends = NoEnd
  /\ executing = FALSE
  /\ tty = [keys |-> <<>>, gone |-> FALSE]
  /\ typed = <<>> /\ taken = 0
  /\ events = <<>> /\ carried = <<>> /\ deferred = <<>>
  /\ sig = [pending |-> {}, byte |-> FALSE, caught |-> TRUE]
  /\ line = [gen |-> 1, view |-> 1, len |-> 0]
  /\ shown = [l \in Lane |-> 0]
  /\ lane = [l \in Lane |-> NewLane]
  /\ exec = [at |-> "recv", inbox |-> FALSE, done |-> FALSE]
  /\ child = "none" /\ awaiting = "none"
  /\ unanswered = FALSE /\ interrupts = 0 /\ work = 0 /\ failures = 0

-----------------------------------------------------------------------------
(* The world outside: the user, the kernel.                                *)

(* The handler: the pending flag, then the byte, on top of whatever step   *)
(* the thread was between.                                                 *)
deliver(signo) ==
  sig' = [sig EXCEPT !.pending = @ \cup {signo}, !.byte = TRUE]

Type(key) ==
  /\ Len(typed) < MaxKeys /\ ~tty.gone
  /\ typed' = Append(typed, key)
  /\ tty' = [tty EXCEPT !.keys = Append(@, key)]
  /\ UNCHANGED <<mode, host, ends, executing, taken, queues, sig, edit, lane,
                 command, spent>>

HangUp ==
  /\ MayHangUp /\ ~tty.gone
  /\ tty' = [tty EXCEPT !.gone = TRUE]
  /\ UNCHANGED <<mode, host, ends, executing, typed, taken, queues, sig, edit,
                 lane, command, spent>>

Interrupt ==
  /\ interrupts < MaxInterrupts
  /\ interrupts' = interrupts + 1
  /\ unanswered' = TRUE
  /\ deliver("INT")
  /\ UNCHANGED <<mode, host, ends, executing, keys, queues, edit, lane,
                 command, work, failures>>

ChildExit ==
  /\ child = "running"
  /\ child' = "zombie"
  /\ IF sig.caught THEN deliver("CHLD") ELSE UNCHANGED sig
  /\ UNCHANGED <<mode, host, ends, executing, keys, queues, edit, lane, exec,
                 awaiting, spent>>

World == (\E key \in Key : Type(key)) \/ HangUp \/ Interrupt \/ ChildExit

-----------------------------------------------------------------------------
(* The scheduler, as the loop asks it.                                     *)

(* The emitters' group is parked exactly while a command runs, until the   *)
(* destructor resumes it.                                                  *)
ParkedNever(f) == FALSE   \* mutant: quiesce forgets the group
Parked(f) == f \in Lane /\ executing /\ host.at # "drain"
Runnable == {f \in Fiber : mode[f] = "owed" /\ ~Parked(f)}

HostRuns == \A f \in Fiber : mode[f] # "running"

(* A tick serves the fibers that were runnable when it began, once each.   *)
Slice(f) ==
  /\ f \in host.todo
  /\ W!Grant(f)
  /\ host' = [host EXCEPT !.todo = @ \ {f}]
  /\ UNCHANGED <<ends, executing, keys, queues, sig, edit, lane, command,
                 spent>>

Ticked(stage, next) ==
  /\ host.at = stage /\ host.todo = {} /\ HostRuns
  /\ host' = [host EXCEPT !.at = next]
  /\ UNCHANGED <<mode, ends, executing, keys, queues, sig, edit, lane,
                 command, spent>>

(* slot::send: the newest value replaces the last, the token is spent, and *)
(* a parked receiver is owed a slice.                                      *)
Notified(was) == [was EXCEPT !.slot = Snap, !.fresh = FALSE, !.flag = TRUE]
send(l) ==
  /\ lane' = [lane EXCEPT ![l] = Notified(lane[l])]
  /\ IF mode[l] = "unborn" THEN W!Spawn(l)
     ELSE IF mode[l] = "waiting" THEN W!Wake(l) ELSE UNCHANGED mode

-----------------------------------------------------------------------------
(* A lane: recv, compute, poll, apply, for ever.                           *)

LaneStep(l, changed) ==
  /\ lane' = [lane EXCEPT ![l] = changed]
  /\ UNCHANGED <<host, ends, executing, keys, carried, deferred, sig, line,
                 command, spent>>

LanePark(l) ==
  /\ mode[l] = "running" /\ lane[l].at = "recv" /\ lane[l].slot = NoSnap
  /\ W!Wait(l)
  /\ UNCHANGED <<events, shown>>
  /\ LaneStep(l, lane[l])

(* What recv leaves: a fresh token, and the flag down beside it.           *)
Received(was) ==
  [was EXCEPT !.at = "compute", !.snap = was.slot, !.slot = NoSnap,
              !.fresh = TRUE, !.flag = FALSE, !.polls = 0]

LaneRecv(l) ==
  /\ mode[l] = "running" /\ lane[l].at = "recv" /\ lane[l].slot # NoSnap
  /\ LaneStep(l, Received(lane[l]))
  /\ UNCHANGED <<mode, events, shown>>

reactor_yield(l) ==
  /\ mode[l] = "running" /\ lane[l].at = "compute"
  /\ lane[l].polls < MaxPolls
  /\ W!Yield(l)
  /\ LaneStep(l, [lane[l] EXCEPT !.at = "yielded", !.polls = @ + 1])
  /\ UNCHANGED <<events, shown>>

(* The poll reads the flag after the yield.  A reactor that is superseded  *)
(* abandons its walk - or does not look, and goes on.                      *)
PollAnswered(l) ==
  /\ mode[l] = "running" /\ lane[l].at = "yielded"
  /\ \E goOn \in {"recv", "compute"} :
       /\ goOn = "recv" => lane[l].flag
       /\ LaneStep(l, [lane[l] EXCEPT !.at = goOn])
  /\ UNCHANGED <<mode, events, shown>>

(* apply_batch drops what was computed against another generation.         *)
Applies(l) == lane[l].snap.gen = line.gen

(* apply_reactor_batch: a superseded batch is not applied; any other is    *)
(* offered to the editor, which hears of it whether or not it dropped it.  *)
Declined(l) == lane[l].flag

apply_reactor_batch(l) ==
  /\ mode[l] = "running" /\ lane[l].at = "compute"
  /\ IF Declined(l) THEN UNCHANGED <<events, shown>>
     ELSE /\ events' = Append(events, "result")
          /\ shown' = IF Applies(l) THEN [shown EXCEPT ![l] = lane[l].snap.view]
                      ELSE shown
  /\ LaneStep(l, [lane[l] EXCEPT !.at = "recv"])
  /\ UNCHANGED mode

LaneRuns(l) ==
  \/ Slice(l) \/ LanePark(l) \/ LaneRecv(l) \/ reactor_yield(l)
  \/ PollAnswered(l) \/ apply_reactor_batch(l)

-----------------------------------------------------------------------------
(* The execution fiber: take a line, run it, answer, for ever.             *)

ExecRuns(at) == mode[Exec] = "running" /\ exec.at = at

ExecStep ==
  UNCHANGED <<host, executing, typed, queues, edit, lane, unanswered,
              interrupts, failures>>

ExecPark ==
  /\ ExecRuns("recv") /\ ~exec.inbox
  /\ W!Wait(Exec)
  /\ ExecStep /\ UNCHANGED <<ends, tty, taken, sig, command, work>>

ExecRecv ==
  /\ ExecRuns("recv") /\ exec.inbox
  /\ exec' = [exec EXCEPT !.at = "command", !.inbox = FALSE]
  /\ ExecStep /\ UNCHANGED <<mode, ends, tty, taken, sig, child, awaiting, work>>

Works == ExecRuns("command") /\ work < MaxWork /\ work' = work + 1

(* A command forks; whether it waits for the child is its own business, so *)
(* a background child can outlive the line that started it.                *)
Fork ==
  /\ Works
  /\ child = "none"
  /\ child' = "running"
  /\ ExecStep /\ UNCHANGED <<mode, ends, tty, taken, sig, exec, awaiting>>

IgnoreSigchld ==
  /\ Works /\ CommandsIgnore
  /\ sig' = [sig EXCEPT !.caught = FALSE]
  /\ ExecStep /\ UNCHANGED <<mode, ends, tty, taken, command>>

(* `exit`: request_stop, from inside the call.                             *)
RequestStop ==
  /\ Works /\ CommandsStop
  /\ ends' = [ends EXCEPT !.stopping = TRUE]
  /\ ExecStep /\ UNCHANGED <<mode, tty, taken, sig, command>>

Readable == tty.keys # <<>> \/ tty.gone

(* waitpid answers, or the descriptor has something to say.                *)
child_is_done == child = "zombie"
Ready(what) ==
  CASE what = "child" -> child_is_done
    [] what = "tty" -> Readable
    [] what = "none" -> FALSE
Reaped(what) == IF what = "child" THEN "none" ELSE child

\* mutant: the table is not asked before the park
EnlistUnprobed(what) ==
  /\ W!Wait(Exec)
  /\ exec' = [exec EXCEPT !.at = "await"]
  /\ awaiting' = what
  /\ UNCHANGED child

(* enlist asks once, at once: only what has not happened yet is parked on. *)
enlist(what) ==
  IF Ready(what)
  THEN /\ child' = Reaped(what)
       /\ UNCHANGED <<mode, exec, awaiting>>
  ELSE /\ W!Wait(Exec)
       /\ exec' = [exec EXCEPT !.at = "await"]
       /\ awaiting' = what
       /\ UNCHANGED child

(* What cannot ring the self-pipe is waited for on the thread itself.      *)
ParksAlways == TRUE   \* mutant: the disposition is not asked
ParksOnChild == sig.caught

await_child ==
  /\ Works
  /\ child # "none"
  /\ IF ParksOnChild THEN enlist("child")
     ELSE /\ exec' = [exec EXCEPT !.at = "waitpid"]
          /\ UNCHANGED <<mode, child, awaiting>>
  /\ ExecStep /\ UNCHANGED <<ends, tty, taken, sig>>

waitpid ==
  /\ ExecRuns("waitpid") /\ child_is_done
  /\ child' = "none"
  /\ exec' = [exec EXCEPT !.at = "command"]
  /\ ExecStep /\ UNCHANGED <<mode, ends, tty, taken, sig, awaiting, work>>

await_readable ==
  /\ Works /\ CommandsRead
  /\ enlist("tty")
  /\ ExecStep /\ UNCHANGED <<ends, tty, taken, sig>>

(* The wait is over.  What a `read` waited for it takes: those bytes were  *)
(* the command's and never the editor's.                                   *)
Awoken ==
  /\ ExecRuns("await")
  /\ exec' = [exec EXCEPT !.at = "command"]
  /\ ExecStep /\ UNCHANGED <<mode, ends, tty, taken, sig, child, awaiting, work>>

ReadKey ==
  /\ ExecRuns("command") /\ CommandsRead /\ tty.keys # <<>>
  /\ tty' = [tty EXCEPT !.keys = Tail(@)]
  /\ taken' = taken + 1
  /\ ExecStep /\ UNCHANGED <<mode, ends, sig, command, work>>

Answer ==
  /\ ExecRuns("command")
  /\ exec' = [exec EXCEPT !.at = "recv", !.done = TRUE]
  /\ ExecStep /\ UNCHANGED <<mode, ends, tty, taken, sig, child, awaiting, work>>

CommandRuns ==
  \/ Slice(Exec) \/ ExecPark \/ ExecRecv \/ Fork \/ IgnoreSigchld
  \/ RequestStop \/ await_child \/ waitpid \/ await_readable \/ Awoken
  \/ ReadKey \/ Answer

-----------------------------------------------------------------------------
(* A turn of the host.                                                     *)

HostAt(stage) == host.at = stage /\ HostRuns

(* The answer and nothing else ends the nested turns of a command.         *)
LineIsBack == exec.done

(* A turn is begun by run(), or by run_the_line while the answer is out.   *)
TurnsGoOn ==
  IF executing THEN ~LineIsBack ELSE ~ends.exiting /\ ~ends.stopping

(* The timeout is settled first, from what is runnable; then what signals  *)
(* a command held back becomes events, and the leading slices are given.   *)
BeginTurn ==
  /\ HostAt("top") /\ TurnsGoOn
  /\ host' = [host EXCEPT !.at = "lead", !.zero = Runnable # {},
                          !.todo = Runnable, !.sliced = FALSE]
  /\ events' = IF executing THEN <<>> ELSE deferred
  /\ deferred' = IF executing THEN deferred ELSE <<>>
  /\ UNCHANGED <<mode, ends, executing, keys, carried, sig, edit, lane,
                 command, spent>>

Lead == Ticked("lead", "poll")

(* The terminal is out of the set while a command runs, unless the command *)
(* waits for it; after a failure only the self-pipe is left.               *)
Polled ==
  (IF (~executing \/ awaiting = "tty") /\ ~ends.pollFailed THEN {"tty"} ELSE {})
    \cup {"signal"}
Speaks(fd) == IF fd = "tty" THEN Readable ELSE sig.byte
NothingOwed == ~host.zero /\ Runnable = {}
PollBlocks == HostAt("poll") /\ NothingOwed /\ \A fd \in Polled : ~Speaks(fd)

(* A descriptor polled for a waiter is no topic: nothing drains it.        *)
ready_now ==
  /\ HostAt("poll") /\ ~PollBlocks
  /\ host' = [host EXCEPT !.at = "tty",
       !.ready = {fd \in Polled : Speaks(fd)} \ (IF executing THEN {"tty"} ELSE {})]
  /\ UNCHANGED <<mode, ends, executing, keys, queues, sig, edit, lane,
                 command, spent>>

has_execution_fiber_mid_command ==
  mode[Exec] # "unborn" /\ ~(exec.at = "recv" /\ mode[Exec] = "waiting")

(* What a failed poll means: the end, but not from under a command.        *)
AfterFailure ==
  IF has_execution_fiber_mid_command
  THEN [ends |-> [ends EXCEPT !.pollFailed = TRUE], at |-> "signals"]
  ELSE [ends |-> [ends EXCEPT !.exiting = TRUE], at |-> "top"]

PollFails ==
  /\ HostAt("poll") /\ failures < MaxFailures
  /\ failures' = failures + 1
  /\ ends' = AfterFailure.ends
  /\ host' = [host EXCEPT !.at = AfterFailure.at, !.ready = {"signal"}]
  /\ UNCHANGED <<mode, executing, keys, queues, sig, edit, lane, command,
                 unanswered, interrupts, work>>

(* What a drain leaves unread on the terminal.                             *)
Unread == <<>>

drain_tty ==
  /\ HostAt("tty")
  /\ host' = [host EXCEPT !.at = "signals"]
  /\ IF "tty" \in host.ready
     THEN /\ tty' = [tty EXCEPT !.keys = Unread]
          /\ events' = events \o tty.keys \o (IF tty.gone THEN <<"HUP">> ELSE <<>>)
          /\ ends' = [ends EXCEPT !.exiting = @ \/ tty.gone]
     ELSE UNCHANGED <<tty, events, ends>>
  /\ UNCHANGED <<mode, executing, typed, taken, carried, deferred, sig, edit,
                 lane, command, spent>>

(* signal_hub::drain: the bytes first, then the flags.                     *)
DrainPipe ==
  /\ HostAt("signals")
  /\ host' = [host EXCEPT !.at = IF "signal" \in host.ready THEN "flags"
                                 ELSE "awaits"]
  /\ sig' = [sig EXCEPT !.byte = @ /\ "signal" \notin host.ready]
  /\ UNCHANGED <<mode, ends, executing, keys, queues, edit, lane, command,
                 spent>>

(* Pending signals, by number.                                             *)
ByNumber(signals) ==
  (IF "INT" \in signals THEN <<"INT">> ELSE <<>>)
    \o (IF "CHLD" \in signals THEN <<"CHLD">> ELSE <<>>)
Pending == ByNumber(sig.pending)

(* During a command they are held back, each once.                         *)
HoldsBack == executing
HeldDropped == deferred   \* mutant: drained, and then dropped
Held == deferred \o ByNumber(sig.pending \ ToSet(deferred))

TakeSignals ==
  /\ HostAt("flags")
  /\ host' = [host EXCEPT !.at = "awaits"]
  /\ sig' = [sig EXCEPT !.pending = {}]
  /\ IF HoldsBack
     THEN deferred' = Held /\ UNCHANGED events
     ELSE events' = events \o Pending /\ UNCHANGED deferred
  /\ UNCHANGED <<mode, ends, executing, keys, carried, edit, lane, command,
                 spent>>

(* The entry leaves the table before its waiter is woken.                  *)
EntryGone == "none"

service_awaits ==
  /\ HostAt("awaits")
  /\ host' = [host EXCEPT !.at = "walk"]
  /\ IF Ready(awaiting)
     THEN /\ W!Wake(Exec)
          /\ child' = Reaped(awaiting)
          /\ awaiting' = EntryGone
     ELSE UNCHANGED <<mode, child, awaiting>>
  /\ UNCHANGED <<ends, executing, keys, queues, sig, edit, lane, exec, spent>>

(* The two walks, with the trailing slices between them.                   *)
Walk ==
  /\ HostAt("walk")
  /\ IF events # <<>>
     THEN /\ carried' = events /\ events' = <<>>
          /\ host' = [host EXCEPT !.at = "each"]
     ELSE /\ UNCHANGED <<carried, events>>
          /\ IF host.sliced \/ ends.exiting
             THEN host' = [host EXCEPT !.at = "top"]
             ELSE host' = [host EXCEPT !.at = "trail", !.todo = Runnable,
                                       !.sliced = TRUE]
  /\ UNCHANGED <<mode, ends, executing, keys, deferred, sig, edit, lane,
                 command, spent>>

Walked ==
  /\ HostAt("each") /\ carried = <<>>
  /\ host' = [host EXCEPT !.at = "walk"]
  /\ UNCHANGED <<mode, ends, executing, keys, queues, sig, edit, lane,
                 command, spent>>

Trail == Ticked("trail", "walk")

(* One event: the first of the batch; a loop that is done breaks after it. *)
Handles(kinds) ==
  /\ HostAt("each") /\ carried # <<>>
  /\ Head(carried) \in kinds
  /\ carried' = Tail(carried)
  /\ taken' = IF Head(carried) \in Key THEN taken + 1 ELSE taken
Onward == IF ends.exiting THEN "top" ELSE "each"

(* Nothing to do for the loop: a repaint, a signal it has no binding for.  *)
HandleOther ==
  /\ Handles({"CHLD", "HUP", "result"} \cup (IF line.len = 0 THEN {"move"} ELSE {}))
  /\ host' = [host EXCEPT !.at = Onward]
  /\ UNCHANGED <<mode, ends, executing, tty, typed, events, deferred, sig,
                 edit, lane, command, spent>>

(* An edit bumps the generation and a motion only the view; either is      *)
(* announced to every reactor.                                             *)
HandleKey ==
  /\ Handles({"char", "move"})
  /\ LET inserts == Head(carried) = "char"
     IN /\ inserts \/ line.len > 0
        /\ line' = [gen |-> line.gen + (IF inserts THEN 1 ELSE 0),
                    view |-> line.view + 1,
                    len |-> line.len + (IF inserts THEN 1 ELSE 0)]
  /\ host' = [host EXCEPT !.at = "notify", !.unsent = Lane]
  /\ UNCHANGED <<mode, ends, executing, tty, typed, events, deferred, sig,
                 shown, lane, command, spent>>

notify_reactors(l) ==
  /\ HostAt("notify")
  /\ l \in host.unsent
  /\ send(l)
  /\ host' = [host EXCEPT !.unsent = @ \ {l},
                          !.at = IF host.unsent = {l} THEN Onward ELSE "notify"]
  /\ UNCHANGED <<ends, executing, keys, queues, sig, edit, command, spent>>

-----------------------------------------------------------------------------
(* Running a line.                                                         *)

Superseded == [l \in Lane |->
  IF mode[l] = "unborn" THEN lane[l] ELSE [lane[l] EXCEPT !.flag = TRUE]]

(* quiesce, then run_the_line as far as its first nested turn: the lanes   *)
(* are superseded, their group parked, and the line sent.                  *)
quiesce == lane' = Superseded /\ executing' = TRUE

run_the_line ==
  /\ exec' = [exec EXCEPT !.inbox = TRUE]
  /\ IF mode[Exec] = "unborn" THEN W!Spawn(Exec)
     ELSE IF mode[Exec] = "waiting" THEN W!Wake(Exec) ELSE UNCHANGED mode
  /\ host' = [host EXCEPT !.at = "top", !.outer = host.sliced]

accept_current_line ==
  /\ Handles({"enter"})
  /\ quiesce /\ run_the_line
  /\ UNCHANGED <<ends, tty, typed, events, deferred, sig, edit, child,
                 awaiting, spent>>

(* The line of the editor, emptied as one edit, with its decorations.      *)
Emptied == [gen |-> line.gen + 1, view |-> line.view + 1, len |-> 0]

(* Ctrl-C: the line is emptied first, and the INT trap runs as a command.  *)
finish_cancelled_line ==
  /\ Handles({"INT"})
  /\ line' = Emptied
  /\ shown' = [l \in Lane |-> 0]
  /\ unanswered' = FALSE
  /\ quiesce /\ run_the_line
  /\ UNCHANGED <<ends, tty, typed, events, deferred, sig, child, awaiting,
                 interrupts, work, failures>>

(* The answer is there: the loop is ending, or a fresh line begins.        *)
Ending == ends.stopping \/ ends.exiting \/ ends.pollFailed

resume_after_execution ==
  /\ HostAt("top") /\ executing /\ LineIsBack
  /\ exec' = [exec EXCEPT !.done = FALSE]
  /\ executing' = FALSE
  /\ ends' = [ends EXCEPT !.exiting = Ending]
  /\ host' = [host EXCEPT !.sliced = host.outer,
                          !.at = IF Ending THEN "top" ELSE "each"]
  /\ IF Ending THEN UNCHANGED edit
     ELSE /\ shown' = [l \in Lane |-> 0]
          /\ line' = IF line.len = 0 THEN line ELSE Emptied
  /\ UNCHANGED <<mode, keys, queues, sig, lane, child, awaiting, spent>>

-----------------------------------------------------------------------------
(* The end of run(), and ~event_loop.                                      *)

Leave ==
  /\ HostAt("top") /\ ~executing /\ (ends.exiting \/ ends.stopping)
  /\ lane' = Superseded
  /\ host' = [host EXCEPT !.at = "drain", !.todo = {}]
  /\ UNCHANGED <<mode, ends, executing, keys, queues, sig, edit, command,
                 spent>>

drain_emitters ==
  /\ HostAt("drain") /\ host.todo = {}
  /\ host' = IF \E l \in Lane : l \in Runnable
             THEN [host EXCEPT !.todo = Runnable \cap Lane]
             ELSE [host EXCEPT !.at = "gone"]
  /\ UNCHANGED <<mode, ends, executing, keys, queues, sig, edit, lane,
                 command, spent>>

HostSteps ==
  \/ BeginTurn \/ Lead \/ ready_now \/ PollFails \/ drain_tty
  \/ DrainPipe \/ TakeSignals \/ service_awaits
  \/ Walk \/ Walked \/ Trail \/ HandleOther \/ HandleKey
  \/ (\E l \in Lane : notify_reactors(l))
  \/ accept_current_line \/ finish_cancelled_line \/ resume_after_execution
  \/ Leave \/ drain_emitters

Next ==
  World \/ HostSteps \/ CommandRuns \/ (\E l \in Lane : LaneRuns(l))

Spec == Init /\ [][Next]_vars

(* The thread goes on while it has something to do, and children end.  The *)
(* user owes nothing: no key, no signal.                                   *)
FairSpec ==
  /\ Spec
  /\ WF_vars(HostSteps)
  /\ WF_vars(CommandRuns \/ \E l \in Lane : LaneRuns(l))
  /\ WF_vars(ChildExit)

-----------------------------------------------------------------------------
(* What must hold.                                                         *)

(* The loop sleeps only when it owes nothing.  To a command: it has not     *)
(* answered, and waits for something enlisted that has not happened.  To    *)
(* the user: no signal is pending without its byte, and at a prompt with a  *)
(* text on it every reactor's answer for that text has landed, none of the  *)
(* notifications conflated away, superseded by nothing or left unread       *)
(* (turn, enlist, signal_hub::drain, notify_reactors, reactor_body).        *)
BlockedOwesNothing ==
  PollBlocks =>
    /\ ~exec.done
    /\ executing => awaiting # "none"
    /\ ~(awaiting = "child" /\ child_is_done)
    /\ sig.pending = {}
    /\ ~executing /\ line.len > 0 => \A l \in Lane : shown[l] = line.view

KeysOf(s) == Cardinality({k \in DOMAIN s : s[k] \in Key})

(* A key typed is acted on once, by the editor or by a command that reads: *)
(* the turns nested under an accepted line neither drop nor repeat what    *)
(* the outer walk still carries (run_the_line, turn).  And until it has    *)
(* cancelled a line, a SIGINT is somewhere it will be found: pending, held *)
(* back by a command, or among the events.                                 *)
NothingTypedIsLost ==
  ~ends.exiting =>
    Len(typed) = taken + KeysOf(carried) + KeysOf(events) + Len(tty.keys)
InterruptIsKept ==
  unanswered /\ ~ends.exiting =>
    "INT" \in sig.pending \cup ToSet(deferred) \cup ToSet(events)
              \cup ToSet(carried)
InputIsKept == NothingTypedIsLost /\ InterruptIsKept

(* No lane runs while a command does: the shell's tables have one writer   *)
(* and no reader then (quiesce, shell_executing_flag).                     *)
NoReaderUnderCommand ==
  exec.at # "recv" => \A l \in Lane : mode[l] # "running"

(* The stack of a fiber is used only while it stands.  The waiter table     *)
(* points into the frame of a fiber parked there, and an entry never        *)
(* outlives the wait (service_awaits).  However the loop ends, no command   *)
(* is left on the execution fiber (the assertion of ~event_loop), and when  *)
(* the stacks are unmapped every lane is back on recv, owning no snapshot   *)
(* (drain_emitters).                                                        *)
NoFrameOutlivesItsUse ==
  /\ awaiting # "none" => exec.at = "await" /\ mode[Exec] = "waiting"
  /\ host.at \in {"drain", "gone"} => ~has_execution_fiber_mid_command
  /\ host.at = "gone" =>
       \A l \in Lane : mode[l] \in {"unborn", "waiting"} /\ lane[l].at = "recv"

(* What one fiber uses no other writes and no end takes away.              *)
FibersAreKeptApart == NoReaderUnderCommand /\ NoFrameOutlivesItsUse

(* A line that runs returns, once its children have ended and if it does   *)
(* not wait for the user: with SIGCHLD ignored, with a child that ended    *)
(* before anyone waited, with the terminal gone.                           *)
RunningLineReturns == executing ~> (~executing \/ awaiting = "tty")

=============================================================================
