------------------------------- MODULE Pipelines -------------------------------
(* The processes of a job (runtime/executor.cpp): pipelines, foreground         *)
(* subshells, background lists, command substitutions and wait, each a fork,    *)
(* with the pipe ends every process holds, the terminal's foreground group and  *)
(* the keys that signal it.  A subshell is a process that runs this same        *)
(* machine; process 1 is the interactive shell.                                 *)
EXTENDS Integers, Sequences, FiniteSets, SequencesExt

CONSTANTS
    Worlds,         \* each the lines that may be typed
    MaxProcs,       \* bound: processes at one time
    MaxPipes,       \* bound: pipes at one time
    Capacity,       \* what a pipe holds
    MaxLines,       \* bound: lines typed
    MaxKeys,        \* bound: ^C and ^Z typed
    MaxFailures,    \* bound: forks and pipes that fail
    Keys            \* the keys that may be typed

(* What the theorems suppose: that there is room for the interactive shell. *)
HasRoom == MaxProcs \in Nat \ {0} /\ MaxPipes \in Nat

Procs == 1..MaxProcs
Pipes == 1..MaxPipes
Main == 1
Terminal == 0       \* what a standard descriptor is when it is not a pipe
Null == -1

(* Exit statuses of a death or a stop: 128 and the signal. *)
INT == 130
PIPE == 141
TSTP == 148
TTIN == 149

VARIABLES
    proc,       \* the processes
    chan,       \* how much each pipe holds
    fg,         \* the terminal's foreground process group
    typed,      \* lines, keys and failures so far
    said,       \* history: how the last command of the interactive shell ended
    world
vars == <<proc, chan, fg, typed, said, world>>

-------------------------------------------------------------------------------
(* Processes.  What a shell is in the middle of is its job.                    *)

NoJob == [at |-> "idle", next |-> 0, pids |-> <<>>, waits |-> <<>>, group |-> 0, from |-> 0, pipe |-> 0]
Nobody == [state |-> "free"]

Shell(p) == p = Main \/ proc[p].prog.name = "("
Live(p) == proc[p].state \in {"forked", "joined", "running", "stopped"}
Dead(p) == proc[p].state \in {"exited", "killed"}
Runs(p) == proc[p].state = "running"
Readers(k) == {p \in Procs : Live(p) /\ (k \in proc[p].r \/ proc[p].in = k)}
Writers(k) == {p \in Procs : Live(p) /\ (k \in proc[p].w \/ proc[p].out = k)}

Leader(q) == proc[q].lead /\ proc[q].tty

(* A child is told everything by fork; group 0 asks for one of its own. *)
Child(p, q, prog, kind, group) ==
    [proc[p] EXCEPT !.state = "forked", !.parent = p, !.prog = prog, !.kind = kind,
                    !.group = IF group = 0 THEN q ELSE group, !.lead = (group = 0),
                    !.todo = prog.body, !.job = NoJob, !.last = 0, !.held = FALSE, !.noted = FALSE]

(* A process identifier that is free, names no group and is in no list. *)
Slots == {q \in Procs : /\ proc[q].state = "free"
                        /\ \A p \in Procs : Live(p) => q # proc[p].group /\ q \notin ToSet(proc[p].bg)}
Slot == CHOOSE q \in Slots : \A r \in Slots : q <= r
FreePipes == {k \in Pipes : Readers(k) \union Writers(k) = {}}
NewPipe == CHOOSE f \in FreePipes : \A g \in FreePipes : f <= g

(* A process whose parent is gone is adopted, and reaped, by init. *)
Ended(p, how, code) == [proc[p] EXCEPT !.state = how, !.last = code, !.r = {}, !.w = {}]
Adopted(table) ==
    LET gone(q) == table[q].state \in {"free", "exited", "killed"}
        orphan(p) == p # Main /\ table[p].state # "free" /\ (table[p].parent = 0 \/ gone(table[p].parent))
    IN [p \in Procs |-> CASE ~orphan(p) -> table[p]
                          [] orphan(p) /\ gone(p) -> Nobody
                          [] OTHER -> [table[p] EXCEPT !.parent = 0]]
Die(p, how, code) == proc' = Adopted([proc EXCEPT ![p] = Ended(p, how, code)])

(* A call fails for want of what it needs, or for no reason of its own. *)
Failing(free) == typed.failures < MaxFailures \/ free = {}
Fail == typed' = [typed EXCEPT !.failures = @ + 1]

-------------------------------------------------------------------------------
(* The command a shell is at, and where it goes from there.                    *)

Command(p) == Head(proc[p].todo)
Stages(p) == Command(p).stages
Foreground == {"pipeline", "simple", "subshell"}
Idle(p) == Runs(p) /\ Shell(p) /\ proc[p].job.at = "idle"
At(p, where) == Runs(p) /\ Shell(p) /\ proc[p].job.at = where

(* The command is over; in the interactive shell a noted interrupt abandons the
   rest of the line (run_command_list, run_pending_traps). *)
Over(record, status, noted) ==
    LET abandons == noted \/ record.noted
    IN [record EXCEPT !.last = IF abandons THEN INT ELSE status, !.noted = FALSE, !.job = NoJob,
                      !.todo = IF abandons THEN <<>> ELSE Tail(@)]

(* What the terminal kept from the shell: the deciding process was killed. *)
Interrupts(wait) == wait.how = "killed" /\ wait.code = INT

(* foreground_status *)
Status(wait) == wait.code
Clean == [how |-> "exited", code |-> 0]
(* The last stage that was started, or the rightmost that failed. *)
Decider(pipefail, waits) ==
    IF ~pipefail THEN (IF waits = <<>> THEN Clean ELSE Last(waits))
    ELSE LET failed == SelectSeq(waits, LAMBDA w : w.code # 0)
         IN IF failed = <<>> THEN Clean ELSE Last(failed)

-------------------------------------------------------------------------------
(* Foreground jobs.                                                            *)

(* run_pipeline, spawn and run_subshell: a pipe to the next stage, if there is
   one.  When it cannot be made the stages so far are all there will be, and the
   read end of the last one stays open. *)
MakePipe(p) ==
    /\ Idle(p) \/ At(p, "pipe")
    /\ proc[p].todo # <<>> /\ Command(p).kind \in Foreground
    /\ LET job == proc[p].job
           i == job.next + 1
       IN IF i = Len(Stages(p))
          THEN /\ proc' = [proc EXCEPT ![p].job.at = "fork", ![p].job.next = i, ![p].job.pipe = 0]
               /\ UNCHANGED <<chan, typed>>
          ELSE \/ /\ FreePipes # {}
                  /\ proc' = [proc EXCEPT ![p].job.at = "fork", ![p].job.next = i, ![p].job.pipe = NewPipe,
                                          ![p].r = @ \union {NewPipe}, ![p].w = @ \union {NewPipe}]
                  /\ chan' = [chan EXCEPT ![NewPipe] = 0]
                  /\ UNCHANGED typed
               \/ /\ Failing(FreePipes) /\ Fail
                  /\ proc' = [proc EXCEPT ![p].job.at = "wait"]
                  /\ UNCHANGED chan
    /\ UNCHANGED <<fg, said, world>>

(* mutant: the write end is kept by the parent *)
ParentKeepsOutput(p) == proc[p].w

(* The parent's copies are closed when the stage has been forked. *)
ParentReads(p) == proc[p].r \ {proc[p].job.from}
ParentWrites(p) == proc[p].w \ {proc[p].job.pipe}

(* What the stage holds beside its descriptors 0 and 1: the write end it moved
   is closed; the read end of that same pipe is not. *)
StageWrites(p) == proc[p].w \ {proc[p].job.pipe}

(* The stage is forked with its input and output connected; it joins the job's
   process group, or leads it when no stage was started before. *)
ForkStage(p) ==
    /\ At(p, "fork")
    /\ LET job == proc[p].job
           stage == Stages(p)[job.next]
           after == [proc[p] EXCEPT !.r = ParentReads(p), !.w = ParentWrites(p), !.job.from = job.pipe,
                                    !.job.at = IF job.next = Len(Stages(p)) THEN "wait" ELSE "pipe"]
       IN \/ /\ Slots # {}
             /\ proc' = [proc EXCEPT
                   ![Slot] = [Child(p, Slot, stage, Command(p).kind, job.group) EXCEPT
                                !.r = ParentReads(p), !.w = StageWrites(p),
                                !.in = IF job.from = 0 THEN @ ELSE job.from,
                                !.out = IF job.pipe = 0 THEN @ ELSE job.pipe],
                   ![p] = [after EXCEPT !.job.pids = Append(@, Slot),
                                        !.job.group = IF @ = 0 THEN Slot ELSE @]]
             /\ UNCHANGED typed
          \/ /\ Failing(Slots) /\ Fail
             /\ proc' = [proc EXCEPT ![p] = after]
    /\ UNCHANGED <<chan, fg, said, world>>

(* take_terminal_in_child: the leader hands the terminal to the group it is in. *)
Taken(q) == IF Leader(q) THEN proc[q].group ELSE fg

(* A subshell resets its signals before it takes the terminal, a stage or a
   command after it. *)
Join(q) ==
    /\ proc[q].state = "forked"
    /\ fg' = Taken(q)
    /\ proc' = [proc EXCEPT ![q].state = IF proc[q].kind \in {"pipeline", "simple"} THEN "joined" ELSE "running"]
    /\ UNCHANGED <<chan, typed, said, world>>

(* enter_subshell and, for a program, exec. *)
Begin(q) ==
    /\ proc[q].state = "joined"
    /\ proc' = [proc EXCEPT ![q].state = "running"]
    /\ UNCHANGED <<chan, fg, typed, said, world>>

(* Every process started is waited for once, the stopped ones as they stopped. *)
WaitedAll(p, waits) == Len(waits) = Len(proc[p].job.pids)

Reapable(q, untraced) == Dead(q) \/ (untraced /\ proc[q].state = "stopped")
Reaped(table, q) == IF table[q].state = "stopped" THEN table ELSE [table EXCEPT ![q] = Nobody]
WaitStatus(q) == [how |-> proc[q].state, code |-> proc[q].last]

Wait(p) ==
    /\ At(p, "wait") /\ ~WaitedAll(p, proc[p].job.waits)
    /\ LET q == proc[p].job.pids[Len(proc[p].job.waits) + 1]
       IN /\ Reapable(q, Command(p).kind \in Foreground)
          /\ proc' = [Reaped(proc, q) EXCEPT ![p].job.waits = Append(@, WaitStatus(q))]
    /\ UNCHANGED <<chan, fg, typed, said, world>>

(* reclaim_terminal, when there is a terminal. *)
reclaim_terminal(p) == IF proc[p].tty THEN proc[p].group ELSE fg

(* How process 1 reports the command it finished. *)
Says(p, status, waits, noted) ==
    said' = IF p # Main THEN said
            ELSE [kind |-> Command(p).kind, stages |-> Len(Stages(p)), pipefail |-> Command(p).pipefail, waits |-> waits,
                  status |-> status, abandoned |-> noted \/ proc[p].noted, heard |-> proc[p].noted]

(* The job is over: the terminal comes back and a death by SIGINT is noted.  A
   subshell, which would do nothing about the note, dies of the signal. *)
Finish(p) ==
    /\ At(p, "wait") /\ WaitedAll(p, proc[p].job.waits) /\ Command(p).kind \in Foreground
    /\ LET waits == proc[p].job.waits
           decider == Decider(Command(p).pipefail, waits)
           status == IF waits = <<>> /\ Command(p).kind # "pipeline" THEN 1 ELSE Status(decider)
           notes == proc[p].tty /\ Interrupts(decider)
       IN /\ IF notes /\ p # Main THEN Die(p, "killed", INT)
             ELSE proc' = [proc EXCEPT ![p] = Over(@, status, notes)]
          /\ Says(p, status, waits, notes)
    /\ fg' = reclaim_terminal(p)
    /\ UNCHANGED <<chan, typed, world>>

-------------------------------------------------------------------------------
(* Background lists, wait and substitutions.                                   *)

(* A detached child has no terminal to hand over. *)
Detached(p, prog, kind) == [Child(p, Slot, prog, kind, 0) EXCEPT !.tty = FALSE]

(* run_async: standard input is the null device. *)
run_async(p) ==
    /\ Idle(p) /\ proc[p].todo # <<>> /\ Command(p).kind = "async"
    /\ \/ /\ Slots # {}
          /\ proc' = [proc EXCEPT ![Slot] = [Detached(p, Stages(p)[1], "async") EXCEPT !.in = Null],
                                  ![p] = Over([proc[p] EXCEPT !.bg = Append(@, Slot)], 0, FALSE)]
          /\ Says(p, 0, <<>>, FALSE)
          /\ UNCHANGED typed
       \/ /\ Failing(Slots) /\ Fail
          /\ proc' = [proc EXCEPT ![p] = Over(@, 1, FALSE)]
          /\ Says(p, 1, <<>>, FALSE)
    /\ UNCHANGED <<chan, fg, world>>

(* run_wait takes the background processes in order; one that is not a child of
   this process, in a subshell that inherited the list, is passed over. *)
run_wait(p) ==
    /\ Idle(p) /\ proc[p].todo # <<>> /\ Command(p).kind = "wait"
    /\ IF proc[p].bg = <<>>
       THEN /\ proc' = [proc EXCEPT ![p] = Over(@, 0, FALSE)]
            /\ Says(p, 0, <<>>, FALSE)
       ELSE LET q == Head(proc[p].bg)
                mine == proc[q].state # "free" /\ proc[q].parent = p
            IN /\ mine => Reapable(q, FALSE)
               /\ proc' = [(IF mine THEN Reaped(proc, q) ELSE proc) EXCEPT ![p].bg = Tail(@)]
               /\ UNCHANGED said
    /\ UNCHANGED <<chan, fg, typed, world>>

(* capture: with no pipe or no process the substitution fails; otherwise the
   child writes to the pipe and this process keeps the read end only. *)
capture(p) ==
    /\ Idle(p) /\ proc[p].todo # <<>> /\ Command(p).kind = "capture"
    /\ \/ /\ FreePipes # {} /\ Slots # {}
          /\ proc' = [proc EXCEPT ![Slot] = [Detached(p, Stages(p)[1], "capture") EXCEPT !.out = NewPipe],
                                  ![p].r = @ \union {NewPipe}, ![p].job.at = "read",
                                  ![p].job.pipe = NewPipe, ![p].job.pids = <<Slot>>]
          /\ chan' = [chan EXCEPT ![NewPipe] = 0]
          /\ UNCHANGED <<typed, said>>
       \/ /\ Failing(FreePipes) \/ Slots = {}
          /\ Fail
          /\ proc' = [proc EXCEPT ![p] = Over(@, 2, FALSE)]
          /\ Says(p, 2, <<>>, FALSE)
          /\ UNCHANGED chan
    /\ UNCHANGED <<fg, world>>

EndOfRead(record) == [record EXCEPT !.r = @ \ {record.job.pipe}, !.job.at = "wait"]
ReadOutput(p) ==
    /\ At(p, "read")
    /\ LET k == proc[p].job.pipe
       IN \/ /\ chan[k] > 0
             /\ chan' = [chan EXCEPT ![k] = @ - 1]
             /\ UNCHANGED proc
          \/ /\ chan[k] = 0 /\ Writers(k) = {}
             /\ proc' = [proc EXCEPT ![p] = EndOfRead(@)]
             /\ UNCHANGED chan
    /\ UNCHANGED <<fg, typed, said, world>>

(* The substitution is not a foreground job: a stop is not noticed, nothing is
   reclaimed and no interrupt is noted. *)
Captured(p) ==
    /\ At(p, "wait") /\ Command(p).kind = "capture" /\ WaitedAll(p, proc[p].job.waits)
    /\ LET status == Status(proc[p].job.waits[1])
       IN /\ proc' = [proc EXCEPT ![p] = Over(@, status, FALSE)]
          /\ Says(p, status, proc[p].job.waits, FALSE)
    /\ UNCHANGED <<chan, fg, typed, world>>

(* The list of a forked shell has come to its end. *)
Leave(p) ==
    /\ p # Main /\ Idle(p) /\ proc[p].todo = <<>>
    /\ Die(p, "exited", proc[p].last)
    /\ UNCHANGED <<chan, fg, typed, said, world>>

-------------------------------------------------------------------------------
(* Programs.                                                                   *)

Running(p, names) == Runs(p) /\ ~Shell(p) /\ proc[p].prog.name \in names

Exits(p) ==
    /\ Running(p, {"true", "fail", "sleep", "polite"})
    /\ Die(p, "exited", IF proc[p].prog.name = "fail" THEN 1 ELSE 0)
    /\ UNCHANGED <<chan, fg, typed, said, world>>

(* A write to a pipe nobody reads is SIGPIPE; to a full one it blocks. *)
Writes(p) ==
    /\ Running(p, {"put", "yes", "cat"}) /\ (proc[p].prog.name = "cat" => proc[p].held)
    /\ LET k == proc[p].out
           done == proc[p].prog.name = "put"
       IN \/ /\ k \in Pipes /\ Readers(k) = {}
             /\ Die(p, "killed", PIPE)
             /\ UNCHANGED chan
          \/ /\ k \in Pipes => (Readers(k) # {} /\ chan[k] < Capacity)
             /\ chan' = IF k \in Pipes THEN [chan EXCEPT ![k] = @ + 1] ELSE chan
             /\ IF done THEN Die(p, "exited", 0) ELSE proc' = [proc EXCEPT ![p].held = FALSE]
    /\ UNCHANGED <<fg, typed, said, world>>

Reads(p) ==
    /\ Running(p, {"cat", "head"}) /\ ~proc[p].held
    /\ LET k == proc[p].in
       IN \/ /\ k \in Pipes /\ chan[k] > 0
             /\ chan' = [chan EXCEPT ![k] = @ - 1]
             /\ IF proc[p].prog.name = "head" THEN Die(p, "exited", 0) ELSE proc' = [proc EXCEPT ![p].held = TRUE]
          \/ /\ k \in Pipes => (chan[k] = 0 /\ Writers(k) = {})
             /\ Die(p, "exited", 0)
             /\ UNCHANGED chan
    /\ UNCHANGED <<fg, typed, said, world>>

(* A pager reads the terminal: outside the foreground group that is SIGTTIN,    *)
(* or an error where the shell's own ignore was never dropped.                 *)
Pages(p) ==
    /\ Running(p, {"less"})
    /\ CASE proc[p].group = fg -> Die(p, "exited", 0)
         [] proc[p].group # fg /\ proc[p].tty -> proc' = [proc EXCEPT ![p].state = "stopped", ![p].last = TTIN]
         [] OTHER -> Die(p, "exited", 1)
    /\ UNCHANGED <<chan, fg, typed, said, world>>

-------------------------------------------------------------------------------
(* The terminal.                                                               *)

Prompt == Idle(Main) /\ proc[Main].todo = <<>>
TypeLine ==
    /\ Prompt /\ typed.lines < MaxLines
    /\ \E line \in world : proc' = [proc EXCEPT ![Main].todo = line]
    /\ typed' = [typed EXCEPT !.lines = @ + 1]
    /\ UNCHANGED <<chan, fg, said, world>>

(* ^C.  The interactive shell notes it, and its read of a substitution may end
   early; a child it has forked still has its handler, which forgets it; every
   other process dies, except a program that catches it and exits. *)
Reached(p) == Live(p) /\ proc[p].group = fg /\ proc[p].state # "stopped"
Struck(p, breaks) ==
    LET r == proc[p]
    IN CASE ~Reached(p) -> r
         [] Reached(p) /\ p = Main -> IF breaks THEN [EndOfRead(r) EXCEPT !.noted = TRUE] ELSE [r EXCEPT !.noted = TRUE]
         [] Reached(p) /\ p # Main /\ r.state # "running" /\ r.parent = Main -> r
         [] Reached(p) /\ p # Main /\ r.state = "running" /\ r.prog.name = "polite" -> Ended(p, "exited", INT)
         [] OTHER -> Ended(p, "killed", INT)
Interrupt ==
    /\ "INTR" \in Keys /\ typed.keys < MaxKeys /\ ~Prompt
    /\ typed' = [typed EXCEPT !.keys = @ + 1]
    /\ \E breaks \in {FALSE, At(Main, "read") /\ fg = Main} :
          proc' = Adopted([p \in Procs |-> Struck(p, breaks)])
    /\ UNCHANGED <<chan, fg, said, world>>

(* ^Z stops the programs that had the shell's ignore dropped at exec. *)
Suspend ==
    /\ "SUSP" \in Keys /\ typed.keys < MaxKeys /\ ~Prompt
    /\ typed' = [typed EXCEPT !.keys = @ + 1]
    /\ proc' = [p \in Procs |->
                  IF Runs(p) /\ ~Shell(p) /\ proc[p].tty /\ proc[p].group = fg
                  THEN [proc[p] EXCEPT !.state = "stopped", !.last = TSTP] ELSE proc[p]]
    /\ UNCHANGED <<chan, fg, said, world>>

-------------------------------------------------------------------------------
Interactive ==
    [state |-> "running", parent |-> 0, prog |-> [name |-> "(", body |-> <<>>], kind |-> "main", group |-> Main,
     lead |-> FALSE, tty |-> TRUE, todo |-> <<>>, job |-> NoJob, last |-> 0, held |-> FALSE, noted |-> FALSE,
     in |-> Terminal, out |-> Terminal, r |-> {}, w |-> {}, bg |-> <<>>]

Init ==
    /\ world \in Worlds
    /\ proc = [p \in Procs |-> IF p = Main THEN Interactive ELSE Nobody]
    /\ chan = [k \in Pipes |-> 0]
    /\ fg = Main
    /\ typed = [lines |-> 0, keys |-> 0, failures |-> 0]
    /\ said = [kind |-> "none"]

Step(p) ==
    \/ MakePipe(p) \/ ForkStage(p) \/ Wait(p) \/ Finish(p)
    \/ run_async(p) \/ run_wait(p) \/ capture(p) \/ ReadOutput(p) \/ Captured(p) \/ Leave(p)
    \/ Join(p) \/ Begin(p) \/ Exits(p) \/ Writes(p) \/ Reads(p) \/ Pages(p)

Next == TypeLine \/ Interrupt \/ Suspend \/ \E p \in Procs : Step(p)

(* Every process runs, and a program that is not stuck goes on. *)
Spec == Init /\ [][Next]_vars /\ \A p \in Procs : WF_vars(Step(p))

-------------------------------------------------------------------------------
(* Properties.                                                                 *)

(* Whatever failed, stopped or was killed on the way, at the prompt every child *)
(* of the shell has been reaped, is in the background list or is stopped, and   *)
(* the shell holds no end of a pipe beyond one for each pipe() that failed      *)
(* (run_pipeline's break leaves that one open).                                *)
NothingIsLeftOver ==
    Prompt =>
      /\ \A q \in Procs : (Dead(q) /\ proc[q].parent = Main) => q \in ToSet(proc[Main].bg)
      /\ Cardinality(proc[Main].r) <= typed.failures
      /\ proc[Main].w = {}

(* What ^C has orphaned: a child in its own group, to which the terminal had    *)
(* not gone yet when ^C killed the subshell that forked it, and all that child  *)
(* goes on to start.                                                           *)
Orphaned(q) ==
    \E family \in SUBSET {p \in Procs \ {Main} : Live(p)} :
       q \in family /\ \A p \in family : proc[p].parent \in family \union {0}

(* A foreground job gives the terminal back before the next command, whatever   *)
(* became of it, and between commands nobody takes it but an orphan, which has  *)
(* kept the means to (take_terminal_in_child, reclaim_terminal).               *)
TerminalComesBack ==
    [][/\ (~Idle(Main) /\ Idle(Main)' /\ Command(Main).kind \in Foreground) => fg' = Main
       /\ (Idle(Main) /\ fg' # fg) => \E q \in Procs : Orphaned(q) /\ fg' = proc[q].group]_vars

(* The rest of the line is abandoned exactly when the process the status came   *)
(* from was killed by SIGINT, at whatever depth of subshells, or the shell was  *)
(* signalled itself; a program that catches ^C and exits 130 abandons nothing.  *)
AbandonedIffKilled ==
    said.kind \in Foreground =>
        (said.abandoned <=> (said.heard \/ LET d == Decider(said.pipefail, said.waits)
                                          IN d.how = "killed" /\ d.code = INT))

(* Jobs end tidily: nothing is left over, and the right lines are abandoned.    *)
JobsAreTidy == NothingIsLeftOver /\ AbandonedIffKilled

(* The only way a command never ends is that a process is stopped or that a    *)
(* program does not end of itself: no end of a pipe is left open that should    *)
(* have been closed, and nobody waits for somebody who waits for him.           *)
CommandsEnd ==
    ~Prompt ~> (Prompt \/ \E p \in Procs : proc[p].state = "stopped")

(* "the classic pipeline hang" (executor.cpp, run_pipeline): when the last stage *)
(* has ended, so does the pipeline.                                             *)
PipelineEnds == ~Prompt ~> Prompt
===============================================================================
