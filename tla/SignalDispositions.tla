------------------------- MODULE SignalDispositions -------------------------
(***************************************************************************)
(* Who decides what a signal does to a lesh process.  Three writers share  *)
(* the kernel's one disposition per signal: the shell's traps and          *)
(* interactive defaults (runtime/signals.cpp), the editor's signal_hub     *)
(* (ui/loop.cpp), and the terminal code that wants SIGTTOU and SIGTTIN     *)
(* ignored (ui/tty.cpp).  SIG_IGN is inherited by every child and survives *)
(* execve, so what one writer does is felt by processes far away: by the   *)
(* subshells, by the commands, and by a lesh that a command happens to be. *)
(*                                                                         *)
(* A behaviour follows ONE signal, sig, down ONE line of descent: at a     *)
(* fork it goes with the child, at an execve with the new image.  No       *)
(* operation below lets one signal's disposition depend on another's, and  *)
(* a process never reads another's, so nothing is lost by following one.   *)
(***************************************************************************)
CONSTANT Signals

CaughtByHub == {"INT", "CHLD", "WINCH"}
IgnoredByHub == {"PIPE", "QUIT", "TSTP", "TTOU", "TTIN"}
Background == {"TTOU", "TTIN"}
JobControl == {"TTOU", "TTIN", "TSTP"}
SparesTheShell == {"INT", "QUIT", "TERM"}

\* "editor": a terminal and a session; "interactive": `sh -i` reading a file or
\* a pipe; "script": neither.
Modes == {"editor", "interactive", "script"}

\* The forks of the executor: a simple command, `( )`, a pipeline stage, `&`,
\* `$( )`.
Forks == {"command", "group", "stage", "async", "substitution"}

VARIABLES
    sig,      \* the signal that is followed
    root,     \* what the shell at the root of this line of descent is
    role,     \* "shell", "forked" (not yet subshell or command), "subshell", "command"
    stage,    \* "rc": before signal_hub::install; "prompt"; "line": code runs
    proc,     \* the kernel's disposition and the signal_state entry
    tty,      \* shell_state::_tty_fd is a terminal
    chain,    \* signal_hub::_chain[sig]: "none" or the disposition it calls
    job,      \* "detached" below an `&` or a `$( )`
    doing,    \* what the process was forked for, or "exec": `exec` replaced it
    did       \* "trap": `trap` has named the signal, here or above;
              \* "exec": an `exec` has failed in this very process

signalVars == <<sig, root, role, stage, proc, tty, chain, job, doing, did>>

Interactive == root # "script"
-----------------------------------------------------------------------------
(* signal_state: pure operators on [kernel, how, entry, stands, defaults].  *)

InteractiveDefault(p) == p.defaults /\ sig \in SparesTheShell

KernelOf(how) ==
    CASE how = "default" -> "default"
      [] how = "ignore"  -> "ignored"
      [] how = "handler" -> "record"

\* What the shell wants of the kernel: the interactive default is computed over
\* the trap table, never stored in it.
Effective(p) ==
    IF p.how = "default" /\ InteractiveDefault(p)
      THEN IF sig = "INT" THEN "handler" ELSE "ignore"
      ELSE p.how

install(p) == [p EXCEPT !.stands = FALSE, !.kernel = KernelOf(Effective(p))]

\* An inherited ignore nobody has replaced is left to the kernel.
set_interactive_defaults(p, on) ==
    LET q == [p EXCEPT !.defaults = on]
    IN  IF p.defaults = on \/ sig \notin SparesTheShell \/ p.stands
          THEN q ELSE install(q)

drop_interactive_defaults(p) == set_interactive_defaults(p, FALSE)
restore_interactive_defaults(p) == set_interactive_defaults(p, Interactive)

cannot_be_trapped(p) == p.entry /\ ~Interactive

\* `trap`: a handler, an ignore or a reset, refused for an inherited ignore in
\* a shell that is not interactive.
SetHow(p, how) == IF cannot_be_trapped(p) THEN p ELSE install([p EXCEPT !.how = how])

\* mutants: the interactive defaults stay; the ignores go with the handlers.
ResetKeepsDefaults(p) ==
    IF p.how = "handler" THEN install([p EXCEPT !.how = "default"]) ELSE p
ResetTakesIgnores(p) ==
    LET q == drop_interactive_defaults(p)
    IN  IF q.how # "default" THEN install([q EXCEPT !.how = "default"]) ELSE q

reset_for_subshell(p) ==
    LET q == drop_interactive_defaults(p)
    IN  IF q.how = "handler" THEN install([q EXCEPT !.how = "default"]) ELSE q

ignore_interrupts_for_async(p) ==
    IF sig \in {"INT", "QUIT"} THEN SetHow(p, "ignore") ELSE p

\* signal_state's constructor: all it knows is what the kernel was handed.
Constructed(kernel) == [kernel |-> kernel, how |-> "default",
                         entry |-> kernel = "ignored", stands |-> kernel = "ignored",
                         defaults |-> FALSE]
-----------------------------------------------------------------------------
(* signal_hub and the terminal: rules 1 to 4 of signal_hub::reassert.       *)

HubTakes(k) == sig \in CaughtByHub /\ k \in {"default", "record"}
HubIgnores(k) == sig \in IgnoredByHub /\ k = "default"

Taken(k) ==
    IF HubTakes(k) THEN "hub" ELSE IF HubIgnores(k) THEN "ignored" ELSE k

Retargeted(k) ==
    IF HubTakes(k) THEN IF k = "default" THEN "none" ELSE k ELSE chain

ignore_background_write_signals(k) == IF sig \in Background THEN "ignored" ELSE k

\* take_dispositions, then the read's own SIG_IGN for SIGTTOU and SIGTTIN.
TakeForTheRead ==
    /\ chain' = Retargeted(proc.kernel)
    /\ proc' = [proc EXCEPT !.kernel = ignore_background_write_signals(Taken(proc.kernel))]
-----------------------------------------------------------------------------
(* The shell.                                                               *)

\* signal_state's constructor, then main's set_interactive.
Started(kernel, m) ==
    set_interactive_defaults(Constructed(kernel), m # "script")

\* The rc is the editor's; every other shell is running code from the start.
FirstStage(m) == IF m = "editor" THEN "rc" ELSE "line"

SignalInit ==
    /\ sig \in Signals
    /\ root \in Modes
    /\ role = "shell" /\ stage = FirstStage(root)
    /\ \E kernel \in {"default", "ignored"} : proc = Started(kernel, root)
    /\ tty = (root = "editor")
    /\ chain = "none" /\ job = "foreground" /\ doing = "none" /\ did = {}

\* session::run: the rc has been read, the hub takes its signals and the loop
\* enters its first read.
InstallHub ==
    /\ role = "shell" /\ stage = "rc"
    /\ stage' = "prompt"
    /\ TakeForTheRead
    /\ UNCHANGED <<sig, root, role, tty, job, doing, did>>

\* The line is accepted: from here its commands run.
AcceptLine ==
    /\ role = "shell" /\ stage = "prompt"
    /\ stage' = "line"
    /\ UNCHANGED <<sig, root, role, proc, tty, chain, job, doing, did>>

\* session::execute re-asserts the hub on its way out, and
\* resume_after_execution takes the terminal back.
LineReturns ==
    /\ role = "shell" /\ root = "editor" /\ stage = "line"
    /\ stage' = "prompt"
    /\ TakeForTheRead
    /\ UNCHANGED <<sig, root, role, tty, job, doing, did>>

\* A process in which shell code is running.
RunsCode == role \in {"shell", "subshell"} /\ stage # "prompt"

Trap ==
    /\ RunsCode
    /\ \E how \in {"default", "ignore", "handler"} : proc' = SetHow(proc, how)
    /\ did' = did \cup {"trap"} /\ doing' = "none"
    /\ UNCHANGED <<sig, root, role, stage, tty, chain, job>>
-----------------------------------------------------------------------------
(* Forks and execs.                                                         *)

\* The child exists, with a copy of everything, and has done nothing yet.
Fork ==
    /\ RunsCode
    /\ role' = "forked"
    /\ doing' \in Forks
    /\ job' = IF doing' \in {"async", "substitution"} THEN "detached" ELSE job
    /\ UNCHANGED <<sig, root, stage, proc, tty, chain, did>>

KeepsTerminal == doing \in {"group", "stage"}

\* shell_state::enter_subshell; an asynchronous list without `set -m` ignores
\* SIGINT and SIGQUIT as well.
BecomeSubshell ==
    /\ role = "forked" /\ doing # "command"
    /\ role' = "subshell"
    /\ tty' = (tty /\ KeepsTerminal)
    /\ \E monitor \in BOOLEAN :
         proc' = IF doing = "async" /\ ~monitor
                   THEN ignore_interrupts_for_async(reset_for_subshell(proc))
                   ELSE reset_for_subshell(proc)
    /\ did' = did \ {"exec"}
    /\ UNCHANGED <<sig, root, stage, chain, job, doing>>

reset_job_control_signals(p) ==
    IF tty /\ sig \in JobControl THEN [p EXCEPT !.kernel = "default"] ELSE p

\* execve: a handler becomes the default, an ignore stays.
Execed(p) == IF p.kernel = "ignored" THEN p ELSE [p EXCEPT !.kernel = "default"]

\* become_command, in the child of spawn or in a pipeline stage that is one
\* simple command.
BecomeCommand ==
    /\ \/ role = "forked" /\ doing = "command"
       \/ role = "subshell" /\ doing = "stage"
    /\ role' = "command" /\ doing' = "command"
    /\ proc' = Execed(reset_job_control_signals(drop_interactive_defaults(proc)))
    /\ UNCHANGED <<sig, root, stage, tty, chain, job, did>>

\* The `exec` builtin replaces the shell itself ...
ExecReplaces ==
    /\ RunsCode
    /\ role' = "command" /\ doing' = "exec"
    /\ proc' = Execed(drop_interactive_defaults(proc))
    /\ UNCHANGED <<sig, root, stage, tty, chain, job, did>>

\* ... or fails, and the shell that is left (interactive, running its EXIT
\* trap, or told to go on by `command exec`) takes its defaults back.
ExecFails ==
    /\ RunsCode
    /\ proc' = restore_interactive_defaults(drop_interactive_defaults(proc))
    /\ doing' = "none" /\ did' = did \cup {"exec"}
    /\ UNCHANGED <<sig, root, role, stage, tty, chain, job>>

\* The command is another lesh: what it was handed is what it finds on entry.
StartShell ==
    /\ role = "command"
    /\ root' \in Modes
    /\ role' = "shell" /\ stage' = FirstStage(root')
    /\ proc' = Started(proc.kernel, root')
    /\ tty' = (root' = "editor")
    /\ chain' = "none" /\ job' = "foreground" /\ doing' = "none" /\ did' = {}
    /\ UNCHANGED sig

SignalNext ==
        \/ InstallHub \/ AcceptLine \/ LineReturns \/ Trap
        \/ Fork \/ BecomeSubshell \/ BecomeCommand \/ ExecReplaces \/ ExecFails
        \/ StartShell

SignalSpec == SignalInit /\ [][SignalNext]_signalVars
-----------------------------------------------------------------------------
(* What holds.                                                              *)

Heard == proc.kernel = "record" \/ (role = "shell" /\ proc.kernel = "hub" /\ chain = "record")

\* A `trap 'cmd' SIG` that is listed is one that will run: the handler that
\* records the signal is in the kernel, or the hub has it and calls through,
\* whatever was trapped, reset, exec'd and re-asserted in between (loop.h,
\* rule 4).  SIGTTOU and SIGTTIN are out: the read's own SIG_IGN overwrites
\* the user's trap.
UserTrapStands ==
    (role \in {"shell", "subshell"} /\ proc.how = "handler" /\ sig \notin Background) => Heard

\* `trap '' SIG` protects the whole subtree: no step but another `trap` takes
\* the ignore away, in this shell, in a subshell, in a command, or in a lesh
\* that the command is (signals.cpp:523-525).  The job control signals are out:
\* become_command resets those whoever ignored them.
IgnoreIsInherited ==
    [][(proc.how = "ignore" /\ sig \notin JobControl /\ ~Trap) => proc'.kernel = "ignored"]_signalVars

\* A signal ignored on entry stays ignored in a shell that is not interactive
\* and in everything below it; in an interactive one, for as long as the flag
\* inherited_ignore_stands claims it, and then in its commands too (#37, #52).
EntryIgnoreStands ==
    /\ (proc.entry /\ ~Interactive) => proc.kernel = "ignored"
    /\ (proc.stands /\ (role = "command" => sig \notin JobControl)) => proc.kernel = "ignored"

\* At the prompt the signals the editor lives by reach it, whatever the line
\* that just ran did to them; only an ignore, the user's or an inherited one,
\* outranks it (loop.h, rules 2 and 3).
PromptHears ==
    (role = "shell" /\ stage = "prompt" /\ sig \in CaughtByHub) =>
        \/ proc.kernel = "hub"
        \/ proc.kernel = "ignored" /\ (proc.how = "ignore" \/ proc.stands)

\* An interactive shell is never one SIGINT, SIGQUIT or SIGTERM from its end,
\* through `trap -`, the hub and an `exec` that failed (#52).
ShellSurvives ==
    (role = "shell" /\ Interactive /\ sig \in SparesTheShell) => proc.kernel # "default"

\* A subshell takes the default action for those three again, at any depth,
\* unless a trap or an inherited ignore says otherwise (signals.cpp:541-549).
\* After an `exec` that failed IN the subshell it does not: ExecFails restores
\* what the shell at the root would have had.
SubshellTakesDefaults ==
    (/\ role = "subshell" /\ sig \in SparesTheShell
     /\ proc.how = "default" /\ ~proc.stands /\ "exec" \notin did) => proc.kernel = "default"

\* Every command of a foreground job can be stopped, in a pipeline and below
\* a `( )` as well (#160), and the shells that manage the terminal cannot: one
\* takes it back after each foreground command, from a background group, where
\* SIGTTOU would stop it.  From the first prompt on, and as long as no `trap`
\* named SIGTTOU.
JobControlReachesCommandsOnly ==
    /\ (/\ role = "command" /\ doing = "command" /\ job = "foreground"
        /\ root = "editor" /\ sig \in JobControl) => proc.kernel = "default"
    /\ (/\ role \in {"shell", "subshell"} /\ tty /\ stage # "rc"
        /\ sig = "TTOU" /\ "trap" \notin did) => proc.kernel = "ignored"

\* Whoever wrote last, each process has the disposition it should.
DispositionsStand ==
    /\ UserTrapStands /\ EntryIgnoreStands /\ PromptHears /\ ShellSurvives
    /\ SubshellTakesDefaults /\ JobControlReachesCommandsOnly
=============================================================================
