---------------------- MODULE SignalDispositionsProofs ----------------------
(***************************************************************************)
(* What a signal does to a lesh process, proved for every signal and every *)
(* line of descent: of any depth, through any number of traps, subshells,  *)
(* execs and lines at the prompt.                                          *)
(*                                                                         *)
(* The argument is one idea.  The trap table says what the kernel should   *)
(* have been told, Told(proc), and the kernel either has been told that or *)
(* the editor has since laid something over it: the hub's handler, which   *)
(* remembers in chain what it covers, or an ignore.  What lies over the    *)
(* table is known in every process below, because each operation that      *)
(* changes the table installs what it changed.                             *)
(***************************************************************************)
EXTENDS SignalDispositions, TLAPS

Kernels == {"default", "ignored", "record", "hub"}
Hows == {"default", "ignore", "handler"}
Process == [kernel : Kernels, how : Hows, entry : BOOLEAN, stands : BOOLEAN,
            defaults : BOOLEAN]

\* What the table says the kernel should hold.
Told(p) == IF p.stands THEN "ignored" ELSE KernelOf(Effective(p))

Types ==
  /\ root \in Modes
  /\ role \in {"shell", "forked", "subshell", "command"}
  /\ stage \in {"rc", "prompt", "line"} /\ (root # "editor" => stage = "line")
  /\ proc \in Process
  /\ tty \in BOOLEAN
  /\ job \in {"foreground", "detached"}
  /\ doing \in Forks \cup {"none", "exec"}
  /\ did \in SUBSET {"trap", "exec"}

\* An inherited ignore that stands has never been replaced.
StandsUntouched ==
  /\ proc.stands => proc.how = "default"
  /\ proc.entry /\ ~Interactive => proc.stands

\* The hub's handler lies over a default or over the handler it chains to.
HubLies ==
  /\ root = "editor" /\ proc.kernel = "hub" /\ sig \in CaughtByHub
  /\ \/ Told(proc) = "default" /\ chain = "none"
     \/ Told(proc) = "record" /\ chain = "record"

\* The editor's ignores lie over a default; the read's own over anything.
IgnoreLies ==
  /\ root = "editor" /\ proc.kernel = "ignored" /\ sig \in IgnoredByHub
  /\ Told(proc) = "default" \/ sig \in Background

KernelKnown ==
  role # "command" => proc.kernel = Told(proc) \/ HubLies \/ IgnoreLies

\* Only a subshell in which an `exec` has failed has the interactive defaults.
DefaultsKnown ==
  /\ role = "shell" => proc.defaults = Interactive
  /\ role = "subshell" /\ "exec" \notin did => ~proc.defaults
  /\ ~Interactive => ~proc.defaults

\* Nothing lies over what a subshell has been told of the three signals that
\* spare the shell, nor over a trap it has set.
SubshellIsTold ==
  /\ role = "subshell" /\ (sig \in SparesTheShell \/ proc.how = "handler") =>
       proc.kernel = Told(proc)
  /\ role = "forked" /\ ~proc.defaults /\ sig \in SparesTheShell =>
       proc.kernel = Told(proc) \/ ~Interactive

\* The terminal is kept exactly as far as the job is in the foreground.
TerminalKnown ==
  /\ root = "editor" /\ job = "foreground" => tty
  /\ tty => root = "editor"
  /\ doing \in {"async", "substitution"} => job = "detached"
  /\ role = "forked" => doing \in Forks

\* What was ignored, by the user or on entry, is ignored in commands too.
IgnoresReachCommands ==
  /\ proc.how = "ignore" /\ sig \notin JobControl => proc.kernel = "ignored"
  /\ proc.stands /\ (role = "command" => sig \notin JobControl \/ ~Interactive) =>
       proc.kernel = "ignored"

\* TTOU stays ignored where nobody has named it.
OutputIsNotStopped ==
  /\ sig = "TTOU" /\ "trap" \notin did => proc.how = "default"
  /\ role # "command" /\ tty /\ stage # "rc" /\ sig = "TTOU" /\ "trap" \notin did =>
       proc.kernel = "ignored"

CommandsCanBeStopped ==
  /\ role = "command" /\ doing = "command" /\ job = "foreground" /\ root = "editor"
     /\ sig \in JobControl => proc.kernel = "default"
  /\ role = "command" => proc.kernel \in {"default", "ignored"}

IInv ==
  /\ Types /\ StandsUntouched /\ KernelKnown /\ DefaultsKnown /\ SubshellIsTold
  /\ TerminalKnown /\ IgnoresReachCommands /\ OutputIsNotStopped
  /\ CommandsCanBeStopped /\ PromptHears
-----------------------------------------------------------------------------
(* What the operations on signal_state do to a process, field by field.     *)

LEMMA InstallTells ==
  ASSUME NEW p \in Process
  PROVE  /\ install(p) \in Process
         /\ install(p).how = p.how /\ install(p).entry = p.entry
         /\ install(p).defaults = p.defaults /\ install(p).stands = FALSE
         /\ install(p).kernel = Told(install(p))
         /\ install(p).kernel = KernelOf(Effective(p))
         /\ install(p).kernel # "hub"
  BY DEF install, Told, Effective, KernelOf, InteractiveDefault, Process, Kernels, Hows

LEMMA DefaultsSet ==
  ASSUME NEW p \in Process, NEW on \in BOOLEAN
  PROVE  LET q == set_interactive_defaults(p, on)
         IN  /\ q \in Process
             /\ q.how = p.how /\ q.entry = p.entry /\ q.defaults = on
             /\ p.stands => q.stands /\ q.kernel = p.kernel
             /\ ~p.stands => ~q.stands
             /\ p.defaults = on \/ sig \notin SparesTheShell => q.kernel = p.kernel
             /\ p.defaults # on /\ sig \in SparesTheShell /\ ~p.stands =>
                  q.kernel = Told(q)
             /\ sig \notin SparesTheShell => Told(q) = Told(p)
             /\ p.defaults = on => Told(q) = Told(p)
<1> DEFINE q0 == [p EXCEPT !.defaults = on]
           q == set_interactive_defaults(p, on)
<1>1. /\ q0 \in Process /\ q0.how = p.how /\ q0.entry = p.entry
      /\ q0.defaults = on /\ q0.stands = p.stands /\ q0.kernel = p.kernel
  BY DEF Process
<1>2. /\ install(q0) \in Process /\ install(q0).how = p.how
      /\ install(q0).entry = p.entry /\ install(q0).defaults = on
      /\ install(q0).stands = FALSE
      /\ install(q0).kernel = Told(install(q0))
  BY <1>1, InstallTells
<1>3. sig \notin SparesTheShell \/ p.defaults = on => Told(q0) = Told(p)
  <2> HIDE DEF q0
  <2>1. CASE sig \notin SparesTheShell
    <3>1. Effective(q0) = Effective(p)
      BY <1>1, <2>1 DEF Effective, InteractiveDefault
    <3>2. QED
      BY <1>1, <3>1 DEF Told
  <2>2. CASE p.defaults = on
    <3>1. q0.defaults = p.defaults
      BY <1>1, <2>2
    <3>2. Effective(q0) = Effective(p)
      BY <1>1, <3>1 DEF Effective, InteractiveDefault
    <3>3. QED
      BY <1>1, <3>2 DEF Told
  <2>3. QED
    BY <2>1, <2>2
<1>4. CASE p.defaults = on \/ sig \notin SparesTheShell \/ p.stands
  <2>1. q = q0
    BY <1>4 DEF set_interactive_defaults
  <2> HIDE DEF q, q0
  <2>2. QED
    BY <1>1, <1>3, <1>4, <2>1 DEF q, Process
<1>5. CASE ~(p.defaults = on \/ sig \notin SparesTheShell \/ p.stands)
  <2>1. q = install(q0)
    BY <1>5 DEF set_interactive_defaults
  <2> HIDE DEF q, q0
  <2>2. QED
    BY <1>2, <1>5, <2>1 DEF q
<1>6. QED
  BY <1>4, <1>5

LEMMA HowSet ==
  ASSUME NEW p \in Process, NEW how \in Hows
  PROVE  LET q == SetHow(p, how)
         IN  /\ q \in Process /\ q.entry = p.entry /\ q.defaults = p.defaults
             /\ p.entry /\ ~Interactive => q = p
             /\ ~p.entry \/ Interactive =>
                  ~q.stands /\ q.how = how /\ q.kernel = Told(q)
<1> DEFINE q0 == [p EXCEPT !.how = how]
<1>1. /\ q0 \in Process /\ q0.entry = p.entry /\ q0.defaults = p.defaults
      /\ q0.how = how
  BY DEF Process
<1>2. /\ install(q0) \in Process /\ install(q0).entry = p.entry
      /\ install(q0).defaults = p.defaults /\ install(q0).how = how
      /\ install(q0).stands = FALSE /\ install(q0).kernel = Told(install(q0))
  BY <1>1, InstallTells
<1> HIDE DEF q0
<1>3. QED
  BY <1>2 DEF SetHow, cannot_be_trapped, q0, Process

LEMMA ResetTells ==
  ASSUME NEW p \in Process, p.stands => p.how = "default"
  PROVE  LET q == reset_for_subshell(p)
         IN  /\ q \in Process /\ q.entry = p.entry /\ q.defaults = FALSE
             /\ q.how = IF p.how = "handler" THEN "default" ELSE p.how
             /\ p.stands => q.stands /\ q.kernel = p.kernel
             /\ ~p.stands => ~q.stands
             /\ sig \notin SparesTheShell /\ p.how # "handler" => q.kernel = p.kernel
             /\ \/ q.kernel = Told(q)
                \/ /\ q.kernel = p.kernel /\ Told(q) = Told(p)
                   /\ p.how # "handler"
                   /\ sig \notin SparesTheShell \/ p.defaults = FALSE
                \/ p.stands /\ q.kernel = p.kernel
<1> DEFINE d == drop_interactive_defaults(p)
           q == reset_for_subshell(p)
<1>1. /\ d \in Process
      /\ d.how = p.how /\ d.entry = p.entry /\ d.defaults = FALSE
      /\ p.stands => d.stands /\ d.kernel = p.kernel
      /\ ~p.stands => ~d.stands
      /\ p.defaults = FALSE \/ sig \notin SparesTheShell => d.kernel = p.kernel
      /\ p.defaults # FALSE /\ sig \in SparesTheShell /\ ~p.stands =>
           d.kernel = Told(d)
      /\ sig \notin SparesTheShell => Told(d) = Told(p)
      /\ p.defaults = FALSE => Told(d) = Told(p)
  BY DefaultsSet DEF drop_interactive_defaults
<1> HIDE DEF d
<1>2. CASE p.how = "handler"
  <2> DEFINE d0 == [d EXCEPT !.how = "default"]
  <2>1. d0 \in Process /\ d0.how = "default" /\ d0.entry = p.entry /\ d0.defaults = FALSE
    BY <1>1 DEF Process, Hows
  <2>2. /\ install(d0) \in Process /\ install(d0).how = "default"
        /\ install(d0).entry = p.entry /\ install(d0).defaults = FALSE
        /\ install(d0).stands = FALSE /\ install(d0).kernel = Told(install(d0))
    BY <2>1, InstallTells
  <2>3. q = install(d0)
    BY <1>1, <1>2 DEF reset_for_subshell, d
  <2> HIDE DEF d0, q
  <2>4. QED
    BY <1>2, <2>2, <2>3 DEF q
<1>3. CASE p.how # "handler"
  <2>1. q = d
    BY <1>1, <1>3 DEF reset_for_subshell, d
  <2> HIDE DEF q
  <2>2. QED
    BY <1>1, <1>3, <2>1 DEF q, Process
<1>4. QED
  BY <1>2, <1>3
-----------------------------------------------------------------------------
(* The invariant.                                                           *)

LEMMA InstallHubKeeps == IInv /\ InstallHub => IInv'
<1> SUFFICES ASSUME IInv, InstallHub PROVE IInv'
  OBVIOUS
<1> USE DEF IInv, Types, StandsUntouched, KernelKnown, DefaultsKnown,
     SubshellIsTold, TerminalKnown, IgnoresReachCommands, OutputIsNotStopped,
     CommandsCanBeStopped, PromptHears, HubLies, IgnoreLies, Interactive,
     Told, Effective, KernelOf, InteractiveDefault, InstallHub, TakeForTheRead, Taken, Retargeted, HubTakes,
     HubIgnores, ignore_background_write_signals, CaughtByHub, IgnoredByHub,
     Background, SparesTheShell, Process, Kernels, Hows, Modes
<1>1. Types'
  OBVIOUS
<1>2. StandsUntouched'
  OBVIOUS
<1>3. KernelKnown'
  OBVIOUS
<1>4. DefaultsKnown'
  OBVIOUS
<1>5. SubshellIsTold'
  OBVIOUS
<1>6. TerminalKnown'
  OBVIOUS
<1>7. IgnoresReachCommands'
  OBVIOUS
<1>8. OutputIsNotStopped'
  OBVIOUS
<1>9. CommandsCanBeStopped'
  OBVIOUS
<1>10. PromptHears'
  OBVIOUS
<1>11. QED
  BY <1>1, <1>2, <1>3, <1>4, <1>5, <1>6, <1>7, <1>8, <1>9, <1>10

LEMMA AcceptLineKeeps == IInv /\ AcceptLine => IInv'
<1> SUFFICES ASSUME IInv, AcceptLine PROVE IInv'
  OBVIOUS
<1> USE DEF IInv, Types, StandsUntouched, KernelKnown, DefaultsKnown,
     SubshellIsTold, TerminalKnown, IgnoresReachCommands, OutputIsNotStopped,
     CommandsCanBeStopped, PromptHears, HubLies, IgnoreLies, Interactive,
     Told, Effective, KernelOf, InteractiveDefault, AcceptLine, Modes
<1>1. Types'
  OBVIOUS
<1>2. StandsUntouched'
  OBVIOUS
<1>3. KernelKnown'
  OBVIOUS
<1>4. DefaultsKnown'
  OBVIOUS
<1>5. SubshellIsTold'
  OBVIOUS
<1>6. TerminalKnown'
  OBVIOUS
<1>7. IgnoresReachCommands'
  OBVIOUS
<1>8. OutputIsNotStopped'
  OBVIOUS
<1>9. CommandsCanBeStopped'
  OBVIOUS
<1>10. PromptHears'
  OBVIOUS
<1>11. QED
  BY <1>1, <1>2, <1>3, <1>4, <1>5, <1>6, <1>7, <1>8, <1>9, <1>10

LEMMA LineReturnsKeeps == IInv /\ LineReturns => IInv'
<1> SUFFICES ASSUME IInv, LineReturns PROVE IInv'
  OBVIOUS
<1> USE DEF IInv, Types, StandsUntouched, KernelKnown, DefaultsKnown,
     SubshellIsTold, TerminalKnown, IgnoresReachCommands, OutputIsNotStopped,
     CommandsCanBeStopped, PromptHears, HubLies, IgnoreLies, Interactive,
     Told, Effective, KernelOf, InteractiveDefault, LineReturns, TakeForTheRead, Taken, Retargeted, HubTakes,
     HubIgnores, ignore_background_write_signals, CaughtByHub, IgnoredByHub,
     Background, SparesTheShell, Process, Kernels, Hows, Modes
<1>1. Types'
  OBVIOUS
<1>2. StandsUntouched'
  OBVIOUS
<1>3. KernelKnown'
  OBVIOUS
<1>4. DefaultsKnown'
  OBVIOUS
<1>5. SubshellIsTold'
  OBVIOUS
<1>6. TerminalKnown'
  OBVIOUS
<1>7. IgnoresReachCommands'
  OBVIOUS
<1>8. OutputIsNotStopped'
  OBVIOUS
<1>9. CommandsCanBeStopped'
  OBVIOUS
<1>10. PromptHears'
  OBVIOUS
<1>11. QED
  BY <1>1, <1>2, <1>3, <1>4, <1>5, <1>6, <1>7, <1>8, <1>9, <1>10

LEMMA ForkKeeps == IInv /\ Fork => IInv'
<1> SUFFICES ASSUME IInv, Fork PROVE IInv'
  OBVIOUS
<1> USE DEF IInv, Types, StandsUntouched, KernelKnown, DefaultsKnown,
     SubshellIsTold, TerminalKnown, IgnoresReachCommands, OutputIsNotStopped,
     CommandsCanBeStopped, PromptHears, HubLies, IgnoreLies, Interactive,
     Told, Effective, KernelOf, InteractiveDefault, Fork, RunsCode, Forks, Modes
<1>1. Types'
  OBVIOUS
<1>2. StandsUntouched'
  OBVIOUS
<1>3. KernelKnown'
  OBVIOUS
<1>4. DefaultsKnown'
  OBVIOUS
<1>5. SubshellIsTold'
  OBVIOUS
<1>6. TerminalKnown'
  OBVIOUS
<1>7. IgnoresReachCommands'
  OBVIOUS
<1>8. OutputIsNotStopped'
  OBVIOUS
<1>9. CommandsCanBeStopped'
  OBVIOUS
<1>10. PromptHears'
  OBVIOUS
<1>11. QED
  BY <1>1, <1>2, <1>3, <1>4, <1>5, <1>6, <1>7, <1>8, <1>9, <1>10

LEMMA ExecReplacesKeeps == IInv /\ ExecReplaces => IInv'
<1> SUFFICES ASSUME IInv, ExecReplaces PROVE IInv'
  OBVIOUS
<1> DEFINE d == drop_interactive_defaults(proc)
<1>a. proc \in Process
  BY DEF IInv, Types
<1>b. /\ d \in Process /\ d.how = proc.how /\ d.entry = proc.entry
      /\ d.defaults = FALSE
      /\ proc.stands => d.stands /\ d.kernel = proc.kernel
      /\ ~proc.stands => ~d.stands
      /\ proc.defaults = FALSE \/ sig \notin SparesTheShell => d.kernel = proc.kernel
      /\ proc.defaults # FALSE /\ sig \in SparesTheShell /\ ~proc.stands =>
           d.kernel = Told(d)
  BY <1>a, DefaultsSet DEF drop_interactive_defaults
<1>c. /\ proc' \in Process /\ proc'.how = proc.how /\ proc'.entry = proc.entry
      /\ proc'.defaults = FALSE /\ proc'.stands = d.stands
      /\ proc'.kernel = IF d.kernel = "ignored" THEN "ignored" ELSE "default"
  BY <1>b DEF ExecReplaces, Execed, Process, Kernels
<1> HIDE DEF d
<1> USE DEF IInv, Types, StandsUntouched, KernelKnown, DefaultsKnown,
     SubshellIsTold, TerminalKnown, IgnoresReachCommands, OutputIsNotStopped,
     CommandsCanBeStopped, PromptHears, HubLies, IgnoreLies, Interactive,
     Told, Effective, KernelOf, InteractiveDefault, ExecReplaces, RunsCode, Forks, Modes, Execed
<1>1. Types'
  BY <1>b, <1>c DEF SparesTheShell, JobControl
<1>2. StandsUntouched'
  BY <1>b, <1>c DEF SparesTheShell, JobControl
<1>3. KernelKnown'
  BY <1>b, <1>c DEF SparesTheShell, JobControl
<1>4. DefaultsKnown'
  BY <1>b, <1>c DEF SparesTheShell, JobControl
<1>5. SubshellIsTold'
  BY <1>b, <1>c DEF SparesTheShell, JobControl
<1>6. TerminalKnown'
  BY <1>b, <1>c DEF SparesTheShell, JobControl
<1>7. IgnoresReachCommands'
  BY <1>b, <1>c DEF SparesTheShell, JobControl
<1>8. OutputIsNotStopped'
  BY <1>b, <1>c DEF SparesTheShell, JobControl
<1>9. CommandsCanBeStopped'
  BY <1>b, <1>c DEF SparesTheShell, JobControl
<1>10. PromptHears'
  BY <1>b, <1>c DEF SparesTheShell, JobControl
<1>11. QED
  BY <1>1, <1>2, <1>3, <1>4, <1>5, <1>6, <1>7, <1>8, <1>9, <1>10

LEMMA TrapKeeps == IInv /\ Trap => IInv'
<1> SUFFICES ASSUME IInv, Trap PROVE IInv'
  OBVIOUS
<1>a. proc \in Process
  BY DEF IInv, Types
<1>b. PICK how \in Hows : proc' = SetHow(proc, how)
  BY DEF Trap, Hows
<1>c. /\ proc' \in Process /\ proc'.entry = proc.entry
      /\ proc'.defaults = proc.defaults
      /\ proc.entry /\ ~Interactive => proc' = proc
      /\ ~proc.entry \/ Interactive =>
           ~proc'.stands /\ proc'.how = how /\ proc'.kernel = Told(proc')
  BY <1>a, <1>b, HowSet
<1>d. sig' = sig /\ root' = root /\ role' = role /\ stage' = stage /\ tty' = tty /\ job' = job
  BY DEF Trap
<1> USE DEF IInv, Types, StandsUntouched, KernelKnown, DefaultsKnown,
     SubshellIsTold, TerminalKnown, IgnoresReachCommands, OutputIsNotStopped,
     CommandsCanBeStopped, PromptHears, HubLies, IgnoreLies, Interactive,
     Told, Effective, KernelOf, InteractiveDefault, Trap, RunsCode, Forks, Modes
<1>1. Types'
  BY <1>c
<1>2. StandsUntouched'
  BY <1>c
<1>3. KernelKnown'
  BY <1>c
<1>4. DefaultsKnown'
  BY <1>c
<1>5. SubshellIsTold'
  BY <1>c
<1>6. TerminalKnown'
  BY <1>c
<1>7. IgnoresReachCommands'
  BY <1>c
<1>8. OutputIsNotStopped'
  BY <1>c
<1>9. CommandsCanBeStopped'
  BY <1>c
<1>10. PromptHears'
  BY <1>c
<1>11. QED
  BY <1>1, <1>2, <1>3, <1>4, <1>5, <1>6, <1>7, <1>8, <1>9, <1>10

LEMMA BecomeCommandKeeps == IInv /\ BecomeCommand => IInv'
<1> SUFFICES ASSUME IInv, BecomeCommand PROVE IInv'
  OBVIOUS
<1> DEFINE d == drop_interactive_defaults(proc)
<1>a. proc \in Process
  BY DEF IInv, Types
<1>b. /\ d \in Process /\ d.how = proc.how /\ d.entry = proc.entry
      /\ d.defaults = FALSE
      /\ proc.stands => d.stands /\ d.kernel = proc.kernel
      /\ ~proc.stands => ~d.stands
      /\ proc.defaults = FALSE \/ sig \notin SparesTheShell => d.kernel = proc.kernel
      /\ proc.defaults # FALSE /\ sig \in SparesTheShell /\ ~proc.stands =>
           d.kernel = Told(d)
  BY <1>a, DefaultsSet DEF drop_interactive_defaults
<1>c. /\ proc' \in Process /\ proc'.how = proc.how /\ proc'.entry = proc.entry
      /\ proc'.defaults = FALSE /\ proc'.stands = d.stands
      /\ proc'.kernel =
           IF d.kernel = "ignored" /\ ~(tty /\ sig \in JobControl)
             THEN "ignored" ELSE "default"
  BY <1>b DEF BecomeCommand, Execed, reset_job_control_signals, Process, Kernels
<1> HIDE DEF d
<1> USE DEF IInv, Types, StandsUntouched, KernelKnown, DefaultsKnown,
     SubshellIsTold, TerminalKnown, IgnoresReachCommands, OutputIsNotStopped,
     CommandsCanBeStopped, PromptHears, HubLies, IgnoreLies, Interactive,
     Told, Effective, KernelOf, InteractiveDefault, BecomeCommand, Modes, Forks
<1>1. Types'
  BY <1>b, <1>c DEF SparesTheShell, JobControl
<1>2. StandsUntouched'
  BY <1>b, <1>c DEF SparesTheShell, JobControl
<1>3. KernelKnown'
  BY <1>b, <1>c DEF SparesTheShell, JobControl
<1>4. DefaultsKnown'
  BY <1>b, <1>c DEF SparesTheShell, JobControl
<1>5. SubshellIsTold'
  BY <1>b, <1>c DEF SparesTheShell, JobControl
<1>6. TerminalKnown'
  BY <1>b, <1>c DEF SparesTheShell, JobControl
<1>7. IgnoresReachCommands'
  BY <1>b, <1>c DEF SparesTheShell, JobControl
<1>8. OutputIsNotStopped'
  BY <1>b, <1>c DEF SparesTheShell, JobControl
<1>9. CommandsCanBeStopped'
  BY <1>b, <1>c DEF SparesTheShell, JobControl
<1>10. PromptHears'
  BY <1>b, <1>c DEF SparesTheShell, JobControl
<1>11. QED
  BY <1>1, <1>2, <1>3, <1>4, <1>5, <1>6, <1>7, <1>8, <1>9, <1>10

LEMMA ExecFailsKeeps == IInv /\ ExecFails => IInv'
<1> SUFFICES ASSUME IInv, ExecFails PROVE IInv'
  OBVIOUS
<1> DEFINE d == drop_interactive_defaults(proc)
<1>a. proc \in Process
  BY DEF IInv, Types
<1>b. /\ d \in Process /\ d.how = proc.how /\ d.entry = proc.entry
      /\ d.defaults = FALSE
      /\ proc.stands => d.stands /\ d.kernel = proc.kernel
      /\ ~proc.stands => ~d.stands
      /\ proc.defaults = FALSE \/ sig \notin SparesTheShell => d.kernel = proc.kernel
      /\ proc.defaults # FALSE /\ sig \in SparesTheShell /\ ~proc.stands =>
           d.kernel = Told(d)
  BY <1>a, DefaultsSet DEF drop_interactive_defaults
<1> HIDE DEF d
<1>c. /\ proc' \in Process /\ proc'.how = proc.how /\ proc'.entry = proc.entry
      /\ proc'.defaults = Interactive
      /\ proc.stands => proc'.stands /\ proc'.kernel = proc.kernel
      /\ ~proc.stands => ~proc'.stands
      /\ Interactive = FALSE \/ sig \notin SparesTheShell => proc'.kernel = d.kernel
      /\ Interactive # FALSE /\ sig \in SparesTheShell /\ ~proc.stands =>
           proc'.kernel = Told(proc')
  <2>1. proc' = set_interactive_defaults(d, Interactive)
    BY DEF ExecFails, restore_interactive_defaults, d
  <2>2. Interactive \in BOOLEAN
    BY DEF Interactive
  <2>3. QED
    BY <1>b, <2>1, <2>2, DefaultsSet
<1> USE DEF IInv, Types, StandsUntouched, KernelKnown, DefaultsKnown,
     SubshellIsTold, TerminalKnown, IgnoresReachCommands, OutputIsNotStopped,
     CommandsCanBeStopped, PromptHears, HubLies, IgnoreLies, Interactive,
     Told, Effective, KernelOf, InteractiveDefault, ExecFails, RunsCode, Modes, Forks
<1>1. Types'
  BY <1>b, <1>c DEF SparesTheShell, JobControl
<1>2. StandsUntouched'
  BY <1>b, <1>c DEF SparesTheShell, JobControl
<1>3. KernelKnown'
  BY <1>b, <1>c DEF SparesTheShell, JobControl
<1>4. DefaultsKnown'
  BY <1>b, <1>c DEF SparesTheShell, JobControl
<1>5. SubshellIsTold'
  BY <1>b, <1>c DEF SparesTheShell, JobControl
<1>6. TerminalKnown'
  BY <1>b, <1>c DEF SparesTheShell, JobControl
<1>7. IgnoresReachCommands'
  BY <1>b, <1>c DEF SparesTheShell, JobControl
<1>8. OutputIsNotStopped'
  BY <1>b, <1>c DEF SparesTheShell, JobControl
<1>9. CommandsCanBeStopped'
  BY <1>b, <1>c DEF SparesTheShell, JobControl
<1>10. PromptHears'
  BY <1>b, <1>c DEF SparesTheShell, JobControl
<1>11. QED
  BY <1>1, <1>2, <1>3, <1>4, <1>5, <1>6, <1>7, <1>8, <1>9, <1>10

LEMMA StartShellKeeps == IInv /\ StartShell => IInv'
<1> SUFFICES ASSUME IInv, StartShell PROVE IInv'
  OBVIOUS
<1> DEFINE f == Constructed(proc.kernel)
           on == (root' # "script")
<1>a. /\ f \in Process /\ f.kernel = proc.kernel /\ f.how = "default"
      /\ f.stands = (proc.kernel = "ignored") /\ f.entry = (proc.kernel = "ignored")
      /\ f.defaults = FALSE
  BY DEF IInv, Types, Constructed, Process, Hows
<1>b. proc' = set_interactive_defaults(f, on) /\ on \in BOOLEAN
  BY DEF StartShell, Started
<1> HIDE DEF f
<1>c. /\ proc' \in Process /\ proc'.how = "default" /\ proc'.entry = f.entry
      /\ proc'.defaults = on
      /\ f.stands => proc'.stands /\ proc'.kernel = f.kernel
      /\ ~f.stands => ~proc'.stands
      /\ on = FALSE \/ sig \notin SparesTheShell => proc'.kernel = f.kernel
      /\ on # FALSE /\ sig \in SparesTheShell /\ ~f.stands =>
           proc'.kernel = Told(proc')
  BY <1>a, <1>b, DefaultsSet
<1> USE DEF IInv, Types, StandsUntouched, KernelKnown, DefaultsKnown,
     SubshellIsTold, TerminalKnown, IgnoresReachCommands, OutputIsNotStopped,
     CommandsCanBeStopped, PromptHears, HubLies, IgnoreLies, Interactive,
     Told, Effective, KernelOf, InteractiveDefault, StartShell, Modes, Forks, FirstStage
<1>1. Types'
  BY <1>a, <1>c DEF SparesTheShell, JobControl
<1>2. StandsUntouched'
  BY <1>a, <1>c DEF SparesTheShell, JobControl
<1>3. KernelKnown'
  BY <1>a, <1>c DEF SparesTheShell, JobControl
<1>4. DefaultsKnown'
  BY <1>a, <1>c DEF SparesTheShell, JobControl
<1>5. SubshellIsTold'
  BY <1>a, <1>c DEF SparesTheShell, JobControl
<1>6. TerminalKnown'
  BY <1>a, <1>c DEF SparesTheShell, JobControl
<1>7. IgnoresReachCommands'
  BY <1>a, <1>c DEF SparesTheShell, JobControl
<1>8. OutputIsNotStopped'
  BY <1>a, <1>c DEF SparesTheShell, JobControl
<1>9. CommandsCanBeStopped'
  BY <1>a, <1>c DEF SparesTheShell, JobControl
<1>10. PromptHears'
  BY <1>a, <1>c DEF SparesTheShell, JobControl
<1>11. QED
  BY <1>1, <1>2, <1>3, <1>4, <1>5, <1>6, <1>7, <1>8, <1>9, <1>10

LEMMA BecomeSubshellKeeps == IInv /\ BecomeSubshell => IInv'
<1> SUFFICES ASSUME IInv, BecomeSubshell PROVE IInv'
  OBVIOUS
<1> DEFINE r == reset_for_subshell(proc)
<1>a. proc \in Process /\ (proc.stands => proc.how = "default")
  BY DEF IInv, Types, StandsUntouched
<1>b. /\ r \in Process /\ r.entry = proc.entry /\ r.defaults = FALSE
      /\ r.how = IF proc.how = "handler" THEN "default" ELSE proc.how
      /\ proc.stands => r.stands /\ r.kernel = proc.kernel
      /\ ~proc.stands => ~r.stands
      /\ sig \notin SparesTheShell /\ proc.how # "handler" => r.kernel = proc.kernel
      /\ \/ r.kernel = Told(r)
         \/ /\ r.kernel = proc.kernel /\ Told(r) = Told(proc)
            /\ proc.how # "handler"
            /\ sig \notin SparesTheShell \/ proc.defaults = FALSE
         \/ proc.stands /\ r.kernel = proc.kernel
  BY <1>a, ResetTells
<1> HIDE DEF r
<1>c. \/ proc' = r
      \/ /\ sig \in {"INT", "QUIT"} /\ proc' \in Process
         /\ proc'.entry = proc.entry /\ proc'.defaults = FALSE
         /\ proc.entry /\ ~Interactive => proc' = r
         /\ ~proc.entry \/ Interactive =>
              ~proc'.stands /\ proc'.how = "ignore" /\ proc'.kernel = Told(proc')
  BY <1>b, HowSet DEF BecomeSubshell, ignore_interrupts_for_async, r, Hows
<1> USE DEF IInv, Types, StandsUntouched, KernelKnown, DefaultsKnown,
     SubshellIsTold, TerminalKnown, IgnoresReachCommands, OutputIsNotStopped,
     CommandsCanBeStopped, PromptHears, HubLies, IgnoreLies, Interactive,
     Told, Effective, KernelOf, InteractiveDefault, BecomeSubshell, KeepsTerminal, Modes, Forks
<1>1. Types'
  BY <1>b, <1>c DEF SparesTheShell, JobControl
<1>2. StandsUntouched'
  BY <1>b, <1>c DEF SparesTheShell, JobControl
<1>3. KernelKnown'
  BY <1>b, <1>c DEF SparesTheShell, JobControl
<1>4. DefaultsKnown'
  BY <1>b, <1>c DEF SparesTheShell, JobControl
<1>5. SubshellIsTold'
  BY <1>b, <1>c DEF SparesTheShell, JobControl
<1>6. TerminalKnown'
  BY <1>b, <1>c DEF SparesTheShell, JobControl
<1>7. IgnoresReachCommands'
  BY <1>b, <1>c DEF SparesTheShell, JobControl
<1>8. OutputIsNotStopped'
  BY <1>b, <1>c DEF SparesTheShell, JobControl
<1>9. CommandsCanBeStopped'
  BY <1>b, <1>c DEF SparesTheShell, JobControl
<1>10. PromptHears'
  BY <1>b, <1>c DEF SparesTheShell, JobControl
<1>11. QED
  BY <1>1, <1>2, <1>3, <1>4, <1>5, <1>6, <1>7, <1>8, <1>9, <1>10

LEMMA InitMeets == SignalInit => IInv
<1> SUFFICES ASSUME SignalInit PROVE IInv
  OBVIOUS
<1>a. PICK kernel \in {"default", "ignored"} : proc = Started(kernel, root)
  BY DEF SignalInit
<1> DEFINE f == Constructed(kernel)
           on == (root # "script")
<1>b. /\ f \in Process /\ f.kernel = kernel /\ f.how = "default"
      /\ f.stands = (kernel = "ignored") /\ f.entry = (kernel = "ignored")
      /\ f.defaults = FALSE
  BY DEF Constructed, Process, Kernels, Hows
<1>c. proc = set_interactive_defaults(f, on) /\ on \in BOOLEAN
  BY <1>a DEF Started
<1> HIDE DEF f
<1>d. /\ proc \in Process /\ proc.how = "default" /\ proc.entry = f.entry
      /\ proc.defaults = on
      /\ f.stands => proc.stands /\ proc.kernel = f.kernel
      /\ ~f.stands => ~proc.stands
      /\ on = FALSE \/ sig \notin SparesTheShell => proc.kernel = f.kernel
      /\ on # FALSE /\ sig \in SparesTheShell /\ ~f.stands =>
           proc.kernel = Told(proc)
  BY <1>b, <1>c, DefaultsSet
<1> USE DEF IInv, Types, StandsUntouched, KernelKnown, DefaultsKnown,
     SubshellIsTold, TerminalKnown, IgnoresReachCommands, OutputIsNotStopped,
     CommandsCanBeStopped, PromptHears, HubLies, IgnoreLies, Interactive,
     Told, Effective, KernelOf, InteractiveDefault, SignalInit, Modes, Forks, FirstStage
<1>1. Types
  BY <1>b, <1>d DEF SparesTheShell, JobControl
<1>2. StandsUntouched
  BY <1>b, <1>d DEF SparesTheShell, JobControl
<1>3. KernelKnown
  BY <1>b, <1>d DEF SparesTheShell, JobControl
<1>4. DefaultsKnown
  BY <1>b, <1>d DEF SparesTheShell, JobControl
<1>5. SubshellIsTold
  BY <1>b, <1>d DEF SparesTheShell, JobControl
<1>6. TerminalKnown
  BY <1>b, <1>d DEF SparesTheShell, JobControl
<1>7. IgnoresReachCommands
  BY <1>b, <1>d DEF SparesTheShell, JobControl
<1>8. OutputIsNotStopped
  BY <1>b, <1>d DEF SparesTheShell, JobControl
<1>9. CommandsCanBeStopped
  BY <1>b, <1>d DEF SparesTheShell, JobControl
<1>10. PromptHears
  BY <1>b, <1>d DEF SparesTheShell, JobControl
<1>11. QED
  BY <1>1, <1>2, <1>3, <1>4, <1>5, <1>6, <1>7, <1>8, <1>9, <1>10

-----------------------------------------------------------------------------
(* The theorems.                                                            *)

\* In every state of every process the kernel holds what the trap table says,
\* or what the editor has laid over it, and what lies there is known.
THEOREM DispositionsInvariant == SignalSpec => []IInv
<1>1. SignalInit => IInv
  BY InitMeets
<1>2. IInv /\ [SignalNext]_signalVars => IInv'
  <2> SUFFICES ASSUME IInv, [SignalNext]_signalVars PROVE IInv'
    OBVIOUS
  <2>1. CASE InstallHub
    BY <2>1, InstallHubKeeps
  <2>2. CASE AcceptLine
    BY <2>2, AcceptLineKeeps
  <2>3. CASE LineReturns
    BY <2>3, LineReturnsKeeps
  <2>4. CASE Trap
    BY <2>4, TrapKeeps
  <2>5. CASE Fork
    BY <2>5, ForkKeeps
  <2>6. CASE BecomeSubshell
    BY <2>6, BecomeSubshellKeeps
  <2>7. CASE BecomeCommand
    BY <2>7, BecomeCommandKeeps
  <2>8. CASE ExecReplaces
    BY <2>8, ExecReplacesKeeps
  <2>9. CASE ExecFails
    BY <2>9, ExecFailsKeeps
  <2>10. CASE StartShell
    BY <2>10, StartShellKeeps
  <2>11. CASE UNCHANGED signalVars
    <3> USE <2>11 DEF signalVars, IInv, Types, StandsUntouched, KernelKnown, DefaultsKnown,
     SubshellIsTold, TerminalKnown, IgnoresReachCommands, OutputIsNotStopped,
     CommandsCanBeStopped, PromptHears, HubLies, IgnoreLies, Interactive,
          Told, Effective, KernelOf, InteractiveDefault
    <3>1. Types'
      OBVIOUS
    <3>2. StandsUntouched'
      OBVIOUS
    <3>3. KernelKnown'
      OBVIOUS
    <3>4. DefaultsKnown'
      OBVIOUS
    <3>5. SubshellIsTold'
      OBVIOUS
    <3>6. TerminalKnown'
      OBVIOUS
    <3>7. IgnoresReachCommands'
      OBVIOUS
    <3>8. OutputIsNotStopped'
      OBVIOUS
    <3>9. CommandsCanBeStopped'
      OBVIOUS
    <3>10. PromptHears'
      OBVIOUS
    <3>11. QED
      BY <3>1, <3>2, <3>3, <3>4, <3>5, <3>6, <3>7, <3>8, <3>9, <3>10
  <2>12. QED
    BY <2>1, <2>2, <2>3, <2>4, <2>5, <2>6, <2>7, <2>8, <2>9, <2>10, <2>11 DEF SignalNext
<1>3. QED
  BY <1>1, <1>2, PTL DEF SignalSpec

\* Whoever wrote last, each process has the disposition it should: a trap that
\* is listed runs, an ignore found on entry stands, the prompt hears its
\* signals, the shell survives them, its subshells do not, and every command
\* of a foreground job can be stopped (signals.cpp, signal_hub, executor.cpp).
THEOREM DispositionsAlwaysStand == SignalSpec => []DispositionsStand
<1>1. IInv => DispositionsStand
  <2> SUFFICES ASSUME IInv PROVE DispositionsStand
    OBVIOUS
  <2> USE DEF IInv, Types, StandsUntouched, KernelKnown, DefaultsKnown,
     SubshellIsTold, TerminalKnown, IgnoresReachCommands, OutputIsNotStopped,
     CommandsCanBeStopped, PromptHears, HubLies, IgnoreLies, Interactive,
       Told, Effective, KernelOf, InteractiveDefault
  <2>1. UserTrapStands
    BY DEF UserTrapStands, Heard, SparesTheShell
  <2>2. EntryIgnoreStands
    BY DEF EntryIgnoreStands
  <2>3. PromptHears
    OBVIOUS
  <2>4. ShellSurvives
    BY DEF ShellSurvives, SparesTheShell, Process, Kernels, Hows
  <2>5. SubshellTakesDefaults
    BY DEF SubshellTakesDefaults
  <2>6. JobControlReachesCommandsOnly
    BY DEF JobControlReachesCommandsOnly
  <2>7. QED
    BY <2>1, <2>2, <2>3, <2>4, <2>5, <2>6 DEF DispositionsStand
<1>2. QED
  BY <1>1, DispositionsInvariant, PTL

\* `trap '' SIG` protects the whole subtree: no step but another `trap` takes
\* the ignore away, at any depth of subshells, commands and shells started as
\* commands (signals.cpp:523-525).
THEOREM IgnoresAreInherited == SignalSpec => IgnoreIsInherited
<1> DEFINE Kept == (proc.how = "ignore" /\ sig \notin JobControl /\ ~Trap) =>
                     proc'.kernel = "ignored"
<1>1. IInv /\ [SignalNext]_signalVars => [Kept]_signalVars
  <2> SUFFICES ASSUME IInv, SignalNext, proc.how = "ignore", sig \notin JobControl, ~Trap
               PROVE  proc'.kernel = "ignored"
    OBVIOUS
  <2>1. proc.kernel = "ignored" /\ ~proc.stands
    BY DEF IInv, IgnoresReachCommands, StandsUntouched
  <2>2. proc \in Process
    BY DEF IInv, Types
  <2>3. CASE StartShell
    <3> DEFINE f == Constructed(proc.kernel)
               on == (root' # "script")
    <3>1. f \in Process /\ f.stands /\ f.kernel = "ignored"
      BY <2>1, <2>2 DEF Constructed, Process, Kernels, Hows
    <3>2. proc' = set_interactive_defaults(f, on) /\ on \in BOOLEAN
      BY <2>3 DEF StartShell, Started
    <3> HIDE DEF f
    <3>3. QED
      BY <3>1, <3>2, DefaultsSet
  <2>4. CASE InstallHub \/ LineReturns
    BY <2>1, <2>2, <2>4 DEF InstallHub, LineReturns, TakeForTheRead, Taken,
       HubTakes, HubIgnores, ignore_background_write_signals, Process
  <2>5. CASE AcceptLine \/ Fork
    BY <2>1, <2>5 DEF AcceptLine, Fork
  <2>6. CASE BecomeSubshell \/ BecomeCommand \/ ExecReplaces \/ ExecFails
    <3>1. IInv'
      BY <2>6, BecomeSubshellKeeps, BecomeCommandKeeps, ExecReplacesKeeps, ExecFailsKeeps
    <3> DEFINE d == drop_interactive_defaults(proc)
               r == reset_for_subshell(proc)
    <3>2. d \in Process /\ d.how = "ignore"
      BY <2>2, DefaultsSet DEF drop_interactive_defaults
    <3>3. r \in Process /\ r.how = "ignore"
      BY <2>1, <2>2, ResetTells
    <3> HIDE DEF d, r
    <3>4. CASE BecomeSubshell
      <4>1. proc' = r \/ proc' = SetHow(r, "ignore")
        BY <3>4 DEF BecomeSubshell, ignore_interrupts_for_async, r
      <4>2. SetHow(r, "ignore").how = "ignore"
        BY <3>3, HowSet DEF Hows
      <4>3. proc'.how = "ignore"
        BY <3>3, <4>1, <4>2
      <4>4. QED
        BY <2>1, <3>1, <3>4, <4>3 DEF BecomeSubshell, IInv, IgnoresReachCommands
    <3>5. CASE BecomeCommand \/ ExecReplaces
      <4>1. proc'.how = "ignore"
        BY <3>2, <3>5 DEF BecomeCommand, ExecReplaces, Execed,
           reset_job_control_signals, d, Process
      <4>2. QED
        BY <3>1, <3>5, <4>1 DEF BecomeCommand, ExecReplaces, IInv, IgnoresReachCommands
    <3>6. CASE ExecFails
      <4>1. proc' = set_interactive_defaults(d, Interactive)
        BY <3>6 DEF ExecFails, restore_interactive_defaults, d
      <4>2. proc'.how = "ignore"
        BY <3>2, <4>1, DefaultsSet DEF Interactive
      <4>3. QED
        BY <3>1, <3>6, <4>2 DEF ExecFails, IInv, IgnoresReachCommands
    <3>7. QED
      BY <2>6, <3>4, <3>5, <3>6
  <2>7. QED
    BY <2>3, <2>4, <2>5, <2>6 DEF SignalNext
<1>2. QED
  BY <1>1, DispositionsInvariant, PTL DEF SignalSpec, IgnoreIsInherited
=============================================================================
