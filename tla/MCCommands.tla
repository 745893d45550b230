------------------------------ MODULE MCCommands ------------------------------
(* Small worlds of commands: an execution is of SimpleCommand, one command at   *)
(* a time in one process, or of Pipelines, many processes in a job.             *)
EXTENDS SimpleCommand

MCNames == {"OPTIND", "OPTARG", "PWD", "OLDPWD", "HOME", "IFS", "x", "y"}
MCDirs == {<<>>, <<"d">>, <<"d", "e">>}
MCLinks == [l \in {<<"l">>} |-> <<"d", "e">>]
MCFiles == [f \in {"a", "b", "null", "secret"} |->
              CASE f = "a" -> "missing" [] f = "b" -> "regular" [] f = "null" -> "device" [] OTHER -> "denied"]
A == <<"a">>
Char(c, escaped) == [char |-> c, escaped |-> escaped]
MCLines == {<<Char("p", FALSE), Char("-", FALSE), Char("q", FALSE)>>}

(* Redirections and assignments. *)
R(op, fd, name) == [op |-> op, fd |-> fd, name |-> name, from |-> 99, fails |-> FALSE, sub |-> NoSub]
Dup(op, fd, from) == [R(op, fd, "") EXCEPT !.from = from]
Shut(fd) == R(">&", fd, "-")
Unexpanded(r) == [r EXCEPT !.fails = TRUE]
V(name, value) == [name |-> name, value |-> value, fails |-> FALSE, sub |-> NoSub]
Sub(e, status) == [e EXCEPT !.sub = status]

(* Commands. *)
C(name) == [name |-> name, args |-> <<>>, assigns |-> <<>>, redirs |-> <<>>, body |-> <<>>, fails |-> FALSE, sub |-> NoSub,
            demoted |-> FALSE, options |-> <<>>, replaces |-> FALSE, n |-> 0, physical |-> FALSE]
With(c, args) == [c EXCEPT !.args = args]
Pre(c, assigns) == [c EXCEPT !.assigns = assigns]
To(c, redirs) == [c EXCEPT !.redirs = redirs]
Demoted(c) == [c EXCEPT !.demoted = TRUE]
Group(body, redirs) == [C("{") EXCEPT !.body = body, !.redirs = redirs]
Eval(body) == [C("eval") EXCEPT !.body = body]
Set(option, on) == [C("set") EXCEPT !.options = <<[name |-> option, on |-> on]>>]
Def(f) == With(C("define"), <<f>>)
Operand(name, value) == [name |-> name, assigns |-> TRUE, value |-> value]
Bare(name) == [name |-> name, assigns |-> FALSE, value |-> <<>>]
Shift(n) == [C("shift") EXCEPT !.n = n]

MCBody == [f \in {"f", "g", "wait"} |->
             CASE f = "f" -> <<Pre(C(""), <<V("x", <<"7">>)>>), To(C("exec"), <<R(">", 2, "b")>>), C("return"), C("echo")>>
               [] f = "g" -> <<Pre(C("g"), <<V("x", A)>>)>>
               [] OTHER -> <<With(C("readonly"), <<Bare("x")>>)>>]

(* Redirections in nested constructs: order, failure half way, exec inside,    *)
(* an unwinding exit, a table too small for all the copies.                    *)
Redirecting ==
    {Group(<<Group(<<To(C("exec"), <<R(">", 1, "b")>>), C("cat")>>, <<R(">", 2, "a"), Dup(">&", 1, 2)>>), C("echo")>>,
           <<R(">", 1, "a"), R(">>", 1, "b")>>),
     Group(<<C("cat"), C("exit")>>, <<Shut(1), R("<", 0, "b"), Dup("<&", 2, 0)>>),
     Group(<<To(With(C("exec"), <<<<"found">>>>), <<Dup("<&", 2, 0)>>)>>, <<R(">", 1, "a")>>),
     Group(<<To(C("echo"), <<Shut(1)>>)>>, <<R("<<", 2, "doc"), Dup(">&", 0, 1)>>),
     To(C("true"), <<R(">", 2, "a"), R("<", 1, "secret")>>),
     To(C("cat"), <<R(">", 2, "b"), Unexpanded(R(">", 1, "b"))>>),
     Set("noclobber", TRUE)}
(* Which failure ends the shell. *)
Failing ==
    {To(Demoted(C(":")), <<R("<", 0, "a")>>), To(C(":"), <<R("<", 0, "a")>>), To(Eval(<<>>), <<Dup(">&", 1, 99)>>),
     To(C("exec"), <<R("<", 0, "a")>>), To(Demoted(C("exec")), <<R("<", 0, "a")>>), With(Demoted(C("exec")), <<<<"lost">>>>),
     With(C("readonly"), <<Operand("y", A)>>), Pre(C("cat"), <<V("y", A)>>), Demoted([Shift(3) EXCEPT !.assigns = <<V("x", A)>>]),
     Shift(3), With(Demoted(C("unset")), <<"y", "x">>), With(C("export"), <<Operand("x", A), Operand("y", A)>>),
     [C("cat") EXCEPT !.fails = TRUE], To(C(""), <<Sub(R("<<", 0, "doc"), 3)>>), Pre(C(""), <<V("x", A), V("y", A)>>),
     Demoted(C("command")), Set("bogus", TRUE)}
(* Prefixes over functions, eval and builtins. *)
Prefixed ==
    {Def("f"), Def("g"), Def("wait"),
     Pre(With(C("f"), <<A>>), <<V("x", A)>>), Pre(C("g"), <<V("x", A), V("y", A)>>), Pre(C("wait"), <<V("x", A)>>),
     Pre(Demoted(Eval(<<With(C("unset"), <<"x">>)>>)), <<V("x", A)>>), Pre(Eval(<<C("f")>>), <<V("x", A)>>),
     [With(C("read"), <<"x", "y">>) EXCEPT !.assigns = <<V("IFS", <<"-">>)>>], With(C("set"), <<>>)}
(* Moving about. *)
Moving ==
    {With(C("cd"), <<"l">>), With(C("cd"), <<"..">>), With(C("cd"), <<"-">>), C("cd"), With(C("cd"), <<"d", "..", "d", "e">>),
     [With(C("cd"), <<"l", "..">>) EXCEPT !.physical = TRUE], With(C("cd"), <<"gone", "..">>), C("pwd"),
     With(C("readonly"), <<Bare("PWD")>>)}
(* What programs inherit, and getopts beside shift and unset. *)
Options ==
    {[C("set") EXCEPT !.args = <<<<"-", "a", "b">>, A>>, !.replaces = TRUE], With(C("getopts"), <<<<"a", "b", ":">>>>),
     Shift(1), With(C("unset"), <<"OPTIND">>), With(C("export"), <<Bare("OPTIND")>>), Set("allexport", TRUE), With(C("exec"), <<<<"found">>>>),
     Pre(C("cat"), <<V("x", A)>>), With(C("alias"), <<"k">>), With(C("unalias"), <<"k">>)}
MCWorlds == {Redirecting, Failing, Prefixed, Moving, Options}
Within(commands) == commands \union UNION {ToSet(cmd.body) : cmd \in commands}
MCCommandSet == Within(Within(UNION (MCWorlds \union {ToSet(MCBody[f]) : f \in DOMAIN MCBody})))
ASSUME MCStaysBelow == StaysBelow   \* the theorems' hypothesis, which these scripts meet

-------------------------------------------------------------------------------
(* Jobs. *)
CONSTANTS Parts, Sessions, MaxKeys, MaxFailures
VARIABLES part, proc, chan, fg, typed, said, session
jobs == <<proc, chan, fg, typed, said, session>>
all == <<part, vars, jobs>>
Job == INSTANCE Pipelines
         WITH Worlds <- Sessions, MaxProcs <- 6, MaxPipes <- 2, Capacity <- 1, MaxLines <- 2,
              Keys <- {"INTR", "SUSP"}, world <- session
ASSUME MCHasRoom == Job!HasRoom   \* the theorems' hypothesis, which these jobs meet

Program(name) == [name |-> name, body |-> <<>>]
Parens(body) == [name |-> "(", body |-> body]
Line(kind, stages) == [kind |-> kind, stages |-> stages, pipefail |-> FALSE]
Pipe(stages) == Line("pipeline", stages)
Simple(name) == Line("simple", <<Program(name)>>)
Subshell(body) == Line("subshell", <<Parens(body)>>)
Behind(body) == Line("async", <<Parens(body)>>)
Capturing(body) == Line("capture", <<Parens(body)>>)
Waiting == Line("wait", <<>>)

MCSessions ==
    {{<<Pipe(<<Program("put"), Program("cat"), Program("head")>>), Simple("fail")>>},
     {<<[Pipe(<<Program("fail"), Program("polite"), Program("true")>>) EXCEPT !.pipefail = TRUE], Simple("true")>>},
     {<<Subshell(<<Pipe(<<Program("put"), Program("cat")>>)>>), Simple("polite")>>,
      <<Pipe(<<Parens(<<Simple("sleep")>>), Program("less")>>)>>},
     {<<Behind(<<Simple("sleep")>>), Subshell(<<Waiting>>), Waiting, Simple("true")>>},
     {<<Capturing(<<Pipe(<<Program("put"), Program("cat")>>), Behind(<<Simple("put")>>)>>), Simple("less")>>},
     {<<Subshell(<<Subshell(<<Subshell(<<Simple("sleep")>>)>>), Simple("true")>>)>>}}
(* A program that writes for ever into one that reads once. *)
Endless == {{<<Pipe(<<Program("yes"), Program("head")>>)>>}}

-------------------------------------------------------------------------------
Together ==
    /\ Init /\ Job!Init /\ part \in Parts
    /\ part = "command" => session = CHOOSE w \in Sessions : TRUE
    /\ part = "jobs" => world = (CHOOSE w \in Worlds : TRUE) /\ ~interactive
Commands == part = "command" /\ Next /\ UNCHANGED <<part, jobs>>
Jobs == part = "jobs" /\ Job!Next /\ UNCHANGED <<part, vars>>

\* No process has a step to make before a line is typed, so nothing is due of
\* the jobs while commands are run one at a time.
Both ==
    /\ Together /\ [][Commands \/ Jobs]_all
    /\ \A p \in Job!Procs : WF_jobs(Job!Step(p))

\* Descriptors: each copy has its owner and no program is given one (save_fd,
\* restore_fds).  Jobs: at the prompt no child is unreaped and no end of a pipe
\* open, and a line was abandoned exactly if ^C killed what decided it
\* (run_pipeline, note_interrupt_after_handoff).
NothingIsLeftBehind == CopiesAreExact /\ Job!JobsAreTidy

\* A foreground job gives the terminal back (reclaim_terminal), and only a
\* stopped process keeps a command from ending (run_pipeline).
JobsComeBack == Job!TerminalComesBack /\ Job!CommandsEnd

\* "the classic pipeline hang": with nobody left to read, the writer ends.
PipelineEnds == Job!PipelineEnds
===============================================================================
