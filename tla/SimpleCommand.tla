----------------------------- MODULE SimpleCommand -----------------------------
(* A simple command in the shell's own process (runtime/executor.cpp): its      *)
(* words, its redirections saved and put back, its assignment prefix applied    *)
(* and undone, the order of the command search, and what an error does to the   *)
(* shell.  Functions, eval and brace groups run other commands between the two  *)
(* halves; frames holds the halves that are still owed.                         *)
EXTENDS ShellBuiltins, FiniteSets

CONSTANTS
    AllCommands,        \* the commands there are
    Worlds,             \* each the commands a script may consist of
    Body,               \* the commands of each function, by name
    Files,              \* a function from the file names there are to what each is
    Top, SaveFrom,      \* the descriptor table is 0..Top; copies go to SaveFrom and up
    MaxFunctionDepth,   \* kMaxFunctionDepth
    MaxCommands,        \* bound: commands read at the top level
    Lines               \* what a read may find on its descriptor

ASSUME SimpleCommandDescriptors == Top \in Nat /\ SaveFrom \in 3..Top

(* What the parser builds: a list is a sequence, a body is made of commands, a   *)
(* brace group has no prefix, and a redirection names a descriptor.             *)
IsList(s) == s \in Seq({s[i] : i \in DOMAIN s})
ASSUME SimpleCommandShapes ==
    /\ \A world \in Worlds : world \subseteq AllCommands
    /\ \A f \in DOMAIN Body : Body[f] \in Seq(AllCommands)
    /\ \A cmd \in AllCommands :
          /\ cmd.body \in Seq(AllCommands) /\ IsList(cmd.args) /\ IsList(cmd.options)
          /\ IsList(cmd.redirs) /\ \A i \in DOMAIN cmd.redirs : cmd.redirs[i].fd \in 0..Top
          /\ IsList(cmd.assigns) /\ \A i \in DOMAIN cmd.assigns : cmd.assigns[i].name \in Names
          /\ cmd.name = "{" => cmd.assigns = <<>>
          /\ cmd.name = "define" => cmd.args[1] \in DOMAIN Body

NoCommand == [name |-> "none"]
NoSub == 99             \* no command substitution was performed

VARIABLES
    sh,             \* the shell's tables
    fds,            \* its descriptors
    files,          \* what each file is: missing, regular, device or denied
    frames,         \* what is owed, innermost last
    exiting,        \* _exit_requested
    returning,      \* _flow is return_from
    interactive,
    replaced,       \* exec succeeded: this process is another program now
    world,
    current,        \* the command about to be run
    count,          \* commands read at the top level
    child,          \* history: what the last external command was given
    ran             \* history: what became of the command run last
vars == <<sh, fds, files, frames, exiting, returning, interactive, replaced, world, current, count, child, ran>>

-------------------------------------------------------------------------------
(* Descriptors. *)

Closed == [file |-> "none", mode |-> "none", cloexec |-> FALSE]
Open(file, mode) == [file |-> file, mode |-> mode, cloexec |-> FALSE]
Free(table, from) == {f \in from..Top : table[f] = Closed}
Lowest(S) == CHOOSE f \in S : \A g \in S : f <= g
dup2(table, from, to) ==
    IF from = to THEN table ELSE [table EXCEPT ![to] = [table[from] EXCEPT !.cloexec = FALSE]]
close(table, fd) == [table EXCEPT ![fd] = Closed]
(* What a program is given of a table. *)
Inherited(table) == [f \in 0..Top |-> IF table[f].cloexec THEN Closed ELSE table[f]]
Readable(d) == d.mode \in {"r", "rw"}
Writable(d) == d.mode \in {"w", "rw"}

(* What applying redirections has come to: c.keep says whether the previous    *)
(* descriptors are saved, c.sub is the status of the last substitution.        *)
Applying(keep, table, f, subbed) ==
    [fds |-> table, files |-> f, saved |-> <<>>, keep |-> keep, ok |-> TRUE, fatal |-> FALSE, sub |-> subbed]
Failed(c) == [c EXCEPT !.ok = FALSE]

(* The copy goes to SaveFrom or above and does not survive an exec; a closed
   descriptor is remembered as closed (-1). *)
save_fd(c, fd) ==
    IF ~c.keep THEN c
    ELSE IF c.fds[fd] = Closed THEN [c EXCEPT !.saved = Append(@, [original |-> fd, copy |-> -1])]
    ELSE IF Free(c.fds, SaveFrom) = {} THEN Failed(c)
    ELSE LET copy == Lowest(Free(c.fds, SaveFrom))
         IN [c EXCEPT !.saved = Append(@, [original |-> fd, copy |-> copy]),
                      !.fds[copy] = [c.fds[fd] EXCEPT !.cloexec = TRUE]]

(* open(2) refuses a full table before it looks at the path; > will not touch a
   regular file under noclobber, and everything but < creates. *)
Opens(c, op, name) ==
    /\ Free(c.fds, 0) # {}
    /\ c.files[name] # "denied"
    /\ op = "<" => c.files[name] # "missing"
    /\ op = ">" /\ "noclobber" \in sh.options => c.files[name] # "regular"
ModeOf(op) == CASE op = "<" -> "r" [] op = "<>" -> "rw" [] OTHER -> "w"

(* The open descriptor lands on the lowest free one and is moved from there. *)
Landed(c, table, at, fd) == [c EXCEPT !.fds = IF at = fd THEN table ELSE close(dup2(table, at, fd), at)]
Opened(c, r) ==
    LET at == Lowest(Free(c.fds, 0))
        table == [c.fds EXCEPT ![at] = Open(r.name, ModeOf(r.op))]
    IN Landed([c EXCEPT !.files[r.name] = IF @ = "missing" THEN "regular" ELSE @], table, at, r.fd)

(* <& and >&: "-" closes, a number is checked for being open the right way.   *)
Duplicated(c, r) ==
    IF r.name = "-" THEN [c EXCEPT !.fds = close(@, r.fd)]
    ELSE IF r.from \notin 0..Top THEN Failed(c)
    ELSE IF (r.op = ">&" /\ ~Writable(c.fds[r.from])) \/ (r.op = "<&" /\ ~Readable(c.fds[r.from])) THEN Failed(c)
    ELSE [c EXCEPT !.fds = dup2(@, r.from, r.fd)]

(* The operand is expanded first, and failing there is an expansion error. *)
apply_redirection(c, r) ==
    IF r.fails THEN [Failed(c) EXCEPT !.fatal = TRUE]
    ELSE LET expanded == [c EXCEPT !.sub = IF r.sub = NoSub THEN @ ELSE r.sub]
             saved == save_fd(expanded, r.fd)
         IN IF ~saved.ok THEN saved
            ELSE IF r.op \in {"<&", ">&"} THEN Duplicated(saved, r)
            ELSE IF Opens(saved, r.op, r.name) THEN Opened(saved, r)
            ELSE Failed(saved)

(* A here-document is a pipe already holding its body, or one a forked writer
   fills; the two ends take the two lowest free descriptors.  A body that fails
   to expand fails the redirection and not the shell. *)
apply_here_doc(c, r) ==
    IF r.fails THEN Failed(c)
    ELSE LET expanded == [c EXCEPT !.sub = IF r.sub = NoSub THEN @ ELSE r.sub]
             saved == save_fd(expanded, r.fd)
             free == Free(saved.fds, 0)
         IN IF ~saved.ok \/ Cardinality(free) < 2 THEN Failed(saved)
            ELSE Landed(saved, [saved.fds EXCEPT ![Lowest(free)] = Open("pipe", "r")], Lowest(free), r.fd)

RedirectedNext(c, r) ==
    IF ~c.ok THEN c ELSE IF r.op = "<<" THEN apply_here_doc(c, r) ELSE apply_redirection(c, r)
apply_redirections(keep, table, f, redirs, subbed) ==
    LET after[i \in 0..Len(redirs)] ==
            IF i = 0 THEN Applying(keep, table, f, subbed) ELSE RedirectedNext(after[i - 1], redirs[i])
    IN after[Len(redirs)]

(* One descriptor is put back, and its copy closed. *)
PutBack(table, s) ==
    IF s.copy = -1 THEN close(table, s.original) ELSE close(dup2(table, s.copy, s.original), s.copy)

(* mutant: the copies are not closed *)
RestoreKeepsCopies(table, saved) ==
    LET from[i \in 1..(Len(saved) + 1)] ==
            IF i > Len(saved) THEN table
            ELSE IF saved[i].copy = -1 THEN close(from[i + 1], saved[i].original)
            ELSE dup2(from[i + 1], saved[i].copy, saved[i].original)
    IN from[1]

(* mutant: put back in the order they were saved in *)
RestoreForward(table, saved) ==
    LET after[i \in 0..Len(saved)] == IF i = 0 THEN table ELSE PutBack(after[i - 1], saved[i])
    IN after[Len(saved)]

(* In reverse: what was saved first is put back last. *)
restore_fds(table, saved) ==
    LET from[i \in 1..(Len(saved) + 1)] == IF i > Len(saved) THEN table ELSE PutBack(from[i + 1], saved[i])
    IN from[1]

-------------------------------------------------------------------------------
(* The assignment prefix.  An assignment is [name, value, fails, sub].          *)

(* One at a time and in order; the previous value is read before each lands,   *)
(* and an expansion that fails is noted but what it left is assigned.          *)
Overlaid(p, a, persist) ==
    IF p.refused THEN p
    ELSE [sh |-> set(p.sh, a.name, a.value),
          restore |-> IF persist THEN <<>>
                      ELSE Append(p.restore, [name |-> a.name, was_set |-> is_set(p.sh, a.name),
                                              value |-> lookup(p.sh, a.name)]),
          refused |-> is_readonly(p.sh, a.name),
          fatal |-> p.fatal \/ a.fails,
          sub |-> IF a.sub = NoSub THEN p.sub ELSE a.sub]
apply_prefix(shell, assigns, persist) ==
    LET after[i \in 0..Len(assigns)] ==
            IF i = 0 THEN [sh |-> shell, restore |-> <<>>, refused |-> FALSE, fatal |-> FALSE, sub |-> NoSub]
            ELSE Overlaid(after[i - 1], assigns[i], persist)
    IN after[Len(assigns)]

(* Put back in the order they were applied in. *)
Uncovered(shell, v) == IF v.was_set THEN set(shell, v.name, v.value) ELSE unset(shell, v.name)
restore_prefix(shell, restore) ==
    LET after[i \in 0..Len(restore)] == IF i = 0 THEN shell ELSE Uncovered(after[i - 1], restore[i])
    IN after[Len(restore)]

(* Exported outright, for the program that is to come. *)
Environment(shell, assigns) ==
    LET after[i \in 0..Len(assigns)] ==
            IF i = 0 THEN shell ELSE set_exported(after[i - 1], assigns[i].name, assigns[i].value)
    IN after[Len(assigns)]

-------------------------------------------------------------------------------
(* How a command ends: the status, and whether the shell is to exit.           *)

IsSpecial(cmd) == cmd.name \in Special /\ ~cmd.demoted
IsBuiltin(cmd) == cmd.name \in Special \union Regular
IsFunction(cmd) == ~cmd.demoted /\ cmd.name \notin Special /\ cmd.name \in sh.functions
Fatal == ~interactive
LastSub(a, b) == IF b = NoSub THEN a ELSE b

(* What went wrong with the command, for the table of POSIX 2.8.1. *)
Went(cmd, error, executed) == [command |-> cmd, error |-> error, executed |-> executed]

Settled(cmd, status, error, executed) ==
    /\ sh' = [sh EXCEPT !.status = status]
    /\ ran' = Went(cmd, error, executed)

(* The word list failed to expand: nothing is run. *)
WordsFail(cmd) ==
    /\ cmd.fails
    /\ exiting' = (exiting \/ Fatal)
    /\ Settled(cmd, 2, "expansion", FALSE)
    /\ UNCHANGED <<fds, frames, files, child, replaced, returning>>

(* No command name.  The redirections are done by a forked child, of which only
   the files it made and the substitution it performed come back. *)
run_redirections_only(cmd) == apply_redirections(FALSE, fds, files, cmd.redirs, NoSub)
AssignedNext(p, a) ==
    CASE p.error # "none" -> p
      [] p.error = "none" /\ a.fails -> [p EXCEPT !.error = "expansion"]
      [] p.error = "none" /\ ~a.fails /\ is_readonly(p.sh, a.name) -> [p EXCEPT !.error = "assignment"]
      [] OTHER -> [p EXCEPT !.sh = set(p.sh, a.name, a.value), !.sub = LastSub(@, a.sub)]
Assignments(cmd) ==
    LET after[i \in 0..Len(cmd.assigns)] ==
            IF i = 0 THEN [sh |-> sh, error |-> "none", sub |-> NoSub] ELSE AssignedNext(after[i - 1], cmd.assigns[i])
    IN after[Len(cmd.assigns)]

(* The child needs two descriptors for its answer, and it may not be forked. *)
NoName(cmd, forks) ==
    LET helper == run_redirections_only(cmd)
        made == cmd.redirs = <<>> \/ (forks /\ Cardinality(Free(fds, 0)) >= 2)
        all == Assignments(cmd)
        sub == LastSub(LastSub(cmd.sub, helper.sub), all.sub)
    IN /\ cmd.name = "" /\ ~cmd.fails
       /\ files' = IF made THEN helper.files ELSE files
       /\ IF ~made \/ ~helper.ok
          THEN Settled(cmd, 2, "child", FALSE) /\ UNCHANGED exiting
          ELSE /\ exiting' = (exiting \/ (all.error # "none" /\ Fatal))
               /\ sh' = [all.sh EXCEPT !.status = IF all.error # "none" THEN 2 ELSE IF sub = NoSub THEN 0 ELSE sub]
               /\ ran' = Went(cmd, all.error, FALSE)
       /\ UNCHANGED <<fds, frames, child, replaced, returning>>

(* A readonly name in the prefix is refused before anything is dispatched; the
   redirections are done for the message and put back. *)
RefusedPrefix(cmd) ==
    /\ cmd.name # "" /\ ~cmd.fails
    /\ \E i \in DOMAIN cmd.assigns : is_readonly(sh, cmd.assigns[i].name)
    /\ LET c == apply_redirections(TRUE, fds, files, cmd.redirs, NoSub)
       IN /\ fds' = restore_fds(c.fds, c.saved)
          /\ files' = c.files
    /\ exiting' = (exiting \/ Fatal)
    /\ Settled(cmd, 2, "assignment", FALSE)
    /\ UNCHANGED <<frames, child, replaced, returning>>

Dispatched(cmd) ==
    /\ cmd.name \notin {"", "{"} /\ ~cmd.fails
    /\ ~\E i \in DOMAIN cmd.assigns : is_readonly(sh, cmd.assigns[i].name)

(* `command` with nothing after it. *)
Nothing(cmd) ==
    /\ Dispatched(cmd) /\ cmd.name = "command"
    /\ Settled(cmd, 0, "none", FALSE)
    /\ UNCHANGED <<fds, files, frames, exiting, child, replaced, returning>>

-------------------------------------------------------------------------------
(* Frames: function calls, eval and brace groups.                              *)

Frame(cmd, kind, c, p, positional) ==
    [kind |-> kind, todo |-> IF kind = "function" THEN Body[cmd.name] ELSE cmd.body,
     saved |-> c.saved, restore |-> p.restore, positional |-> positional,
     command |-> cmd, before |-> [fds |-> fds, vars |-> sh.vars], execed |-> {}, fresh |-> TRUE]
NoPrefix == [restore |-> <<>>]
Depth == Cardinality({i \in DOMAIN frames : frames[i].kind = "function"})

(* The redirections, then the prefix, then the body with its own positional
   parameters; nothing runs when either fails, and both are undone. *)
EnterFunction(cmd) ==
    LET c == apply_redirections(TRUE, fds, files, cmd.redirs, NoSub)
        p == apply_prefix(sh, cmd.assigns, FALSE)
        deep == Depth >= MaxFunctionDepth
        fatal == c.fatal \/ (c.ok /\ p.fatal)
    IN /\ Dispatched(cmd) /\ IsFunction(cmd)
       /\ files' = c.files
       /\ exiting' = (exiting \/ (fatal /\ Fatal))
       /\ IF c.ok /\ ~deep
          THEN /\ frames' = Append(frames, Frame(cmd, "function", c, p, sh.positional))
               /\ sh' = set_positional(p.sh, cmd.args)
               /\ fds' = c.fds
               /\ ran' = Went(cmd, IF p.fatal THEN "prefix" ELSE "none", TRUE)
          ELSE /\ fds' = restore_fds(c.fds, c.saved)
               /\ sh' = [(IF c.ok THEN restore_prefix(p.sh, p.restore) ELSE sh) EXCEPT !.status = IF c.ok THEN 1 ELSE 2]
               /\ ran' = Went(cmd, IF c.ok THEN IF p.fatal THEN "prefix" ELSE "depth" ELSE IF c.fatal THEN "expansion" ELSE "redirection", FALSE)
               /\ UNCHANGED frames
       /\ UNCHANGED <<child, replaced, returning>>

(* eval is special: its prefix persists unless `command` demoted it. *)
EnterEval(cmd) ==
    LET c == apply_redirections(TRUE, fds, files, cmd.redirs, NoSub)
        p == apply_prefix(sh, cmd.assigns, ~cmd.demoted)
        fatal == c.fatal \/ (c.ok /\ p.fatal) \/ (~c.ok /\ ~cmd.demoted)
    IN /\ Dispatched(cmd) /\ cmd.name = "eval"
       /\ files' = c.files
       /\ exiting' = (exiting \/ (fatal /\ Fatal))
       /\ IF c.ok
          THEN /\ frames' = Append(frames, Frame(cmd, "eval", c, p, sh.positional))
               /\ sh' = p.sh
               /\ fds' = c.fds
               /\ ran' = Went(cmd, IF p.fatal THEN "prefix" ELSE "none", TRUE)
          ELSE /\ fds' = restore_fds(c.fds, c.saved)
               /\ Settled(cmd, 2, IF c.fatal THEN "expansion" ELSE "redirection", FALSE)
               /\ UNCHANGED frames
       /\ UNCHANGED <<child, replaced, returning>>

(* A brace group has redirections and no prefix, and never ends the shell. *)
EnterGroup(cmd) ==
    LET c == apply_redirections(TRUE, fds, files, cmd.redirs, NoSub)
    IN /\ cmd.name = "{"
       /\ files' = c.files
       /\ exiting' = (exiting \/ (c.fatal /\ Fatal))
       /\ IF c.ok
          THEN /\ frames' = Append(frames, Frame(cmd, "group", c, NoPrefix, sh.positional))
               /\ fds' = c.fds
               /\ ran' = Went(cmd, "none", TRUE)
               /\ UNCHANGED sh
          ELSE /\ fds' = restore_fds(c.fds, c.saved)
               /\ Settled(cmd, 2, IF c.fatal THEN "expansion" ELSE "redirection", FALSE)
               /\ UNCHANGED frames
       /\ UNCHANGED <<child, replaced, returning>>

(* The body has come to its end, or is being unwound; what stops a list is
   looked at after a command and not before the first. *)
Leave ==
    LET f == Last(frames)
        putback == restore_prefix(IF f.kind = "function" THEN set_positional(sh, f.positional) ELSE sh, f.restore)
    IN /\ frames # <<>> /\ ~replaced /\ current = NoCommand
       /\ f.todo = <<>> \/ (~f.fresh /\ (exiting \/ returning))
       /\ sh' = putback
       /\ fds' = restore_fds(fds, f.saved)
       /\ frames' = Front(frames)
       /\ returning' = (returning /\ f.kind # "function")
       /\ ran' = Went(f.command, "left", TRUE)
       /\ UNCHANGED <<files, exiting, interactive, replaced, world, current, count, child>>

-------------------------------------------------------------------------------
(* exec: nothing is saved, so what was done stays done.                         *)
Execed(table) == [i \in DOMAIN frames |-> [frames[i] EXCEPT !.execed = @ \union {f \in 0..Top : table[f] # fds[f]}]]
Exec(cmd) ==
    LET c == apply_redirections(FALSE, fds, files, cmd.redirs, NoSub)
        p == apply_prefix(sh, cmd.assigns, ~cmd.demoted)
        leaves == ~cmd.demoted /\ Fatal
    IN /\ Dispatched(cmd) /\ cmd.name = "exec"
       /\ fds' = c.fds
       /\ files' = c.files
       /\ frames' = Execed(c.fds)
       /\ CASE ~c.ok ->
                 /\ exiting' = (exiting \/ leaves \/ (c.fatal /\ Fatal))
                 /\ Settled(cmd, 2, IF c.fatal THEN "expansion" ELSE "redirection", FALSE)
                 /\ UNCHANGED <<child, replaced>>
            [] c.ok /\ cmd.args = <<>> ->
                 /\ exiting' = (exiting \/ (p.fatal /\ Fatal))
                 /\ sh' = [restore_prefix(p.sh, p.restore) EXCEPT !.status = 0]
                 /\ ran' = Went(cmd, IF p.fatal THEN "prefix" ELSE "none", TRUE)
                 /\ UNCHANGED <<child, replaced>>
            [] c.ok /\ cmd.args = <<<<"found">>>> ->
                 /\ sh' = Environment(sh, cmd.assigns)
                 /\ child' = [fds |-> Inherited(c.fds), env |-> environment_block(Environment(sh, cmd.assigns))]
                 /\ replaced' = TRUE
                 /\ ran' = Went(cmd, "none", TRUE)
                 /\ UNCHANGED exiting
            [] OTHER ->
                 /\ sh' = [Environment(sh, cmd.assigns) EXCEPT !.status = 127]
                 /\ exiting' = (exiting \/ leaves)
                 /\ ran' = Went(cmd, "usage", TRUE)
                 /\ UNCHANGED <<child, replaced>>
       /\ UNCHANGED returning

(* What each builtin does to the shell. *)
Called(shell, cmd, line, at_eof) ==
    CASE cmd.name = "export" -> run_declaration(shell, cmd.args, FALSE)
      [] cmd.name = "readonly" -> run_declaration(shell, cmd.args, TRUE)
      [] cmd.name = "unset" -> unset_names(shell, cmd.args)
      [] cmd.name = "set" -> set_options(shell, cmd.options, cmd.args, cmd.replaces)
      [] cmd.name = "shift" -> shift_by(shell, cmd.n)
      [] cmd.name = "unalias" -> unalias_one(shell, cmd.args[1])
      [] cmd.name = "alias" -> Done(set_alias(shell, cmd.args[1]), 0)
      [] cmd.name = "cd" -> builtin_cd(shell, cmd.args, cmd.physical)
      [] cmd.name = "pwd" -> builtin_pwd(shell, cmd.physical)
      [] cmd.name = "read" -> builtin_read(shell, cmd.args, line, at_eof)
      [] cmd.name = "getopts" -> builtin_getopts(shell, cmd.args[1], "x", <<>>)
      [] OTHER -> Done(shell, 0)

(* A builtin that writes to a closed descriptor 1 has failed, with status 1. *)
Unwritten(cmd, table) == cmd.name = "echo" /\ ~Writable(table[1])

(* mutant: a special builtin's failure is fatal although `command` demoted it *)
BuiltinNeverDemoted(cmd, line, at_eof) ==
    LET c == apply_redirections(TRUE, fds, files, cmd.redirs, NoSub)
        p == apply_prefix(sh, cmd.assigns, IsSpecial(cmd))
        r == Called(p.sh, cmd, line, at_eof)
    IN /\ Dispatched(cmd) /\ ~IsFunction(cmd) /\ IsBuiltin(cmd) /\ cmd.name \notin {"exec", "eval"}
       /\ files' = c.files
       /\ fds' = restore_fds(c.fds, c.saved)
       /\ IF c.ok THEN /\ sh' = [restore_prefix(r.sh, p.restore) EXCEPT !.status = r.status]
                       /\ ran' = Went(cmd, IF r.status # 0 THEN "usage" ELSE "none", TRUE)
          ELSE Settled(cmd, 2, "redirection", FALSE)
       /\ exiting' = (exiting \/ cmd.name = "exit" \/ (Fatal /\ (~c.ok \/ r.status # 0) /\ cmd.name \in Special))
       /\ returning' = returning
       /\ UNCHANGED <<frames, child, replaced>>

(* Redirections, prefix, the builtin, and both undone; a failure of a special   *)
(* builtin that `command` did not demote ends a shell that is not interactive. *)
Builtin(cmd, line, at_eof) ==
    LET c == apply_redirections(TRUE, fds, files, cmd.redirs, NoSub)
        p == apply_prefix(sh, cmd.assigns, IsSpecial(cmd))
        nothing == ~Readable(c.fds[0])
        r == Called(p.sh, cmd, IF nothing THEN <<>> ELSE line, nothing \/ at_eof)
        usage == c.ok /\ r.status # 0 /\ IsSpecial(cmd)
        leaves == c.fatal \/ (c.ok /\ p.fatal) \/ (~c.ok /\ IsSpecial(cmd)) \/ usage
    IN /\ Dispatched(cmd) /\ ~IsFunction(cmd) /\ IsBuiltin(cmd) /\ cmd.name \notin {"exec", "eval"}
       /\ files' = c.files
       /\ fds' = restore_fds(c.fds, c.saved)
       /\ IF c.ok
          THEN /\ sh' = [restore_prefix(r.sh, p.restore) EXCEPT !.status = IF Unwritten(cmd, c.fds) THEN 1 ELSE r.status]
               /\ ran' = Went(cmd, IF p.fatal THEN "prefix" ELSE IF r.status # 0 THEN "usage" ELSE "none", TRUE)
          ELSE Settled(cmd, 2, IF c.fatal THEN "expansion" ELSE "redirection", FALSE)
       /\ exiting' = (exiting \/ (leaves /\ Fatal) \/ (c.ok /\ cmd.name = "exit"))
       /\ returning' = (returning \/ (c.ok /\ cmd.name = "return" /\ Depth > 0))
       /\ UNCHANGED <<frames, child, replaced>>

(* An external command: its prefix is expanded here, its redirections are its  *)
(* own and fail in the child.                                                  *)
External(cmd, forks) ==
    LET c == apply_redirections(FALSE, fds, files, cmd.redirs, NoSub)
        unexpanded == \E i \in DOMAIN cmd.assigns : cmd.assigns[i].fails
    IN /\ Dispatched(cmd) /\ ~IsFunction(cmd) /\ ~IsBuiltin(cmd) /\ cmd.name # "command"
       /\ exiting' = (exiting \/ (unexpanded /\ Fatal))
       /\ CASE unexpanded -> Settled(cmd, 2, "expansion", FALSE) /\ UNCHANGED <<files, child>>
            [] ~unexpanded /\ ~forks -> Settled(cmd, 1, "child", FALSE) /\ UNCHANGED <<files, child>>
            [] OTHER ->
                 /\ files' = c.files
                 /\ IF c.ok
                    THEN /\ child' = [fds |-> Inherited(c.fds),
                                      env |-> environment_block(Environment(sh, cmd.assigns))]
                         /\ Settled(cmd, 0, "none", TRUE)
                    ELSE Settled(cmd, 2, "child", FALSE) /\ UNCHANGED child
       /\ UNCHANGED <<fds, frames, replaced, returning>>

(* `f() { ... }` *)
Define(cmd) ==
    /\ cmd.name = "define"
    /\ sh' = [define_function(sh, cmd.args[1]) EXCEPT !.status = 0]
    /\ ran' = Went(cmd, "none", TRUE)
    /\ UNCHANGED <<fds, files, frames, exiting, child, replaced, returning>>

-------------------------------------------------------------------------------
Run(cmd) ==
    \/ WordsFail(cmd)
    \/ \E forks \in BOOLEAN : NoName(cmd, forks)
    \/ RefusedPrefix(cmd)
    \/ Nothing(cmd)
    \/ EnterFunction(cmd)
    \/ EnterEval(cmd)
    \/ EnterGroup(cmd)
    \/ Exec(cmd)
    \/ \E line \in Lines, at_eof \in BOOLEAN : Builtin(cmd, line, at_eof)
    \/ \E forks \in BOOLEAN : External(cmd, forks)
    \/ Define(cmd)

Execute ==
    /\ current # NoCommand /\ Run(current)
    /\ current' = NoCommand
    /\ UNCHANGED <<interactive, world, count>>

(* The next command of the script. *)
Read ==
    /\ frames = <<>> /\ current = NoCommand
    /\ ~exiting /\ ~replaced /\ count < MaxCommands
    /\ current' \in world
    /\ count' = count + 1
    /\ UNCHANGED <<sh, fds, files, frames, exiting, returning, interactive, replaced, world, child, ran>>

(* The next command of the innermost body. *)
Continue ==
    /\ frames # <<>> /\ current = NoCommand /\ ~replaced
    /\ LET f == Last(frames)
       IN /\ f.todo # <<>>
          /\ f.fresh \/ (~exiting /\ ~returning)
          /\ current' = Head(f.todo)
          /\ frames' = [frames EXCEPT ![Len(frames)] = [f EXCEPT !.todo = Tail(f.todo), !.fresh = FALSE]]
    /\ UNCHANGED <<sh, fds, files, exiting, returning, interactive, replaced, world, count, child, ran>>

(* Somebody else removes a directory, once. *)
Removed ==
    /\ \E c \in world : c.name = "cd"
    /\ sh.dirs = Dirs
    /\ \E d \in Dirs \ {<<>>} :
          /\ ~\E e \in Dirs : Len(e) > Len(d) /\ SubSeq(e, 1, Len(d)) = d
          /\ sh' = [sh EXCEPT !.dirs = Dirs \ {d}]
    /\ UNCHANGED <<fds, files, frames, exiting, returning, interactive, replaced, world, current, count, child, ran>>

Init ==
    /\ world \in Worlds
    /\ sh = Started(<<>>, [n \in {"HOME"} |-> <<"/">>])
    /\ fds = [f \in 0..Top |-> IF f < 2 THEN Open("terminal", "rw") ELSE Closed]
    /\ files = Files
    /\ frames = <<>>
    /\ exiting = FALSE /\ returning = FALSE /\ replaced = FALSE
    /\ interactive \in BOOLEAN
    /\ current = NoCommand /\ count = 0
    /\ child = [fds |-> [f \in 0..Top |-> Closed], env |-> {}]
    /\ ran = Went(NoCommand, "none", FALSE)

Next == Read \/ Execute \/ Continue \/ Leave \/ Removed
Spec == Init /\ [][Next]_vars

-------------------------------------------------------------------------------
(* Properties.                                                                 *)

Copies(f) == {k \in DOMAIN f.saved : f.saved[k].copy # -1}
Keeps(i, k, d) == k \in Copies(frames[i]) /\ frames[i].saved[k].copy = d
Kept(d) == \E i \in DOMAIN frames : \E k \in DOMAIN frames[i].saved : Keeps(i, k, d)

(* A descriptor at SaveFrom or above is open exactly when a construct that is  *)
(* still going on keeps a copy there, for itself alone, and no program is ever *)
(* given one: nested constructs, failed redirections and unwinding leave no    *)
(* copy behind and lose none (executor.cpp save_fd, restore_fds).              *)
CopiesAreExact ==
    /\ \A d \in SaveFrom..Top : fds[d] # Closed <=> Kept(d)
    /\ \A i, j \in DOMAIN frames : \A k \in DOMAIN frames[i].saved, l \in DOMAIN frames[j].saved :
          \A d \in SaveFrom..Top : Keeps(i, k, d) /\ Keeps(j, l, d) => i = j /\ k = l
    /\ \A d \in 0..(SaveFrom - 1) : ~fds[d].cloexec
    /\ \A d \in SaveFrom..Top : child.fds[d] = Closed

(* The descriptors a script names are below the copies, as POSIX promises for   *)
(* the single digits; one at kFdSaveBase or above can name a copy.             *)
StaysBelow == \A cmd \in AllCommands : \A i \in DOMAIN cmd.redirs : cmd.redirs[i].fd < SaveFrom

Stepped == current # NoCommand /\ current' = NoCommand
Saves(f, d) == \E k \in DOMAIN f.saved : f.saved[k].original = d

(* Every descriptor holds after a command what it held before it: at once for a *)
(* builtin, whatever failed on the way; for a function, eval or a group when it *)
(* is left, normally or unwound, except where an exec inside it changed a      *)
(* descriptor the construct itself had not redirected.                         *)
DescriptorsComeBack ==
    [][/\ (Stepped /\ current.name # "exec" /\ Len(frames') = Len(frames)) => fds' = fds
       /\ Len(frames') < Len(frames) =>
             LET f == Last(frames)
             IN \A d \in 0..(SaveFrom - 1) :
                   fds'[d] = f.before.fds[d] \/ (d \in f.execed /\ ~Saves(f, d))]_vars

Once(cmd) == {n \in Names : Cardinality({i \in DOMAIN cmd.assigns : cmd.assigns[i].name = n}) = 1}
SameValue(before, after, n) ==
    after[n].readonly \/ (before[n].assigned = after[n].assigned /\ before[n].value = after[n].value)

(* A prefix is for the command: afterwards a name assigned in it has the value  *)
(* it had, whatever the command did to it, unless the command is a special     *)
(* builtin or made the name readonly (apply_prefix, restore_prefix).           *)
ValuesComeBack ==
    [][/\ (Stepped /\ ~IsSpecial(current) /\ Len(frames') = Len(frames) /\ IsBuiltin(current) /\ current.name # "exec") =>
             \A n \in Once(current) : SameValue(sh.vars, sh'.vars, n)
       /\ (Len(frames') < Len(frames) /\ ~IsSpecial(Last(frames).command)) =>
             \A n \in Once(Last(frames).command) : SameValue(Last(frames).before.vars, sh'.vars, n)]_vars

(* A command leaves the descriptors and the values of its prefix as they were.  *)
CommandsLeaveNoTrace == DescriptorsComeBack /\ ValuesComeBack

(* POSIX 2.8.1: which errors end a shell that is not interactive. *)
Ends(cmd, error) ==
    \/ error \in {"expansion", "prefix", "assignment"}
    \/ error \in {"redirection", "usage"} /\ cmd.name \in Special /\ ~cmd.demoted

(* One table decides, although every kind of command decides for itself: an     *)
(* error ends the shell when the table says so and it is not interactive, and  *)
(* nothing else does but exit.                                                 *)
FateIsPosix ==
    [][Stepped =>
          exiting' = (exiting \/ (~interactive /\ Ends(current, ran'.error))
                      \/ (current.name = "exit" /\ ran'.executed))]_vars

(* A cd that succeeds leaves PWD naming the directory the shell is in, with no  *)
(* dot in it, and OLDPWD naming the one it left if that still exists; one that *)
(* fails has moved only if a readonly name kept it from saying so.             *)
CdKeepsItsBearings ==
    [][(Stepped /\ current.name = "cd" /\ ran'.executed) =>
          IF sh'.status = 0
          THEN /\ names_current_directory(sh', lookup(sh', "PWD"))
               /\ sh.cwd \in sh.dirs => Resolve(sh, lookup(sh', "OLDPWD")) = sh.cwd
          ELSE sh'.cwd = sh.cwd \/ is_readonly(sh, "PWD") \/ is_readonly(sh, "OLDPWD")]_vars
===============================================================================
