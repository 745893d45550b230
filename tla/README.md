# lesh in TLA+

lesh is a POSIX shell with a line editor of its own: C++23, one process, one
thread, cooperative fibers. This directory holds TLA+ models of the parts of it
that are hard to test, the TLC configurations that check them, and proofs of what
the checks show on small instances. Paths below are relative to the repository;
the code is under `src/`. `PROJECT.json` maps every definition to the lines it
stands for.

    tlc -config MCEventLoop.cfg MCEventLoop              # any run of section 3
    tlapm HistoryStoreProofs.tla                         # any module of section 4

## 1. Inventory

### The parts and their state

| part | state | operations | what makes it correct |
|---|---|---|---|
| fiber scheduler (`fiber/scheduler.*`, `slot.h`) | each fiber's state, one intrusive ready list, per-group counters, the wakes queued for parked groups, the tick's cursor and boundary | spawn, tick, yield, park, wake, park_group, resume_group | one runner; list, counters and states agree; no wake lost or invented; a tick is bounded by what the list held when it began; arrival order survives parking; nobody starves |
| event loop (`ui/loop.*`, `ui/reactor_call.*`) | the turn, the event queue and the one being walked, the reactors' lanes with their slots and cancellation flags, the execution fiber, the waiter table, the deferred signals, the phase | turn, handle, notify, apply, accept, quiesce, resume, enlist, service_awaits, run_the_line, the destructor | it never sleeps on work; no key or signal is lost; reactors do not run beside a command; a line that runs returns; nothing is left on a fiber at the end |
| command history (`ui/history/*`) | `history.data` (a blob, replaced by rename), `history.new.log` (frames, appended), each process's mapping, items, write cursor and remembered identity | open, add, resolve_pending, flush, vacuum, reload on the watch, save; `merge_set`'s add and finish | a resolved command is not lost, whoever else writes, locks or dies; the view follows the files; a merge keeps what recall needs |
| signals (`runtime/signals.*`, `signal_hub` in `ui/loop.*`, `ui/tty.*`) | the kernel's disposition, the trap table, the inherited ignores, the interactive defaults, the hub's chain | trap, enter_subshell, become_command, exec, install, reassert | traps outlive the hub, the shell outlives Ctrl-C, defaults and ignores reach exactly the processes they should |
| executor (`runtime/executor.*`) | flow flags and levels, the walk's frames, saved descriptors and prefixes, child processes, pipe ends, the terminal | run_node for each node, redirect and undo, fork, wait, the traps | unwinds end where they should; every descriptor and variable is put back once; every child is waited for, every pipe closed; POSIX's table of fatal errors |
| shell state and builtins (`runtime/shell_state.*`, `builtins.*`) | variables, parameters, options, functions, aliases, working directory | set, unset, export, readonly, shift, cd, getopts, read, alias | each keeps its invariant under the others; `PWD` is where the shell is |
| words (`runtime/expander.*`, `arithmetic.*`, `pattern.*`, `glob.*`) | fields under construction, an evaluator's position and liveness, a matcher's star | expand, evaluate, match, walk | fields are POSIX's; quoted text is data; arithmetic is C's; patterns find what they say |
| lexer and parser (`syntax/*`) | position, stack of quotes, pending here-documents, the parser's frames, alias stack | next token, segment, parse, substitute an alias | a word ends where it was written to end; the tree is the grammar's; it ends, and asks for more exactly when more would help |
| editor core (`leshper/*`) | text, cursor, marks, generations, undo steps, keymap stack, decoder, staged edits, proposals and decorations, kill slot, pager | feed bytes, resolve keys, run actions, apply edits, undo, redo, replay, complete, paint spans | keys are those pressed; modes agree; undo restores; a record means the same again |
| prompt (`ui/prompt/*`, `ui/session.*`) | programs, remembered items, the session's timer, who paints | render, wake, tick, refresh | it is neither stale nor spinning |
| reactors (`ui/reactors.*`, `ui/history_search.*`) | the snapshot computed on, the batch, what is owed | highlight, suggest, apply, dismiss | what is painted and offered is of the line that is there |
| rendering (`leshper/layout.*`, `surface.*`, `blit.*`) | the last frame, the terminal's | paint, diff, repaint | the screen is the state, output is not overpainted |
| the rest: completion's candidates, `leshnici`, `substrate`, fiber stacks, termios, `main.cpp`, blob framing | libraries, options, wiring | - | - |

### How they interact

`main` builds the shell state, which asks the kernel what it was told to ignore,
and runs a script, or a session. The session owns one executor, one event loop
and one signal hub, all on one thread. The loop polls the terminal, the hub's
self-pipe and the history's directory watch, turns bytes and signals into events,
and handles them through the editor core: the decoder makes keys, the keymap stack
makes actions, an action stages an edit and the harness applies it. After an edit
the loop sends every reactor (highlighting, suggestion) a snapshot on that lane's
slot, and the lanes compute on fibers that poll a flag to learn that they are
superseded; the session renders the prompt and keeps its timer. An accepted line
parks the lanes' group, is parsed and expanded, and runs on the execution fiber;
while it runs the loop takes nested turns, so that a child's exit or a readable
descriptor wakes the fiber through the waiter table. The executor forks, the shell
reclaims the terminal, the hub takes its signals back and the lanes resume. A
finished line is handed to the history, which shares its directory with every
other lesh by nothing but `flock`, `rename` and an identity check.

### What is hard here, and where it is looked for

`PROJECT.json` lists the hazards at their lines. In short: a tick that walks an
intrusive list its own slices change; a level-triggered wake that is queued while
its group is parked; events pushed into storage an outer frame is walking; a
wait that is enlisted after what it waits for has happened; an answer for a text
the user has left; a signal between two reads of the same fact; a poll that fails
under a command; three writers of one kernel disposition, and ignores that travel
through exec; a flag that stands for an unwind, cleared by whichever construct
should stop it; redirections and prefixes that fail half way; every process of a
job taking and giving the terminal at its own moment; processes that interleave
system calls on two files, crash between any two of them, and lock only if the
filesystem lets them; an escape sequence cut by a read and by a timeout; modes of
an editor kept by different handlers; two scans of one text written apart; a
matcher that backs to one star; a terminal whose wrap is pending.

## 2. Modules

| module | models | extends (instances in brackets) |
|---|---|---|
| `FiberWakes` | what the scheduler promises: one runner, wakes are levels | - |
| `FiberScheduler` | `fiber/scheduler.cpp` | (`FiberWakes`, which it implements) |
| `EventLoop` | `ui/loop.cpp`, `ui/reactor_call.cpp`, `fiber/slot.h`, and what it needs of `leshper/registry.cpp` and `editor.cpp` | (`FiberWakes`, the scheduler it runs on) |
| `HistoryStore` | `ui/history/store.cpp`, `vacuum.cpp`, `locking.cpp`, `watch.cpp`, by several processes | - |
| `HistoryMerge` | `merge_set` in `vacuum.cpp` | - |
| `SignalDispositions` | `runtime/signals.cpp`, the hub's dispositions, `ui/tty.cpp`, the forks and execs of `executor.cpp` | - |
| `Executor` | the control flow of `runtime/executor.cpp`, and of the builtins that steer it | - |
| `ShellBuiltins` | the tables of `runtime/shell_state.cpp` and the builtins that change them | - |
| `SimpleCommand` | redirections, prefixes, command search and errors in `executor.cpp` | `ShellBuiltins` |
| `Pipelines` | the forks, pipes, waits and the terminal in `executor.cpp` | - |
| `InputDecoder` | `leshper/decode.cpp` with the loop's clock | - |
| `UndoStack` | what undo promises | - |
| `LineText` | motions and text objects of `leshper/registry.cpp` | - |
| `CompletionPager` | `leshper/pager.cpp` | `LineText` |
| `Keymaps` | `leshper/keymap.cpp` and what the session binds | `LineText` |
| `LineEditor` | `leshper/editor.cpp`, `registry.cpp`, `builtin_actions.cpp`, `vi.cpp`, `undo.cpp`, `kill` | `CompletionPager`, `Keymaps` (`UndoStack`, which it implements) |
| `ShellGrammar` | POSIX's grammar, the parser's reference | - |
| `Parser` | `syntax/parser.cpp` | `ShellGrammar` |
| `Lexer` | `syntax/lexer.cpp` | - |
| `WordReader` | the expander's reading of a word's segments | `Lexer` |
| `Patterns` | `runtime/pattern.cpp`, `glob.cpp` | - |
| `Expansion` | `runtime/expander.cpp` | `Patterns` |
| `Arithmetic` | `runtime/arithmetic.cpp`, and C's meaning of a tree | - |
| `ShellWords` | POSIX's fields of a whole word, and a shell asked one word, expression, pattern or text after another | `Expansion`, `Arithmetic` (`WordReader`) |
| `Reactors` | `ui/reactors.cpp`, `history_search.cpp`, `leshper/decoration.cpp`, `proposal.cpp` | `Lexer` (`LineText`) |
| `Prompt` | templates and trees of `ui/prompt/prompt.*`, the engine, the session's timer, the loop's | - |
| `FrameLayout` | a VT's screen, outside the repository; `leshper/layout.cpp`, `surface.cpp`, the pager's rows | - |
| `Renderer` | `leshper/blit.cpp` and the loop's painting | `FrameLayout` |
| `*Proofs` | theorems: scheduler, loop, dispositions, executor, commands, jobs, editor, history | the module they name |
| `MC*` | model values, worlds and symmetry | see section 3 |

The composition that carries weight is scheduler under loop. `FiberScheduler` is
checked, and proved, to implement `FiberWakes`; `EventLoop` uses `FiberWakes`'
actions for its fibers, and so is not tied to the order of one ready list: what
it shows holds for every scheduler that keeps the promise. Likewise `LineEditor`'s
steps of undo are checked, and proved, to implement `UndoStack`.

Operators whose comment begins `mutant:` or `Seeded fault:` are never used by a
specification. Each is a variant of the definition under it, changed the way a
plausible bug would change it, and is there to show that a property can fail.

**Worlds.** Most modules take a CONSTANT `Worlds`: an execution picks one, keeps it
in `world`, and moves inside it: which commands, keys, tokens, faults or glyphs
there are, and how many. One run then covers situations whose product would be out
of reach. `world` is a variable so that the choice is made once.

**Runs of two parts.** Some `MC` modules join two modules that share nothing
(`MCControlFlow`: executor and dispositions; `MCLineEditing`: decoder and editor;
`MCCommands`, `MCDisplay`, `MCLanguage`, `MCHistoryLive` likewise). The variable
`part` says which one an execution is of; the other's variables stay as they
began, and the initial predicate fixes them so that no state is counted twice. It
is not a claim about their interaction: it asks two questions in one search. Where
fairness is needed it is stated for each part, and can only bind the part that
moves; `MCLanguage` writes it out (`Fair`), each step's enabling condition in
place of ENABLED, which TLC would compute from the whole parser.

### FiberScheduler

The fields of `scheduler` are the variables, name for name: `state` per fiber,
`ready` the intrusive list as a sequence, `readyIn` the per-group counters,
`pending` the queued wakes, `parkedGroups` the group bits, `current`, and the
locals of `tick` and `resume_group` (cursor, boundary, mask; the group whose
wakes are being replayed), because a slice runs in the middle of a tick. A public
call is an action; `tick` and `resume_group` are one action per fiber visited. A
slice may make any call the code lets a fiber make, on any fiber, before it ends.
`snapshot` and `served` are history. Left out: stacks, the watchdog clock,
sanitizer hooks.

### EventLoop

The host's turn is cut where something else can come between: the leading slices,
the poll, the drain of the terminal, the drain of the self-pipe and then of the
flags, the waiter table, the walk over the events, the notifications, the
trailing slices. A signal, a child's exit and a key can fall between any two of
them; a slice of a fiber runs only where the host ticks. `executing` and
`host.outer` stand for the frame of `run_the_line` under which nested turns run:
`carried` is the storage the outer walk holds, `events` the one a nested turn
fills. A lane's `slot`, `snap`, `fresh` and `flag` are the inbox, the snapshot
on its stack, whether the token is unspent, and the cancellation flag. Text is
its generation, its view (the number a snapshot is taken at) and its length:
nothing else tells two texts apart here.

Left out: timers and the ESC deadline (`InputDecoder` has the latter), the file
watch as a topic, rendering, terminal modes and size, the blocking execution mode,
the port call, a full waiter table (one execution fiber waits for one thing), and
the drain ceiling.

### HistoryStore and HistoryMerge

A file is an inode; the bytes of `history.data` never change in place, so an
inode's records are fixed when it appears. Each shell's fields are the store's
(`Boot` names them) and `pc` is the system call it is about to make: a store is
one thread, so other shells and crashes come only between those. The vacuum is
read, build, open, lock, (move aside,) rename, check, truncate, forget, map,
reload.

Abstractions: a record is its command (order, time and cap are `HistoryMerge`'s);
a log frame is whole or torn; the log's own advisory lock around an append and
the shared locks of readers exclude nothing the model distinguishes and are left
out; inode numbers are not reused; notifications for temporary files are not
delivered, since they change nothing that is compared; an `open` of an existing
file does not fail (section 5).

`HistoryMerge` is `add` and `finish` on a sequence of records; a record is a
command, a timestamp and the run it came from, which stands for the fields that
are only carried.

### SignalDispositions

An execution follows one signal down one line of descent: at a fork it goes with
the child, at an execve with the image, and a command may be another lesh, which
starts from the disposition it was handed. This loses nothing: no operation lets
one signal's disposition depend on another's, and no process reads another's.
`proc` is the kernel's disposition with the entry of `signal_state`; its operators
(`install`, `set_interactive_defaults`, `reset_for_subshell` ...) are the
functions of that name. `TakeForTheRead` is `take_dispositions` followed by the
`SIG_IGN` the read sets for SIGTTOU and SIGTTIN. `Fork` leaves a child that has
done nothing; `EnterSubshell` and `BecomeCommand` are what it does next. `did`
is history. Not modelled: delivery and pending flags, the bodies of traps,
`uninstall` at exit, a `dup` of the terminal that fails at start.

### Executor

The executor is a recursive walk of a syntax tree, and unwinds by a flag that
every construct must look at. `stack` is the walk's C++ stack, a frame per
construct that waits for a node below it; `sh` the fields that steer it (`_flow`,
`_flow_level`, `_exit_requested`, `_input_ended`, `_status_tested`,
`_exit_trap_ran`, with `$?`, the trap's entry status and which traps are set).
`_loop_depth` and `_errexit_suppressed` are counters of scopes in the code and
therefore counts of frames here (`loop_depth`, `Testing`). `at` is where the walk
stands: about to run a node, back from one with its status, at the pending traps,
at the tests after a command, at the end of a list. There is no program: wherever
a node is entered the model picks a construct of the execution's world, and
wherever a command of a list has run it picks whether another follows, so the run
covers every program of the world up to the depth of the stack. A subshell is the
frame that forked with what its child does above it, and the parent's fields put
back when the child ends; parent and child never run at once.

`watch` and `prov` are history: the unwind under way, the frame it must reach and
the status it must bring there; and whether the status in hand was tested where it
arose. `watch` is not kept where the code does not unwind at once (section 5), so
that what is claimed is claimed of everything else.

Left out: words, assignments and redirections (`SimpleCommand`), pipelines and
asynchronous lists (`Pipelines`; here a pipeline is its last command's status),
special builtins that fail, syntax errors, and the limits on recursion.

### SimpleCommand, ShellBuiltins, Pipelines

`ShellBuiltins` is one shell as a record and each builtin as an operator from the
record to the record and a status. `SimpleCommand` runs a command in the shell's
own process in two halves, what is set up and what is undone, with a frame for
each half still owed: redirections and their saved copies, the prefix and what it
overlaid, then the search (special builtin, function, builtin, program). A
redirection or an expansion may fail at any place of the list.

In `Pipelines` a process is a record with the pipe ends it holds and a program
counter of its own; a subshell is a process running the same machine. Every fork
of the executor but a redirection's is there, any one `fork` or `pipe` may fail,
and ^C and ^Z reach the terminal's foreground group at any moment. A program is
one of a few shapes: writes, copies, reads once, sleeps, catches ^C, manages the
terminal.

### InputDecoder, LineEditor and what it uses

`InputDecoder` is fed bytes as reads cut them and asked to `expire` when the loop's
deadline passes; tokens stand for bytes, one for all digits of a parameter.
`LineEditor` dispatches a key through the stack of layers (`Keymaps`), gives the
action a handle (`h`, with the staged state `h.t`) and applies what it staged as
the harness does: one edit found as a difference, joined to the last step of undo
or not. Every action the default keymaps or the session bind is there, with the
operators, counts, objects and repetition of vi, visual mode, the kill slot, the
pager, suggestions and pastes, and what the loop does of a line accepted or
cancelled. A character is a token and always one cluster.

### Words, lexer, parser

`Lexer` finds a token's and a word's extent and cuts it into segments with the
code's own stack of contexts; `WordReader` takes a word apart as the expander
does. `Expansion` builds fields byte by byte, as the code does; `ShellWords` says
what they are of the whole word at once (`PosixWord`), and compares the two. `Arithmetic` is
the evaluator that computes as it parses, at a width of four bits, beside the
meaning of a syntax tree. `Patterns` is the matcher with its one place to go back
to, beside the language a pattern denotes. `Parser` is the recursive descent one
token at a time with its C++ frames as `stack`, its aliases and here-documents; the
oracle beside it (`expected`, `said`) is what `ShellGrammar` leaves to be said.
These are the algorithms whose inputs, not interleavings, are hard: the inputs
are chosen a token at a time, so a run covers every input of a world.

### Reactors, Prompt, FrameLayout and Renderer

`Reactors` is each reactor as a fiber that takes a snapshot, computes in slices and
applies a batch, over a line typed, moved in, accepted or cancelled at any
moment; the spans it emits go through the layers and the sweep of
`decoration.cpp`. `Prompt` scans templates and walks trees into programs and
keeps two of them, with clocks, a spinner and a slow module, in ticks of
two clocks whose seconds begin apart. `FrameLayout` makes a grid of cells and
`Renderer` writes it, whole or as a difference, to a terminal that does with the few
sequences of the blitter what a VT does, deferred wrap, scrolling and reflow included;
the screen is compared with the frame.

## 3. Runs

| run | module | states | question |
|---|---|---|---|
| `fiber_scheduler` | `MCFiberScheduler` | 142 thousand | 4 fibers in 2 groups: does the scheduler keep its structures exact and its promise, and is a ready fiber served? |
| `event_loop` | `MCEventLoop` | 2.0 million | 2 reactors, 2 keys, a Ctrl-C; a command that forks, waits, reads, exits: does the loop sleep on work, lose what was typed, leave a frame behind, or a line unanswered? |
| `history_safety` | `MCHistoryStore` | 5.2 million | 4 worlds of shells and faults: what can be lost, moved or misread, and by whom? |
| `history_live` | `MCHistoryLive` | 95 thousand | does a reported change reach the view, does every vacuum end; and what survives a merge and its cap? |
| `control_flow` | `MCControlFlow` | 5.5 million | 8 worlds of constructs, 4 frames deep; 10 signals: does every unwind end where it should, does `set -e` see what was tested, does each disposition reach the processes it should? |
| `line_editing` | `MCLineEditing` | 153 thousand | 10 worlds of keys, 10 utterances of bytes: are keys those pressed, do modes agree, do undo and repetition mean what they meant? |
| `commands` | `MCCommands` | 122 thousand | 5 worlds of commands, 6 of jobs: is everything put back, who dies of what, where is the shell, does a job end? |
| `display` | `MCDisplay` | 682 thousand | 4 templates and 3 trees under clocks; 7 terminals: is the prompt current, is the screen the frame? |
| `language` | `MCLanguage` | 823 thousand | 15 families of inputs, 6 of lines: is the parser's language the grammar's, is a line painted and completed as what it is, do both come to an end? |
| `shell_words` | `MCShellWords` | 211 thousand | 19 worlds of words, expressions, patterns, trees and texts against their references |
| `pipeline_hang` | `MCCommands` | violation | "the classic pipeline hang" does not happen |
| `history_truncation_race` | `MCHistoryStore` | violation | "a resolved command is never lost" |

Each property of a passing run has a mutant in `PROJECT.json` that breaks it. A
property may be a conjunction: its parts are about one hazard, stand above it in
the module with a comment each, and are what the text below names.

### What they show

**Scheduler.** `BookkeepingIsExact`: the ready list holds exactly the ready and
running fibers, once each; a queued wake is owed to a fiber still parked; the
counters answer `runnable` as the fibers' own states do. `OrderIsKept`: a tick
slices what the list held when it began, in order; of two fibers of a group the one
that arrived first stays first through yields, parking, queueing and replay.
`ParkedGroupIsFrozen`, `WakesSpec` and `ReadyIsServed` are the group, the
refinement and the absence of starvation.

**Loop.** `BlockedOwesNothing` says "when it sleeps, there is nothing to do" to
both sides: no finished command, no reaped-but-unnoticed child, no pending signal;
and every lane has answered for the text on screen, although notifications are
conflated, superseded and thrown away. `InputIsKept` counts keys through the two
queues and the terminal, across nested turns, and follows a Ctrl-C through them.
`FibersAreKeptApart`: no lane runs while a command does, the waiter table's
pointers into a parked fiber's frame never dangle, no way out of the loop leaves a
command on its fiber, and no lane owns a snapshot when its stack is unmapped.
`RunningLineReturns` covers a child that died before the wait, SIGCHLD ignored, a
terminal gone, and a poll that failed.

**History.** `OnlyRacedFramesAreLost` is what the code does guarantee: only a
frame appended while a sibling was between its vacuum's read of the log and the
truncation can go. `RenameMergesWhatItReplaces`: a rename keeps what the file it
replaces held (where locks are granted; `LocksWork` is in the formula, so the
other worlds are still explored for the rest), and a file in another format stays.
`ViewKeepsUp`: a session sees its own commands, across everyone's vacuums, and a
mapping that is out of date differs from the identity it is compared with.
`MergeKeepsWhatRecallNeeds` and `StoreComesToRest` are the merge and the end of a
vacuum.

**Signals.** `DispositionsStand`: a listed trap is one that runs, through the hub
and its chain; an ignore the user set survives everything but another trap
(`IgnoreIsInherited`); an inherited one stands while the flag says so; the prompt
hears INT, CHLD and WINCH; the interactive shell is spared INT, QUIT and TERM, its
subshells and commands are not; the foreground's commands can be stopped at any
depth, and the shells that manage the terminal can take it back.

**Executor.** `ControlIsExact`: from an `exit`, `return`, `break`, `continue` or
interrupt to the construct that must stop it no command starts, nothing clears
the flag on the way, and `exit` and `return` bring their status; and `set -e` ends
the shell exactly for a status that was acted on. `UnwindLeavesNothingStanding`:
once there it is over, at any level of `break n`, through `eval`, dot scripts,
functions and lists, and with it the promise of the shell's EXIT trap, which runs
whole.

**Commands and jobs.** `CommandsLeaveNoTrace` and `NothingIsLeftBehind`: descriptors
and prefixes come back as they were in nested constructs that fail half way, each
saved copy has one owner, and at the prompt no child is unreaped and no pipe end
open. `FateIsPosix`: one table says which error ends the shell, although each kind
of command decides for itself. `CdKeepsItsBearings`: PWD and OLDPWD, under links
and removed directories. `JobsComeBack`: a foreground job gives the terminal back, between
commands only what ^C orphaned takes it, and only a stopped process keeps a command
from ending.

**Editing.** `DecodesWhatWasPressed` and `EscapeResolves`: bytes cut by any read and
any timeout are read one way; a held ESC is decided. `ModesAgree`: operator, layers,
anchor and pager are never one without the other, and positions are in the text.
`RecordMeansTheSame`: what `.` would type does from where the change began what the
change did. `NothingChosenIsLost`: the selected candidate survives narrowing, what
is killed comes back. `UndoIsAStack` is a refinement: an edit found as a difference,
coalesced, undone and redone is a step of a stack of texts.

**Display.** `PromptIsCurrent`: never a second late, one timer, a slow module
appears, and its owner paints it. `ScreenIsRight`: the terminal shows the frame and
nothing of an older one, and nothing a command printed is overpainted.

**Language.** `ParsesTheGrammar`: what is read without a defect is in the language
and read as what it is, and "incomplete" is said exactly if more would help.
`AliasesStandForCommands`, `ReadersComeToAnEnd`; `EachCharacterIsPaintedAsItReads`
and `SuggestionIsOfItsLine` for the reactors.

**Words.** `ExpansionIsPosix`, `ArithmeticIsCs`, `PatternsFindWhatTheySay` and
`LexerReadsWhatWasWritten` compare the code's algorithm with a reference written
from what it promises, over every input of their worlds.

### Bounds, and why they are enough

- *Scheduler.* The only bound is four fibers. Its hazards need a tick with a
  cursor, a successor, a boundary and one fiber that arrives during it. The
  proofs have no bound.
- *Loop.* `MaxPolls = 1` lets a key arrive while a compute is suspended in a
  poll, which is what conflation and supersession need; two keys let one be in
  the slot or a compute and one on the terminal. Two reactors show that one
  lane's answer does not stand for the other's. Three units of work allow fork,
  read and then wait, or ignore, fork and wait; every signal is a flag, so one
  Ctrl-C at a time is all there is to tell apart. The proofs have no bound on any
  of these.
- *History.* Two shells are what each race here has; the third party is the crash.
  `MaxTries = 2` gives one lost race and one retry. `MaxFile` is never reached by
  the adds allowed. Worlds: `Pair` (vacuum at every append, one crash), `Alone`
  (absent, ours, foreign and corrupt files; failing writes; a secret; two
  crashes), `Upgraded` (a later lesh's file arrives at any time), `Lockless`
  (locks slow or refused). Shells, and commands that are not secret, are
  interchangeable, hence the symmetry; the liveness run does not use it. A merge is
  fed up to five records of three commands and two times: eviction must choose,
  and equal and skewed times occur. The proofs have no bound on shells, commands,
  retries, crashes or faults.
- *Signals.* The state space is finite as it stands and is searched whole.
- *Executor.* The eight worlds cover the pairs that share a field: loops with
  functions and subshells, operators with everything that carries a status,
  conditions with `return`, traps with each way to unwind. Four frames are the
  input, two constructs and one between them, which is what `break 2` through a
  list, or a flag set two levels down, takes; lists and loops are unbounded. A
  status is 0, 1 or 130. The proofs hold for every depth.
- *Commands.* Seven descriptors (0 to 6; copies from 3) let a copy land where a
  later redirection writes; three commands make one overwrite what another left.
  Jobs: six processes and two pipes hold a pipeline of three inside a subshell;
  a pipe holds one item, so that both a full and an empty one occur; one key and
  one failing call at any moment. Three subshells, one in the other, are what an
  orphan takes that goes on to start something.
- *Editing.* Four to six keys on lines that begin with up to seven characters: an operator, a
  count, a motion, a repetition and an undo. A pager of one row and two columns
  scrolls with three candidates. Two utterances, since what matters is how the end
  of one and the start of another share a read; `Timeout = 2` separates a tick that
  expires from one that does not. The proofs have no bound on keys, texts, layers,
  candidates or steps of undo.
- *Display.* Seconds of three ticks and minutes of two seconds; widths of three to
  five columns with wide glyphs straddling the edge, screens from two rows to more
  than is written.
- *Language and words.* Lengths in the worlds, four to twelve tokens, reach every
  production nested once in another. `Width = 4` wraps, shifts past the width and
  has a least integer; nothing in the evaluator depends on 64.

`CHECK_DEADLOCK FALSE` is set where executions end: the process exits or the bounds
stop the user (`EventLoop`, the union runs), or an input has been read to its end
(`language`, `shell_words`). In `HistoryStore` the users may rest (`Rest`), but a
shell stuck inside an operation is reported.

### Fairness

- *Scheduler:* the loop calls `tick` on every turn, with the mask of its lanes;
  `tick` and `resume_group` run to their end once called; a slice ends, however
  many calls it makes first, because reactors poll for cancellation and commands
  park on every wait (the watchdog reports one that does not). The last is strong
  fairness: the slice's end is enabled again after each of its calls.
- *Loop:* the thread goes on while it has a step to take, whichever of host and
  fiber it is in, and children end. The user owes nothing.
- *History:* a process makes its next system call; the loop, which polls the
  watch's descriptor on each turn, drains it if it stays readable between
  commands (strong fairness: the operation is off while a command runs). Locks
  are waited for and granted, in the world that is checked.
- *Decoder:* bytes on the wire arrive, time passes and the loop turns. *Jobs:* each
  process takes the step it can take. *Parser:* it goes on. *Reactors:* the
  scheduler slices a fiber that can run (that it does is `ReadyIsServed`), and a
  command ends.

## 4. What is proved

Eight modules of proofs, each extending the module it is about. The constants'
assumptions stand in those modules and say no more than that sentinels are not
members, that bounds are natural numbers, and that worlds are made of what they are
made of; no set is assumed finite but that of the fibers, and nothing is assumed
small. Every theorem is about the module's own `Spec`, with its bounds left as
parameters: an `EventLoop` theorem holds for every `MaxKeys`, an `Executor` theorem
for every `MaxDepth`.

Before each proof TLC checked the inductive invariant on the instance of the run;
several were wrong at first, which is how the assumptions and conditions below were
found.

### Scheduler (`FiberSchedulerProofs`)

- `SchedulerInvariant`: `Spec => []SchedulerInv`, and its named parts `TypeCorrect`,
  `ListExact`, `QueueOwed`, `OneRunner`; `CountersTruthful`: `runnable(mask)`,
  computed from counters, equals the question asked fiber by fiber;
  `BookkeepingExact`: what the run checks, `BookkeepingIsExact`;
- `ParkedFrozen`: no step touches a member of a group that is parked before and
  after it; `OrderKept`: `OrderIsKept`;
- `SchedulerRefinesWakes`: `Spec => WakesSpec`, with `mode` as the refinement
  mapping: a fiber is owed a slice when it is ready, or parked with its wake
  queued. Every scheduler step is a `FiberWakes` step or a stutter.

None of the properties is inductive alone. That the list is exact is preserved by
an unlink only if its counter is exact, and the tick's next step is defined only if
its cursor is a linked fiber that is not the one running (`CursorIsLinked`): the
code takes the successor before the slice, and the slice may park that successor. A
replay wakes only fibers that still wait because the queue holds each once, and that
needs to know that a group being replayed is not parked. For the order, the
invariant says of a tick's walk that what it has served, and what is still before
its boundary, is the snapshot in its order; a fiber that arrives is behind the
boundary, and the list and the queue together keep each group's arrivals in line.

### Loop (`EventLoopProofs`)

- `LoopInvariant`: `Spec => []IInv`;
- `NeverSleepsOnADebt`, `FibersStayApart`, `InputStaysKept`: the run's three
  invariants, for any set of reactors and any bounds.

That the loop never sleeps on a debt is about a poll, and the debts are settled
elsewhere, so `IInv` says what each place of the turn has already made sure of:
`TimeoutSettled` (a blocking timeout was computed when nothing was runnable, and
what could have changed that since then rings the pipe), `BellRung` (a pending
signal has its byte), `LanesOwed`, `SnapsKnown` and `Announced` (a lane whose answer
is not the text's has a slot, a snapshot, an arrival or an announcement still to
come, and which of them is possible where). `CommandKnown` and `NestedTurns` tie the
execution fiber's place to the host's, which is what keeps lanes and command apart.
`InputStaysKept` counts keys over terminal, queues and line.

### Dispositions (`SignalDispositionsProofs`)

- `DispositionsInvariant`; `DispositionsAlwaysStand` and `IgnoresAreInherited` for
  what the run checks, for any set of signals.

The kernel's disposition is a function of the trap table, the inherited ignore, the
defaults, the hub and the place between a fork and what it does next (`KernelKnown`);
the other parts say which of these can be combined in which kind of process.

### Executor (`ExecutorProofs`)

- `ExecutorInvariant`; `ControlKept` and `NothingLeftStanding` for what the run
  checks, for every depth of nesting and every world.

`IInv` has four parts and one conditional: types; `StackKnown`, which frames can
stand on which (`FramesStand`), where an interrupt may be under way, and what a trap
frame remembers; `PointKnown`, what the walk's place says of the top frame;
`TestsKnown`, whose flag the status in hand carries. While an unwind is watched,
`UnderWay` says it is on its way (`OnItsWay`: the flag that stands is the one it was
raised with), that the level left is that of the loops between here and its goal
(`Stands`), and the status it brings (`Brings`). The construct that stops an unwind
is then its goal because every construct above it is one that lets it through.

### Commands (`SimpleCommandProofs`)

- `KnownThroughout`: `Spec => []Known`, for any names, directories and links, files,
  scripts and function bodies, with any bounds;
- `FatesArePosix`: `FateIsPosix`, whatever the commands;
- `PrefixValuesComeBack` and `DescriptorsAreRestored`: the halves of
  `CommandsLeaveNoTrace`; `CommandsLeaveNothing`: the whole;
- `TablesThroughout`, and from it `CopiesStayExact`: `Spec => []CopiesAreExact`, the
  commands' part of `NothingIsLeftBehind`.

What is about descriptors has the hypothesis `StaysBelow`: no redirection of the script
names a descriptor at `SaveFrom` (`kFdSaveBase`, 10) or above. The code needs it (section
5: such a redirection clobbers a copy), POSIX promises a script the single digits only,
and the scripts of the run meet it (`MCStaysBelow`). The rest has no hypothesis.

`Known` says that the shell's tables keep their shape, that what is executed next is one
of the script's commands, and of each function, `eval` and group that is going on that it
can undo its prefix (`Undoes`): for a name assigned once, exactly one entry records what
it was, so putting the entries back in their order restores it whatever the body
assigned, unset or recursed into, unless it has become readonly.

`Tables` adds the descriptors. Redirections are applied one by one, each saving what was
there; `Undoable` is what holds after any number of them, and after a failure: from the
table now and the list saved so far the table before can be had (`Recalls`: the first
entry for a descriptor has its original, closed or in a copy), the copies are distinct
and open (`Owed`), and what was not saved is as it was. `RestoreUndoes` then says that
`restore_fds`, walking the list backwards, gives the table before. Constructs nest:
`Owes` says that each one's list is owed from the same table, that no two keep one copy,
and that nothing else is open at `SaveFrom` or above; `Sees` that what a construct did
not save is still as it found it, or was changed by an `exec` inside. A copy is taken
where nothing is open, so a construct entered later disturbs none kept earlier, and one
left closes its own only.

The folds of the model (`apply_redirections`, `restore_fds`, `apply_prefix` and the
builtins' loops) are recursive functions of a position; `RedirectionsUnfold` and its
likes show that each exists and is reached step by step, which is what an induction
along a list needs and is proved from the least counterexample. The proof found one error
of the model: the program `exec` becomes was given the shell's copies as well.

### Jobs (`PipelinesProofs`)

- `TidyThroughout`: `Spec => []Tidy`, for any number of processes and pipes, any lines,
  keys and failures;
- `JobsEndTidily`: `Spec => []JobsAreTidy`, the jobs' part of `NothingIsLeftBehind`;
- `TerminalIsGivenBack`: `Spec => TerminalComesBack`, the safety half of `JobsComeBack`.

The hypothesis, `HasRoom`, is that there is a process for the interactive shell; the run
meets it (`MCHasRoom`).

At the prompt nothing is left because of what is so in the middle of a job. `Kin`: a
parent is a shell that runs, and has the terminal if its child does, so a process dies
with no children but those `init` adopts, and no chain of parents leads to a child
nobody knows. `Reigns`: ^C never kills the interactive shell, and its job's state is
`NoJob` exactly between commands. `Holds`: the pipe ends it has are those of the stage it
is at (`Working`), and for each call that failed at most one more. `Answers`: every child
it has is one it has still to wait for (`Awaited`), one that stopped, or one in the
background that was never given the terminal. A finished job has waited for all, so what
is left has stopped or is in the background.

`GoesOn`, `IsForked`, `IsReaped`, `IsAdopted` and `IsShaken` are the five ways the table of
processes changes; each action is shown to be one of them, or two after one another, and to
keep the shell's part, when a child takes it (`StepElsewhere`) and when the shell does.

The proof found two errors of the model. `TerminalComesBack` had named only a child on its
first step as the one that may take the terminal from the prompt; that is so within three
levels of nesting, and the proof asked what such a child does next: it starts commands and
hands the terminal to each. And two arms of ^C's case distinction (`Struck`) overlapped,
where TLA+ leaves the choice open and TLC takes the first.

### Editor (`LineEditorProofs`)

- `SoundThroughout`: `Spec => []SoundInv`, for any worlds: any texts, keys pressed in any
  order, pastes, suggestions, interrupts and keys replayed;
- `EditorsModesAgree`: `Spec => []ModesAgree`; `NothingIsLost`: `NothingChosenIsLost`;
- `HistoryIsAStack`: `Spec => UndoIsAStack`, the refinement of `UndoStack`.

The hypotheses are about what is outside the editor. `CompleterAnswers`: a completer
answers, of any text and place in it, with a range that does not end before it begins and
a sequence of candidates. `SuggesterAnswers`: a suggestion is a text. The completer and
the suggester of the run meet both. Both stand in the theorems and not as assumptions of
a module, since they are about texts of every length and TLC could not evaluate them.

`SoundInv` says that the state keeps its shape (`IsKept`), that the points are in the text
and the history fits it (`IsWritten`), and that the modes are in step (`InStep`). The
history is the hard part. `Earlier` and `Later` are the texts the line had and can have
again; `Past` says that each step of undo `Makes` the next text of the one before: what it
says was removed is what stood there, its points are in the text they will be put back
into, and undoing it gives the text before. `Future` says the same of what can be redone,
the other way round (a `Chain` of either). Coalescing is the step that needs it whole: an
insertion that begins where the last one ended `Makes`, with it, one insertion from the
text before both (`ChainAmended`). The edit itself is found as the difference of two
texts, so `diff_of` is proved to give back the text it was asked about.

`InStep` lists the five combinations of layers, operator and pager that occur: a mode,
perhaps with visual layers on it; the pager over that; a layer waiting for one character;
an operator and its layer; and a find under an operator. What an action may do depends on
which keymap can ask for it, so the proof goes through the tables: which actions the keys
of each combination resolve to, with a prefix held, a count, a default binding or an
opaque layer between (`VerbMade`, `AtModeMade`, `InPagerMade`, `AwaitingMade`,
`OperatesMade`). An action is then one of a few kinds (`Looks`, `Calm`, `Does`, `Turns`,
`Paged`), and `Event` is what the step it settles into means for a user: the stack of
texts moves by one step of `UndoStack` or not at all, what was killed is what has gone,
and a choice outlives the narrowing it matches. A key that closes an operator makes two
such steps, of which the first, the motion, leaves the texts alone.

TLC finds `SoundInv` to hold on the worlds of the run too. For the proof the model's
`SelectSeq` and `FlattenSeq` gave way to functions the prover can unfold (`Among`,
`Times`), and `Earlier` and `Later` became operators of a state.

### History (`HistoryStoreProofs`)

- `HistoryInvariant`: `Spec => []IInv`, for any shells, commands, worlds, crashes;
- `UnracedIsKept`: `OnlyRacedFramesAreLost`, with no hypothesis: whatever is at the
  path, whoever crashes, rewrites, or is refused a lock;
- `ViewStaysUp`: `ViewKeepsUp` where no file is corrupt at the start (`Steady`);
- `RenamesMerge`: `RenameMergesWhatItReplaces` where no file is corrupt at the start
  and, if a later lesh may replace the file, locks are granted (`Replaceable`).

The hypotheses are the code's, and TLC has a counterexample without each: two shells
that both find the file corrupt move it aside by name, and the second may move the
first's rebuilt file (hazard `vacuum.cpp:478`), which breaks both properties; and
without a lock the look before the rename does not protect a foreign file that arrives
after it. Of the run's worlds only `Alone`, one shell over a corrupt file among others,
is outside them.

A resolved command that nobody raced is in the log, in a file moved aside or in the
file at the path (`Safe`); to keep that true of a step of one shell one needs to know
what every other shell's vacuum in progress is about to drop. So `IInv` says of each
shell: what its vacuum keeps (`VacuumKeeps`: the log it read, the file it replaces,
what it has merged), what its blob was made from and what its lock stands for
(`Guarded`), which file it can be mapping (`MappingKnown`), what its items are
(`ItemsKnown`) and where its own commands are found (`OwnKept`). `Grows` is what a
step of another shell may do to the disk, and `OthersKnow` that a shell's knowledge
outlives any such step; `QuietStep`, `LockStep` and `LoudStep` are the three kinds
of step of the shell itself: those that leave the disk alone, take or drop a lock, or
write. Each action is then a lemma that says which it is.

### What stays with TLC

Liveness (`ReadyIsServed`, `RunningLineReturns`, `StoreComesToRest`, `EscapeResolves`,
the half `CommandsEnd` of `JobsComeBack`, `ReadersComeToAnEnd`): fairness and ENABLED are out of the prover's
reach. The algorithms: `Parser`, `Lexer`, `Expansion`, `Patterns`, `Arithmetic`,
`Prompt` and `Reactors` are or use RECURSIVE operators, and what a recursive
definition computes for every input needs induction with an operator as a parameter,
which the installed provers cannot instantiate; `HistoryMerge` folds over sequences
and is of that kind. Not yet proved, and within reach: section 6.

## 5. Where code and comments part

Two runs end in a counterexample; `PROJECT.json` quotes the sentence each refutes.

- `history_truncation_race`: between `fstat` and `ftruncate` a sibling appends.
- `pipeline_hang`: a pipeline stage keeps the read end of its own output pipe, so a
  stage that writes for ever is its own reader and never gets SIGPIPE: `yes | head`
  does not end (`executor.cpp:3549` against the comment at 3578).

Everything else below was met while modelling. It is left out of what a property
claims, by its conditions or its worlds, or is modelled as it is; none of it has a run
of its own.

**Loop and signals.** A Ctrl-C held back by a command becomes an event at the top of a
turn whose poll timeout was settled before, and the loop sleeps with it
(`loop.cpp:751`, `746`). SIGPIPE stays ignored in every command of an editor session;
`exec`, `&` and `$( )` hand over the stop signals ignored as well
(`executor.cpp:2267`). A user's trap on SIGTTOU or SIGTTIN is overwritten at the next
prompt (`UserTrapStands`); a failed `exec` in a subshell raises the interactive defaults
the subshell had dropped (`SubshellTakesDefaults`); `trap '' TSTP` does not reach
commands (`IgnoreIsInherited`); foreground commands of the rc file take the terminal
before SIGTTOU is ignored, and are stopped. A `read` after a failed poll waits for a
descriptor nobody polls; a signal recorded in a child that then execs is swallowed.

**History.** An `open` that fails reads as an empty file, twice, and the history is
replaced by what this session knows (`vacuum.cpp:388`). Two shells that both find the
file corrupt; a rename between the mapping of tier 1 and the opening of the watch.

**Control flow**, each against dash and bash: an item of a `case` closed by `;&` runs the
next item while an `exit`, `return` or `break` stands. The EXIT trap of a subshell that
ended by `return`, or by a `break` of its parent's loop, stops after its first command,
and so does the shell's own when a trap body exits while a `return` stands; a signal's
trap that is run while an `exit n` stands runs its first command and replaces the
status, and a Ctrl-C there replaces it by 130; a loop in a trap body takes a standing
`break` for its own. `continue` in a loop's condition leaves the loop; `return n` in one
runs the first command of the body, or loses its status. A `while` whose body ends in a
tested status exits a `set -e` shell (`while c; do false && true; done`), and a trap body
leaves its flag to the command it interrupted. `! exit 3` and `! return 3` leave with 0.
A `return` at the prompt, or in the rc file, raises `_input_ended` for the rest of the
session.

**Commands and jobs.** A prefix is restored first to last, so `x=1 x=2 f` leaves `x=1`,
and without its attributes (3149-3154); `x=${y?} cmd` runs the command anyway (3009: "An
expansion that failed fatally must not go on to run anything"), `> ${x?}` fails only in
the child; `exec >a <missing` is half applied; a script's descriptor of 10 or more
clobbers a saved copy; closed 0 or 1 leaks; `cd x` from a removed directory joins onto
"/". `run_pipeline_stage` drops the prefix of a function or builtin. A `pipe()` that
fails in the middle of a pipeline leaves its input open (3469-3472); after a failed fork
the status is the last started stage's, against 3589-3590; a subshell killed by ^C right
after its fork may take the terminal; a stage that is not the leader can be stopped by
SIGTTIN; a script's children get a group of their own but not the terminal; `wait` waits
for ever for a stopped job, and in a subshell asks for its parent's children. A large
here-document's writer is never reaped, and one whose fork fails truncates. A child of
a subshell has a group of its own before it has the terminal (`executor.cpp:2071`, 2080):
^C in between kills the subshell and not the child, which takes the terminal from the
prompt.

**Words.** `a='1 '; b=' 2'; $a""$b` makes two fields and not three (`expander.cpp:814`,
`777`, against 781-790 "The quotes start a field"); unquoted `$@`, `$*`, trims and
`${x:=*}` never become patterns, and quoted ones do (846, 861, 967 against
`expander.h`); a backslash from an expansion makes a quoted special live; a tilde's result
is not escaped; `${#x}` is not split; expansion goes on after a fatal error. `x /= 0`
and `x = 1/0` store 0 although they fail (`arithmetic.cpp:234-252` against 162-171);
`1 ? 2,3 : 4` is refused. `*/b/` lists every directory, and `*/` links to files.

**Lexer and parser.** The scan at word level does not know `$'…'`: `${x-$'\'}'}` ends at
the wrong brace, though `lexer.h:149-156` says "One escape rule in one place is what
keeps those three agreeing"; scans inside double quotes use `peek(1)`, so a line
continuation between `$` and `(` is misread; a quoted delimiter is compared without
decoding `\c'`; the `$((` scan counts parentheses only; `$${` and `$$(` ask for more. A
trailing `|`, `&&`, `||` or `f()` is neither incomplete nor an error (`parser.cpp:1145`);
a pending here-document at the end of the input is not incomplete (1066). Accepted:
`a ; ; b`, `| a`, `{ a; } b`, `f() cmd`, `case w in )`. The guard against cycles compares
the bodies' text, and 17 empty aliases leave the last as a command.

**Editing.** Undo walks back into a line that was run (`loop.cpp:1795`); `.` of a change
made in visual mode while repeating types itself for ever (`editor.cpp:505`), and one made
in mid-visual is not the whole change (`state.h:236-241`); `u` is recorded as the last
change; a count before `f` is lost, survives an unbound key, and `2.` drops it; an edit
found as a difference moves when a character is typed before its equal; a cancelled empty
line and an empty paste make an empty step. Escape is a target for `r` and `f`; an
operator aborted leaves its selection; ^C does not close the pager nor drop layers and
counts; a paste under the pager leaves its range stale; `keymap_expire` is never given a
time. Undo groups, `dismiss_autosuggestion` and the `pager_show_*` actions are used by
nobody.

**Reactors, prompt, rendering.** Dismissing while a recompute is owed brings the
suggestion back; a stale one can be accepted (`builtin_actions.cpp:231-236`). A tick
renders the prompt without variables, so one in a group disappears (`session.cpp:1071`);
registering an abi module again leaves a dangling pointer; `time` lags up to a second. A
newline at the last row overpaints the prompt (`blit.cpp:76` against `blit.h:99-100`);
accepting writes "\r\n" from wherever the cursor is (`loop.cpp:1742`), and output that
does not end a line is overpainted (1595); a row that goes from hard to soft in a
difference stays hard; a clipping terminal narrowed and widened, wide clusters over the
edge and tall windowed frames are left out of `ScreenIsRight`.

## 6. Plan

What was modelled first is what would hurt most: the scheduler, the loop on it, the
history that outlives the process, the dispositions that outlive it too, and the control
flow every script depends on; then what a command leaves behind, the editor, the
language, what is shown. What was proved first is what several processes or fibers do to
one another. Next:

1. `CdKeepsItsBearings` of `SimpleCommand`, on `Known`, and `OneTimerAndOnTime` of `Prompt`.
2. `DecodesWhatWasPressed` of `InputDecoder`, as far as it does not pass through a
   recursive function; `RecordMeansTheSame` of `LineEditor`, which compares two runs of
   the dispatcher and would need a relation between them as its invariant.

Not modelled: completion's candidates, `leshnici`, the substrate libraries, `main` and the
vendored code, which are sequential transformations or wiring without state that outlives
a call; the fiber stacks (one mapping each); the framing and verification of history
records, which `HistoryStore` takes as whole, torn or foreign; termios, whose races are the
kernel's. `PROJECT.json` says for every part modelled partly what is left out.
