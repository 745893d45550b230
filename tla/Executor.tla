------------------------------ MODULE Executor ------------------------------
(***************************************************************************)
(* The control flow of tree_walking_executor: how `exit`, `return`,        *)
(* `break`, `continue` and an interrupt unwind, when `set -e` ends the     *)
(* shell, and where trap bodies run.                                       *)
(*                                                                         *)
(* The executor is a recursive walk of the syntax tree; `stack' is its C++ *)
(* stack, one frame per construct that is waiting for a node below it.     *)
(* The program is what it turns out to be: wherever the walk enters a node *)
(* the model picks a construct of the chosen world, and wherever a list    *)
(* has run a command it picks whether another follows.  Words, files and   *)
(* redirections are left out; a command is its exit status.                *)
(***************************************************************************)
EXTENDS Naturals, Sequences, FiniteSets

CONSTANTS
    Worlds,    \* sets of constructs; a behaviour is a program of one of them
    MaxDepth   \* bound on the frames that stand at once

Status == {0, 1}          \* what a command of the model reports
Interrupted == 130        \* 128 + SIGINT

(* The constructs a command list stands under, and the three that wait for  *)
(* one node.  A function's body, a brace group and a subshell are one list. *)
Loops == {"while", "until", "while_do", "until_do", "for"}
Lists == Loops \cup {"input", "brace", "function", "eval", "dot", "if", "case",
                     "subshell", "trap", "exit_trap"}
Operators == {"and", "or", "not"}
Processes == {"input", "subshell"}

(* Where a status is tested: _errexit_suppressed counts these frames. *)
Testing == {"if", "while", "until"} \cup Operators

ASSUME ExecutorAssumption == MaxDepth \in Nat \ {0}

VARIABLES
    stack,   \* the constructs being run, outermost first
    sh,      \* the executor's own fields and the shell state it reads
    at,      \* [pc, ret]: where the walk is, and the status just returned
    mode,    \* [interactive, errexit, world], chosen once
    watch,   \* history: the unwind under way, where it must stop, and with what
    prov     \* history: whether the status in hand was tested where it arose

vars == <<stack, sh, at, mode, watch, prov>>

Fresh == [flow |-> "normal", level |-> 0, exit |-> FALSE, ended |-> FALSE,
          last |-> 0, tested |-> FALSE, trap_ran |-> FALSE, entry |-> <<>>,
          handler |-> FALSE, on_exit |-> FALSE]

Acted == [tested |-> FALSE, blurred |-> FALSE]
Tested == [tested |-> TRUE, blurred |-> FALSE]

(* keep: a status held across a node; outer: fields put back afterwards. *)
Frame(kind) == [kind |-> kind, keep |-> 0, outer |-> <<>>, prov |-> Acted]

Running == {"node", "operand", "command"}
Point(pc, ret) == [pc |-> pc, ret |-> ret]

Depth == Len(stack)
Top == stack[Depth]
Popped == SubSeq(stack, 1, Depth - 1)
Becomes(frame) == Append(Popped, frame)

Highest(S) == CHOOSE i \in S : \A j \in S : j <= i
Above(kinds) == {i \in 1..Depth : stack[i].kind \in kinds}

(* The frame of the process being run, and of the innermost function call. *)
Process == Highest(Above(Processes))
Call == IF Above({"function"}) = {} THEN 0 ELSE Highest(Above({"function"}))

loop_depth == Cardinality({i \in Above(Loops) : i > Call})
errexit_fires ==
    sh.last # 0 /\ mode.errexit /\ Above(Testing) = {} /\ ~sh.tested
Unwinding == sh.flow # "normal" \/ sh.exit
ValueOr == IF sh.entry = <<>> THEN sh.last ELSE Head(sh.entry)

-----------------------------------------------------------------------------
(* The history of an unwind: its goal, the frame that must stop it, and the *)
(* status `exit' and `return' carry there.  It is not kept where the code   *)
(* does not unwind at once: an unwind that starts while another stands, and *)
(* a `return' in the condition of a loop.  A `!', a condition and a trap    *)
(* body answer with a status of their own, so none is promised through one. *)

Conditions == {"while", "until"}

Goes(how, goal, status) ==
    LET through(kinds) == \E i \in goal + 1..Depth : stack[i].kind \in kinds
        promised == /\ how \in {"exit", "return"}
                    /\ ~through({"not", "trap"} \cup Conditions)
        kept == /\ Unwinding => how = "interrupt"
                /\ how = "return" => ~through(Conditions)
    IN  watch' = IF ~kept THEN <<>>
                 ELSE <<[how |-> how, goal |-> goal,
                         want |-> IF promised THEN <<status>> ELSE <<>>]>>

(* The unwind is over once its goal has gone, or goes round again. *)
Arrived(depth, pc) ==
    /\ watch # <<>>
    /\ \/ depth < watch[1].goal
       \/ depth = watch[1].goal /\ pc \in Running
       \/ pc \in {"ready", "gone"}

Follows(depth, pc) ==
    watch' = IF Arrived(depth, pc) THEN <<>> ELSE watch

Step(frames, pc, ret) ==
    /\ stack' = frames
    /\ at' = Point(pc, ret)
    /\ mode' = mode

Init ==
    /\ stack = <<Frame("input")>>
    /\ sh = Fresh
    /\ at = Point("node", 0)
    /\ mode \in [interactive : BOOLEAN, errexit : BOOLEAN, world : Worlds]
    /\ watch = <<>>
    /\ prov = Acted

-----------------------------------------------------------------------------
(* run_node.  `_status_tested' is cleared on the way in. *)

Offers(construct) == at.pc \in Running /\ construct \in mode.world

(* A command that only reports a status: an external command, a builtin. *)
SimpleCommand ==
    /\ at.pc \in Running
    /\ \E status \in Status : Step(stack, "back", status)
    /\ sh' = [sh EXCEPT !.tested = FALSE]
    /\ prov' = Acted
    /\ UNCHANGED watch

(* `trap body USR1' and `trap body EXIT'. *)
SetTrap ==
    /\ at.pc \in Running
    /\ \/ "handler" \in mode.world /\ sh' = [sh EXCEPT !.tested = FALSE, !.handler = TRUE]
       \/ "on_exit" \in mode.world /\ sh' = [sh EXCEPT !.tested = FALSE, !.on_exit = TRUE]
    /\ Step(stack, "back", 0)
    /\ prov' = Acted
    /\ UNCHANGED watch

(* `exit [n]' *)
Exit ==
    /\ Offers("exit")
    /\ \E status \in Status \cup {ValueOr} :
          /\ Step(stack, "back", status)
          /\ Goes("exit", Process, status)
    /\ sh' = [sh EXCEPT !.tested = FALSE, !.exit = TRUE]
    /\ prov' = Acted

(* `return [n]', from the innermost function or dot script of this process, *)
(* and otherwise from the process.                                          *)
Return ==
    /\ Offers("return")
    /\ LET goal == Highest(Above(Processes \cup {"function", "dot"}))
       IN  \E status \in Status \cup {ValueOr} :
              /\ Step(stack, "back", status)
              /\ Goes("return", goal, status)
    /\ sh' = [sh EXCEPT !.tested = FALSE, !.flow = "return", !.level = 1]
    /\ prov' = Acted

(* `break [n]' and `continue [n]': nothing without a loop, the outermost    *)
(* loop when there are fewer than n, and out of a subshell whose loop is    *)
(* the parent's.                                                            *)
LoopGoal(level) ==
    LET mine == {i \in Above(Loops) : i > Call /\ i > Process}
        reached == {i \in mine : Cardinality({j \in mine : j >= i}) = level}
    IN  IF mine = {} \/ (reached = {} /\ loop_depth > Cardinality(mine))
        THEN Process
        ELSE IF reached # {} THEN Highest(reached)
        ELSE CHOOSE i \in mine : \A j \in mine : i <= j

Break ==
    /\ Offers("break")
    /\ Step(stack, "back", 0)
    /\ prov' = Acted
    /\ \E how \in {"break", "continue"}, level \in 1..2 :
          IF loop_depth = 0
          THEN sh' = [sh EXCEPT !.tested = FALSE] /\ UNCHANGED watch
          ELSE /\ sh' = [sh EXCEPT !.tested = FALSE, !.flow = how, !.level = level]
               /\ Goes(how, LoopGoal(level), 0)

(* A construct that begins with a list of commands; the arguments say what  *)
(* of a call changes hands.                                                 *)
Enters(frame, fields, pc) ==
    /\ Depth < MaxDepth
    /\ Step(Append(stack, frame), pc, 0)
    /\ sh' = fields
    /\ UNCHANGED <<watch, prov>>

EnterConstruct ==
    /\ at.pc \in Running
    /\ \E kind \in {"brace", "function", "eval", "dot", "if", "while", "until",
                    "for", "case"} \cap mode.world :
          Enters(Frame(kind), [sh EXCEPT !.tested = FALSE], "node")

(* The three with nothing to run: a `for' with no items, a `case' that      *)
(* matches none of its own or an item with no commands.                     *)
EmptyConstruct ==
    /\ at.pc \in Running
    /\ {"for", "case"} \cap mode.world # {}
    /\ Step(stack, "back", 0)
    /\ sh' = [sh EXCEPT !.tested = FALSE]
    /\ prov' = Acted
    /\ UNCHANGED watch

(* run_subshell forks: the child takes no trap and no trap's entry status.  *)
EnterSubshell ==
    /\ Offers("subshell")
    /\ Enters([Frame("subshell") EXCEPT !.outer = <<[sh EXCEPT !.tested = FALSE]>>],
              [sh EXCEPT !.tested = FALSE, !.entry = <<>>, !.handler = FALSE,
                         !.on_exit = FALSE, !.trap_ran = FALSE], "node")

(* An and-or list is left-deep, and `!' governs one pipeline. *)
EnterOperator ==
    \/ /\ at.pc = "node" /\ "and_or" \in mode.world
       /\ \E kind \in {"and", "or"} :
             Enters(Frame(kind), [sh EXCEPT !.tested = FALSE], "node")
    \/ /\ at.pc \in {"node", "operand"} /\ "not" \in mode.world
       /\ Enters(Frame("not"), [sh EXCEPT !.tested = FALSE], "command")

-----------------------------------------------------------------------------
(* A node has returned to the construct above it. *)

(* Gives `ret' to the frame below, the top one being done. *)
Returns(ret) ==
    /\ Step(Popped, "back", ret)
    /\ Follows(Depth - 1, "back")

Back(kinds) == at.pc = "back" /\ Top.kind \in kinds

run_negation ==
    /\ Back({"not"})
    /\ Returns(IF at.ret = 0 THEN 1 ELSE 0)
    /\ sh' = [sh EXCEPT !.tested = TRUE]
    /\ prov' = Tested

ShortCircuits == IF Top.kind = "and" THEN at.ret # 0 ELSE at.ret = 0

(* The left operand has run: an unwind passes the operator by. *)
run_and_or ==
    /\ Back({"and", "or"})
    /\ \/ /\ Unwinding \/ ShortCircuits
          /\ Returns(at.ret)
          /\ sh' = [sh EXCEPT !.last = at.ret, !.tested = ~Unwinding \/ @]
          /\ prov' = IF Unwinding THEN prov ELSE Tested
       \/ /\ ~Unwinding /\ ~ShortCircuits
          /\ Step(Popped, "operand", 0)
          /\ sh' = [sh EXCEPT !.last = at.ret]
          /\ Follows(Depth - 1, "operand")
          /\ UNCHANGED prov

(* run_command_list: the status becomes `$?', and the pending signals are   *)
(* looked at.                                                               *)
CommandDone ==
    /\ Back(Lists)
    /\ Step(stack, "traps", 0)
    /\ sh' = [sh EXCEPT !.last = at.ret]
    /\ UNCHANGED <<watch, prov>>

-----------------------------------------------------------------------------
(* run_pending_traps.  "caught" is "traps" with interrupted_by set.  A body *)
(* that runs while an unwind stands ends the watch on it.                   *)

TakeTrap ==
    /\ at.pc \in {"traps", "caught"}
    /\ sh.handler /\ Depth < MaxDepth
    /\ Step(Append(stack, [Frame("trap") EXCEPT
                               !.keep = IF at.pc = "caught" THEN Interrupted ELSE 0,
                               !.outer = <<[Fresh EXCEPT !.last = sh.last,
                                                         !.entry = sh.entry]>>,
                               !.prov = prov]),
            "node", 0)
    /\ sh' = [sh EXCEPT !.entry = <<sh.last>>]
    /\ watch' = <<>>
    /\ UNCHANGED prov

(* A terminal's SIGINT answered by the interactive default, which no        *)
(* subshell has.                                                            *)
TakeInterrupt ==
    /\ at.pc = "traps"
    /\ mode.interactive /\ "interrupt" \in mode.world
    /\ Above({"subshell"}) = {}
    /\ Step(stack, "caught", 0)
    /\ UNCHANGED <<sh, watch, prov>>

NoMoreSignals ==
    \/ /\ at.pc = "traps"
       /\ Step(stack, "tests", 0)
       /\ UNCHANGED <<sh, watch, prov>>
    \/ /\ at.pc = "caught"
       /\ Step(stack, "tests", 0)
       /\ sh' = [sh EXCEPT !.flow = "interrupted", !.last = Interrupted]
       /\ Goes("interrupt", 1, Interrupted)
       /\ UNCHANGED prov

(* The body is done: `$?' is what it was, unless the body exited. *)
TrapDone ==
    /\ at.pc = "left" /\ Top.kind = "trap"
    /\ Step(Popped, IF Top.keep = 0 THEN "traps" ELSE "caught", 0)
    /\ sh' = [sh EXCEPT !.entry = Top.outer[1].entry,
                        !.last = IF sh.exit THEN at.ret ELSE Top.outer[1].last]
    /\ prov' = [Top.prov EXCEPT !.blurred = TRUE]
    /\ Follows(Depth - 1, "traps")

-----------------------------------------------------------------------------
(* run_command_list after the traps: whether the next command runs. *)

Stops(fields) ==
    /\ Step(stack, IF Top.kind = "input" THEN "unit" ELSE "left", sh.last)
    /\ sh' = fields
    /\ UNCHANGED prov

(* An unwind travels out of every list but the shell's own input, which     *)
(* ends there.                                                              *)
ListUnwinds ==
    /\ at.pc = "tests" /\ Unwinding
    /\ Stops(IF Top.kind = "input" /\ ~sh.exit /\ sh.flow # "interrupted"
             THEN [sh EXCEPT !.flow = "normal", !.ended = TRUE]
             ELSE sh)
    /\ UNCHANGED watch

ListFails ==
    /\ at.pc = "tests" /\ ~Unwinding /\ errexit_fires
    /\ Stops([sh EXCEPT !.exit = TRUE])
    /\ Goes("exit", Process, sh.last)

ListGoesOn ==
    /\ at.pc = "tests" /\ ~Unwinding /\ ~errexit_fires
    /\ \/ Stops(sh)
       \/ Step(stack, "node", 0) /\ UNCHANGED <<sh, prov>>
    /\ UNCHANGED watch

(* run_input, between two complete commands. *)
UnitDone ==
    /\ at.pc = "unit"
    /\ \/ Step(stack, "left", at.ret) /\ Follows(Depth, "left")
       \/ /\ ~sh.exit /\ ~sh.ended
          /\ Step(stack, "node", 0) /\ Follows(Depth, "node")
    /\ sh' = IF sh.flow = "interrupted" THEN [sh EXCEPT !.flow = "normal"] ELSE sh
    /\ UNCHANGED prov

-----------------------------------------------------------------------------
(* The list of a construct has ended with at.ret. *)

Left(kinds) == at.pc = "left" /\ Top.kind \in kinds

(* The construct runs another list. *)
Continues(frame) ==
    /\ Step(Becomes(frame), "node", 0)
    /\ Follows(Depth, "node")

LeaveList ==
    /\ Left({"brace", "eval"})
    /\ Returns(at.ret)
    /\ UNCHANGED <<sh, prov>>

(* try_run_function: what stands is swallowed, but for an interrupt. *)
LeaveFunction ==
    /\ Left({"function"})
    /\ Returns(at.ret)
    /\ sh' = [sh EXCEPT !.flow = IF @ = "interrupted" THEN @ ELSE "normal",
                        !.tested = FALSE]
    /\ prov' = Acted

LeaveDot ==
    /\ Left({"dot"})
    /\ Returns(at.ret)
    /\ sh' = [sh EXCEPT !.flow = IF @ = "return" THEN "normal" ELSE @]
    /\ UNCHANGED prov

run_if ==
    /\ Left({"if"})
    /\ \/ Unwinding /\ Returns(at.ret)
       \/ ~Unwinding /\ at.ret = 0 /\ Continues(Frame("brace"))      \* then
       \/ ~Unwinding /\ at.ret # 0 /\ \/ Continues(Frame("if"))      \* elif
                                      \/ Continues(Frame("brace"))   \* else
                                      \/ Returns(0)
    /\ UNCHANGED <<sh, prov>>

Breaks == sh.flow \in {"break", "continue"}
(* mutant: one loop too many. *)
LastsAtZero == sh.level = 0 \/ loop_depth <= 1
Lasts == sh.level <= 1 \/ loop_depth <= 1
(* consume_loop_flow: the loop takes one level of a `break' or `continue'. *)
consume_loop_flow ==
    IF ~Breaks THEN sh
    ELSE [sh EXCEPT !.level = IF @ = 0 THEN 0 ELSE @ - 1,
                    !.flow = IF Lasts THEN "normal" ELSE @]

Do(kind) == IF kind = "while" THEN "while_do" ELSE "until_do"
Cond(kind) == IF kind = "while_do" THEN "while" ELSE "until"

(* run_loop after the condition.  A `return' is not looked for here. *)
LoopCondition ==
    /\ Left(Conditions)
    /\ LET goes_on == IF Top.kind = "while" THEN at.ret = 0 ELSE at.ret # 0
           stopped == sh.exit \/ Breaks \/ sh.flow = "interrupted"
       IN  \/ /\ stopped \/ ~goes_on
              /\ Returns(Top.keep)
              /\ sh' = IF sh.exit THEN sh ELSE consume_loop_flow
              /\ prov' = [Top.prov EXCEPT !.blurred = TRUE]
           \/ /\ ~stopped /\ goes_on
              /\ Continues([Top EXCEPT !.kind = Do(@)])
              /\ UNCHANGED <<sh, prov>>

(* mutant: a `return' is not looked for. *)
StopsForBreak == sh.exit \/ (sh.flow = "break" /\ Lasts)

(* run_loop and run_for after the body. *)
LoopStops == sh.exit \/ (sh.flow # "normal"
                         /\ ~(sh.flow = "continue" /\ Lasts))
LoopBody ==
    /\ Left({"while_do", "until_do", "for"})
    /\ sh' = IF sh.exit THEN sh ELSE consume_loop_flow
    /\ \/ LoopStops /\ Returns(at.ret)
       \/ ~LoopStops /\ Top.kind = "for" /\ (Returns(at.ret) \/ Continues(Top))
       \/ /\ ~LoopStops /\ Top.kind # "for"
          /\ Continues([Top EXCEPT !.kind = Cond(@), !.keep = at.ret, !.prov = prov])
    /\ UNCHANGED prov

(* run_case: an item closed by `;&' runs the next one, whatever stands. *)
LeaveItem ==
    /\ Left({"case"})
    /\ Returns(at.ret)
    /\ UNCHANGED <<sh, prov>>

FallThrough ==
    /\ Left({"case"}) /\ "fall_through" \in mode.world
    /\ \/ Step(stack, "node", 0)
       \/ Step(stack, "left", 0)
    /\ watch' = <<>>
    /\ UNCHANGED <<sh, prov>>

-----------------------------------------------------------------------------
(* The end of a process: the EXIT trap, once, and the status it leaves with.*)
(* An interactive shell keeps the trap for the end of the session.          *)

InputDone ==
    /\ Left({"input"})
    /\ Step(stack, IF mode.interactive THEN "ready" ELSE "finish", at.ret)
    /\ Follows(Depth, IF mode.interactive THEN "ready" ELSE "finish")
    /\ UNCHANGED <<sh, prov>>

SubshellDone ==
    /\ Left({"subshell"})
    /\ Step(stack, "finish", at.ret)
    /\ UNCHANGED <<sh, watch, prov>>

(* session::execute: the next line, unless the shell was asked to exit. *)
ReadInput ==
    /\ at.pc = "ready" /\ ~sh.exit
    /\ Step(stack, "node", 0)
    /\ UNCHANGED <<sh, watch, prov>>

FinishSession ==
    /\ at.pc = "ready"
    /\ Step(stack, "finish", sh.last)
    /\ UNCHANGED <<sh, watch, prov>>

(* run_exit_trap lowers `_exit_requested' for the body, and nothing else. *)
RunExitTrap ==
    /\ at.pc = "finish" /\ ~sh.trap_ran /\ sh.on_exit
    /\ Step(Append(stack, [Frame("exit_trap") EXCEPT
                               !.keep = at.ret,
                               !.outer = <<[Fresh EXCEPT !.exit = sh.exit,
                                                         !.entry = sh.entry]>>]),
            "node", 0)
    /\ sh' = [sh EXCEPT !.trap_ran = TRUE, !.exit = FALSE, !.entry = <<sh.last>>]
    /\ watch' = <<>>
    /\ UNCHANGED prov

ExitTrapDone ==
    /\ Left({"exit_trap"})
    /\ Step(Popped, "finish", IF sh.exit THEN at.ret ELSE Top.keep)
    /\ sh' = [sh EXCEPT !.entry = Top.outer[1].entry,
                        !.exit = sh.exit \/ Top.outer[1].exit,
                        !.last = IF sh.exit THEN at.ret ELSE @]
    /\ Follows(Depth - 1, "finish")
    /\ UNCHANGED prov

(* _exit: the parent of a subshell waits for it, and is as it was. *)
ProcessEnds ==
    /\ at.pc = "finish" /\ (sh.trap_ran \/ ~sh.on_exit)
    /\ \/ /\ Top.kind = "subshell"
          /\ Returns(at.ret)
          /\ sh' = Top.outer[1]
          /\ prov' = Acted
       \/ /\ Top.kind = "input"
          /\ Step(stack, "gone", at.ret)
          /\ sh' = Fresh /\ prov' = Acted
          /\ Follows(Depth, "gone")

Next ==
    \/ SimpleCommand \/ SetTrap \/ Exit \/ Return \/ Break
    \/ EnterConstruct \/ EmptyConstruct \/ EnterSubshell \/ EnterOperator
    \/ run_negation \/ run_and_or \/ CommandDone
    \/ TakeTrap \/ TakeInterrupt \/ NoMoreSignals \/ TrapDone
    \/ ListUnwinds \/ ListFails \/ ListGoesOn \/ UnitDone
    \/ LeaveList \/ LeaveFunction \/ LeaveDot \/ run_if
    \/ LoopCondition \/ LoopBody \/ LeaveItem \/ FallThrough
    \/ InputDone \/ SubshellDone \/ ReadInput \/ FinishSession
    \/ RunExitTrap \/ ExitTrapDone \/ ProcessEnds
    \/ at.pc = "gone" /\ UNCHANGED vars

Spec == Init /\ [][Next]_vars

-----------------------------------------------------------------------------
(* An unwind reaches its goal and nothing else: while it is under way no    *)
(* command starts, it stands above its goal at every step, and `exit' and   *)
(* `return' bring the status they were given.                               *)
UnwindIsExact ==
    watch # <<>> =>
        /\ at.pc \notin Running
        /\ Depth > watch[1].goal => Unwinding
        /\ (at.pc = "left" /\ Depth = watch[1].goal /\ watch[1].want # <<>>) =>
              at.ret = watch[1].want[1]

(* `set -e' ends the shell for a status that was acted on and spares one    *)
(* that was tested, whatever constructs it has travelled out of since.      *)
Judged == /\ at.pc = "tests" /\ ~Unwinding /\ sh.last # 0
          /\ mode.errexit /\ Above(Testing) = {}
ErrexitIsExact == (Judged /\ ~prov.blurred) => (errexit_fires <=> ~prov.tested)

(* Control goes where an unwind, or a status, sends it and nowhere else.    *)
ControlIsExact == UnwindIsExact /\ ErrexitIsExact

StartsExitTrap == Len(stack') > Depth /\ stack'[Depth + 1].kind = "exit_trap"

(* What an unwind leaves behind (consume_loop_flow, try_run_function,       *)
(* run_dot_script, run_command_list): where it ends it is over, so nothing  *)
(* below its goal sees any of it, and a `continue' goes round unless its    *)
(* `for' was at the last item.  And the EXIT trap of the shell, however its *)
(* input came to an end, runs whole: nothing stands to cut it to its first  *)
(* command.                                                                 *)
UnwindLeavesNothingStanding ==
    [][ /\ Arrived(Len(stack'), at'.pc) =>
              LET w == watch[1]
              IN  /\ (~sh'.exit /\ stack[w.goal].kind # "subshell") => sh'.flow = "normal"
                  /\ (w.how = "continue" /\ Len(stack') < w.goal) =>
                        stack[w.goal].kind \in {"subshell", "for"} \cup Conditions
        /\ (StartsExitTrap /\ Top.kind = "input" /\ (watch # <<>> \/ ~Unwinding)) =>
              sh'.flow = "normal" /\ ~sh'.exit ]_vars
=============================================================================
