---------------------------- MODULE MCControlFlow ----------------------------
(* Where commands go and what signals find: an execution is of Executor or   *)
(* of SignalDispositions, which share nothing.                               *)
EXTENDS Executor, SignalDispositions

(* One world per question; their union is what the run explores. *)
MCWorlds == {
    {"exit", "return", "break", "function", "while", "for", "subshell"},
    {"exit", "return", "dot", "eval", "brace", "function", "and_or", "not", "if", "subshell"},
    {"return", "break", "while", "until", "case", "fall_through"},
    {"exit", "return", "function", "while", "handler", "on_exit"},
    {"exit", "return", "function", "while", "interrupt", "on_exit"},
    {"exit", "function", "handler", "interrupt"},
    {"break", "for", "handler", "and_or"},
    {"exit", "return", "for", "subshell", "not", "on_exit"} }

VARIABLE part
all == <<part, vars, signalVars>>

Together ==
  /\ Init /\ SignalInit /\ part \in {"control", "signals"}
  /\ part = "control" => sig = "INT" /\ root = "script" /\ ~proc.entry
  /\ part = "signals" => mode.world = (CHOOSE w \in Worlds : TRUE) /\ ~mode.interactive /\ ~mode.errexit
Commands == part = "control" /\ Next /\ UNCHANGED <<part, signalVars>>
Dispositions == part = "signals" /\ SignalNext /\ UNCHANGED <<part, vars>>
Both == Together /\ [][Commands \/ Dispositions]_all
=============================================================================
