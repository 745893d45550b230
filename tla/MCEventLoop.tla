---------------------------- MODULE MCEventLoop ----------------------------
(* Small instances of EventLoop: the reactors are model values that differ *)
(* in nothing but their names.                                             *)
EXTENDS EventLoop, TLC

CONSTANTS highlight, suggest, execution

Alike == Permutations(Lane)
=============================================================================
