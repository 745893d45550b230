--------------------------- MODULE MCHistoryStore ---------------------------
(* Small instances of HistoryStore: shells and commands are model values   *)
(* that differ in nothing but their names.                                 *)
EXTENDS HistoryStore, TLC

CONSTANTS s1, s2, ls, cd, pw

(* Shells are alike, and so are the commands that are not secret. *)
Alike == Permutations(Shell) \cup Permutations(Command \ Secret)

(* Two shells, a vacuum at every append, and one of them dies. *)
Pair ==
  [shells |-> 2, commands |-> {ls, cd}, kinds |-> {"absent", "ours"},
   faults |-> {}, frequency |-> 1, adds |-> 3, crashes |-> 1]

(* One shell at a time, over everything that may be at the path. *)
Alone ==
  [shells |-> 1, commands |-> {ls, cd, pw},
   kinds |-> {"absent", "ours", "foreign", "corrupt"},
   faults |-> {"failed write"}, frequency |-> 2, adds |-> 3,
   crashes |-> 2]

(* Two shells, and a later lesh that replaces tier 1 by its own. *)
Upgraded == [Pair EXCEPT !.kinds = {"absent", "ours", "foreign"},
                         !.faults = {"foreign file"}, !.adds = 2]

(* Two shells on a filesystem that locks late or not at all. *)
Lockless == [Pair EXCEPT !.faults = {"slow lock", "refused lock"},
                         !.crashes = 0]

Safety == {Pair, Alone, Upgraded, Lockless}

(* Two shells whose tier 1 is good, for what must come about. *)
Calm == {[Pair EXCEPT !.kinds = {"ours"}, !.adds = 2, !.crashes = 0]}
=============================================================================
