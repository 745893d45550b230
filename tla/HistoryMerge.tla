---------------------------- MODULE HistoryMerge ----------------------------
(***************************************************************************)
(* merge_set of ui/history/vacuum.cpp: what a vacuum makes of the records  *)
(* of the old blob, the log and the session, fed oldest source first.  One *)
(* entry for each command line, a cap, and newest first on the way out.    *)
(*                                                                         *)
(* A record is its command line, its timestamp and the run it came from;   *)
(* the run stands for the cwd, the exit code and the session id, which are *)
(* carried along and never looked at.                                      *)
(***************************************************************************)
EXTENDS Integers, FiniteSets, SequencesExt

CONSTANTS
  Command,    \* command lines; the empty one is refused and is not among them
  MaxWhen,    \* bound: timestamps are 0..MaxWhen
  MaxRecords  \* bound: records fed to one merge

Record == [cmd : Command, when : 0..MaxWhen, run : 1..MaxRecords]

VARIABLES
  entries,  \* _entries, in the order of first insertion: [what, seq]
  seq,      \* _seq
  fed       \* history: every record given to add, in order

vars == <<entries, seq, fed>>

Init == entries = <<>> /\ seq = 0 /\ fed = <<>>

(* Positions of the entry for c: the lookup in _index. *)
Of(c) == {i \in DOMAIN entries : entries[i].what.cmd = c}

(* A record meets the entry of its command: it is promoted in any case,    *)
(* and replaces the record, all of it, unless it is older.                 *)
Meet(old, one, n) ==
  [what |-> IF one.when < old.what.when THEN old.what ELSE one, seq |-> n]

add(one) ==
  /\ Len(fed) < MaxRecords
  /\ seq' = seq + 1
  /\ fed' = Append(fed, one)
  /\ IF Of(one.cmd) = {}
     THEN entries' = Append(entries, [what |-> one, seq |-> seq + 1])
     ELSE entries' = [i \in DOMAIN entries |->
                        IF i \in Of(one.cmd) THEN Meet(entries[i], one, seq + 1)
                                             ELSE entries[i]]

Next ==
  \E one \in Record : one.run = Len(fed) + 1 /\ add(one)

Spec == Init /\ [][Next]_vars
-----------------------------------------------------------------------------
(* finish(cap) *)

(* Seeded fault: the cap evicts by timestamp. *)
SurvivorsByTime(cap) ==
  {e \in ToSet(entries) :
     Cardinality({f \in ToSet(entries) : f.what.when > e.what.when}) < cap}

(* nth_element by seq, downwards, and a resize to cap. *)
Survivors(cap) ==
  {e \in ToSet(entries) :
     Cardinality({f \in ToSet(entries) : f.seq > e.seq}) < cap}

Before(e, f) ==
  e.what.when > f.what.when \/ (e.what.when = f.what.when /\ e.seq > f.seq)

finish(cap) ==
  LET sorted == SetToSortSeq(Survivors(cap), Before)
  IN  [i \in DOMAIN sorted |-> sorted[i].what]
-----------------------------------------------------------------------------
(* Properties.  They speak of fed only, and of what finish returns. *)

Fed == ToSet(fed)
Commands(records) == {r.cmd : r \in records}

(* The position at which c was last fed: a repeat is a fresh sighting. *)
LastSeen(c) == Max({i \in DOMAIN fed : fed[i].cmd = c})

(* The newest run of c: no later timestamp, and of equal ones the last. *)
Newest(c) ==
  CHOOSE r \in Fed :
    /\ r.cmd = c
    /\ \A q \in Fed : q.cmd = c => \/ q.when < r.when
                                   \/ q.when = r.when /\ q.run <= r.run

(* The records come out once for each command, whole, and the newest run:  *)
(* never the time of one run beside the directory of another (the comment  *)
(* in merge_set::add).                                                     *)
NewestRunIsKept ==
  LET out == finish(Len(fed))
  IN  /\ Len(out) = Cardinality(Commands(Fed))
      /\ \A c \in Commands(Fed) : Newest(c) \in ToSet(out)

(* The cap keeps the commands seen last, whatever their timestamps say.    *)
CapKeepsTheLastSeen ==
  \A cap \in 0..Len(fed) :
    Commands(ToSet(finish(cap))) =
      {c \in Commands(Fed) :
         Cardinality({d \in Commands(Fed) : LastSeen(d) > LastSeen(c)}) < cap}

(* When the sources were fed in the order of time, recall offers the same  *)
(* list before and after a vacuum: the walk of the sources, newest first   *)
(* and each command once, is the order of the blob.  (The tie-break in     *)
(* finish is there for that; one second of resolution makes ties ordinary.)*)
VacuumKeepsRecallOrder ==
  (\A i, j \in DOMAIN fed : i < j => fed[i].when <= fed[j].when)
  => LET out == finish(Len(fed))
     IN  \A i, j \in DOMAIN out :
           i < j => LastSeen(out[i].cmd) > LastSeen(out[j].cmd)

(* What a vacuum may leave out and what it may not, and in which order.     *)
MergeKeepsWhatRecallNeeds ==
  NewestRunIsKept /\ CapKeepsTheLastSeen /\ VacuumKeepsRecallOrder
=============================================================================
