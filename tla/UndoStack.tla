------------------------------ MODULE UndoStack -----------------------------
(***************************************************************************)
(* What undo promises, whatever it keeps to do so                          *)
(* (src/src/leshper/undo.h): the texts the line has had, with what was     *)
(* typed in one run taken together; back through them, forward again, and  *)
(* nothing forward of a new change.                                        *)
(***************************************************************************)
EXTENDS Integers, SequencesExt

VARIABLES past, text, future

(* A change that can be undone alone *)
Change == /\ past' = Append(past, text)
          /\ future' = <<>>

(* More typed: undone together with what was typed just before *)
Amend == /\ past # <<>>
         /\ UNCHANGED past
         /\ Len(text') > Len(text)
         /\ future' = <<>>

Undo == /\ past # <<>>
        /\ past' = Front(past)
        /\ text' = Last(past)
        /\ future' = Append(future, text)

Redo == /\ future # <<>>
        /\ past' = Append(past, text)
        /\ text' = Last(future)
        /\ future' = Front(future)

Init == past = <<>> /\ future = <<>>
Next == Change \/ Amend \/ Undo \/ Redo
Spec == Init /\ [][Next]_<<past, text, future>>
=============================================================================
