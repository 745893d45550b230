------------------------------ MODULE Renderer ------------------------------
(* What is on the terminal while lines are edited: the blitter                 *)
(* (leshper/blit.cpp) and the part of the loop that decides how a frame is     *)
(* painted (ui/loop.cpp: render, frame_top_above_cursor, the accept and the    *)
(* cancel of a line, a resize).  The bytes a paint would write are applied to  *)
(* the terminal as they are made.                                              *)
(*                                                                             *)
(* A world fixes the terminal (width, height, the lines already on it, whether *)
(* it reflows), the prompt, what the edited line is made of (glyphs, up to        *)
(* longest of them, and marks), the widths the window may change to, what a    *)
(* command prints and how many lines are read.                                 *)
EXTENDS FrameLayout, FiniteSets

CONSTANT Worlds     \* the situations examined

VARIABLES world,
          term,        \* the terminal
          columns,     \* the width the loop knows
          previous,    \* the surface last painted, NoFrame after what is not ours
          previous_input, \* what it was laid out from
          reads,       \* lines read so far
          printed,     \* cells of output printed so far
          littered,    \* a line was left with rows of its frame under the cursor
          stale        \* the window changed since the frame was painted
vars == <<world, term, columns, previous, previous_input, reads, printed, littered, stale>>

-----------------------------------------------------------------------------
(* The emitter: where it believes the cursor is and what pen is in force.      *)

Emitter(t, start, width) ==
  [term |-> t, row |-> start.row, column |-> start.column, columns |-> width, pending |-> FALSE, pen |-> {}]

ResetPen(e) == IF e.pen = {} THEN e ELSE [e EXCEPT !.pen = {}, !.term = Select(@, {"bold", "dim", "bg"}, {})]

\* A return first whenever the column is not known to be zero: it is what
\* settles a wrap left pending.
MoveTo(e, row, column) ==
  IF e.row = row /\ e.column = column /\ ~e.pending THEN e
  ELSE LET home == IF e.column # 0 \/ e.pending THEN CarriageReturn(e.term) ELSE e.term
           there == IF row < e.row THEN Up(home, e.row - row)
                    ELSE IF row > e.row THEN Down(home, row - e.row) ELSE home
       IN [e EXCEPT !.row = row, !.column = column, !.pending = FALSE,
                    !.term = IF column > 0 THEN Right(there, column) ELSE there]

\* An attribute that goes off takes a reset: its off-switch may be another's too.
SetPen(e, want) ==
  IF want = e.pen THEN e
  ELSE LET base == IF (e.pen \ want) \ {"bg"} # {} THEN ResetPen(e) ELSE e
       IN IF want = base.pen THEN base
          ELSE [base EXCEPT !.pen = want,
                            !.term = Select(@, (base.pen \ want) \cap {"bg"}, want \ base.pen)]

Put(e, one) ==
  LET inked == SetPen(e, one.pen)
      column == e.column + Columns(one.glyph)
  IN [inked EXCEPT !.term = Write(@, one.glyph),
                   !.column = IF column >= e.columns THEN e.columns ELSE column,
                   !.pending = column >= e.columns \/ @]

\* Emits nothing: the next glyph is the move.
WrapThrough(e, row) == [e EXCEPT !.row = row, !.column = 0, !.pending = FALSE]

\* With a wrap pending the erase would take the last column with it.
ClearToEndOfLine(e) ==
  IF e.pending THEN e ELSE LET plain == ResetPen(e) IN [plain EXCEPT !.term = EraseLine(@)]
ClearToEndOfScreen(e) ==
  LET home == IF e.pending THEN [e EXCEPT !.term = CarriageReturn(@), !.column = 0, !.pending = FALSE] ELSE e
      plain == ResetPen(home)
  IN [plain EXCEPT !.term = EraseBelow(@)]

MoveToFrameTop(e, rows_above) ==
  [e EXCEPT !.term = Up(CarriageReturn(@), rows_above), !.row = 0, !.column = 0, !.pending = FALSE]

-----------------------------------------------------------------------------
(* One row of the diff or of a repaint.                                        *)

\* The columns to write, from 1: the whole row of a repaint, else from the
\* first difference to the last, backed off the second half of a wide glyph.
FirstDifference(old, new) ==
  LET differ == {k \in DOMAIN new : old[k] # new[k]}
      least == CHOOSE k \in differ : \A j \in differ : k <= j
      heads == {k \in 1..least : new[k].glyph # Half /\ old[k].glyph # Half}
  IN CHOOSE k \in heads : \A j \in heads : j <= k
LastDifference(old, new) ==
  LET differ == {k \in DOMAIN new : old[k] # new[k]} IN CHOOSE k \in differ : \A j \in differ : j <= k

\* Where the blanks at the end of a row begin.
BlankTail(cells) ==
  LET inked == {k \in DOMAIN cells : cells[k] # Blank}
  IN IF inked = {} THEN 1 ELSE (CHOOSE k \in inked : \A j \in inked : j <= k) + 1

\* The cells from one column to another; the second half of a wide glyph is
\* covered by the first.
PutCells(e, cells, row, from, to) ==
  FoldLeft(LAMBDA at, k : IF cells[k].glyph = Half THEN at ELSE Put(MoveTo(at, row, k - 1), cells[k]),
           e, [k \in 1..(IF to < from THEN 0 ELSE to - from + 1) |-> from + k - 1])

\* The row below continues this one through the wrap.
WrappedIntoByNext(desired, row, repaint) == repaint /\ row + 1 < desired.rows /\ ~desired.hard[row + 2]

\* The last column to write: all of a row that must wrap, no blanks at the end
\* of another where an erase says them.
EndOfRun(first, last, tail, wraps, columns_) ==
  IF wraps THEN columns_ ELSE IF tail > last THEN last ELSE IF tail < first THEN first - 1 ELSE tail - 1

ThroughTheWrap(e, desired, row, first) ==
  row > 0 /\ first = 1 /\ ~desired.hard[row + 1] /\ e.pending /\ e.row = row - 1

\* Writing through the wrap owes the terminal a glyph.
WriteRun(e, desired, row, first, end, clear_tail) ==
  LET through == ThroughTheWrap(e, desired, row, first)
      reached == IF through THEN WrapThrough(e, row) ELSE MoveTo(e, row, first - 1)
      written == PutCells(reached, desired.cells[row + 1], row, first,
                          IF through /\ end < first THEN first ELSE end)
  IN IF clear_tail THEN ClearToEndOfLine(written) ELSE written

EmitTail(e, desired, row, first, last, tail, wraps) ==
  WriteRun(e, desired, row, first, EndOfRun(first, last, tail, wraps, desired.columns), tail <= last /\ ~wraps)
EmitSpan(e, desired, row, repaint, first, last) ==
  EmitTail(e, desired, row, first, last, BlankTail(desired.cells[row + 1]),
           WrappedIntoByNext(desired, row, repaint))

EmitRow(e, old, desired, row, repaint) ==
  IF repaint THEN EmitSpan(e, desired, row, TRUE, 1, desired.columns)
  ELSE LET was == old.cells[row + 1]
           new == desired.cells[row + 1]
       IN IF was = new THEN e
          ELSE EmitSpan(e, desired, row, FALSE, FirstDifference(was, new), LastDifference(was, new))

\* can_diff, and the emitter's own test of it.
CanDiff(old, desired) == old.columns = desired.columns /\ old.rows = desired.rows

Finish(e, desired) == MoveTo(ResetPen(e), desired.cursor.row, desired.cursor.column).term

\* update, paint and paint_from.
Update(t, old, desired) ==
  Finish(FoldLeft(LAMBDA e, row : EmitRow(e, old, desired, row - 1, FALSE),
                  Emitter(t, old.cursor, desired.columns), [k \in 1..desired.rows |-> k]), desired)
PaintRows(e, desired) ==
  Finish(FoldLeft(LAMBDA at, row : EmitRow(at, NoFrame, desired, row - 1, TRUE),
                  e, [k \in 1..desired.rows |-> k]), desired)
Origin == [row |-> 0, column |-> 0]
PaintFrom(t, rows_above, desired) ==
  PaintRows(ClearToEndOfScreen(MoveToFrameTop(Emitter(t, Origin, desired.columns), rows_above)), desired)
Painted(t, desired) == PaintRows(Emitter(t, Origin, desired.columns), desired)

-----------------------------------------------------------------------------
(* The loop.                                                                   *)

Edit(buffer, cursor, marks) ==
  [buffer |-> buffer, cursor |-> cursor,
   texts |-> IF marks.ghost = 0 THEN <<>>
             ELSE <<[at |-> Len(buffer), glyphs |-> SubSeq(<<"s", "s", "s">>, 1, marks.ghost), pen |-> {"dim", "bg"}]>>,
   span |-> [from |-> cursor - 1, to |-> cursor, pen |-> marks.pen],
   pager |-> marks.pager]
Empty == Edit(<<>>, 0, Plain)

\* input_for: the editor's state, and the prompts of the shell.
InputFor(edit, width) ==
  [prompt |-> world.prompt, continuation |-> world.continuation, buffer |-> edit.buffer,
   cursor |-> edit.cursor, texts |-> edit.texts, span |-> edit.span, pager |-> edit.pager,
   columns |-> width, rows |-> world.height]
\* The marks and the pager are not part of what is remembered of a frame.
Remembered(in) == [in EXCEPT !.texts = <<>>, !.span = Empty.span, !.pager = 0]

\* How far up the frame on the screen begins: where it was, or where the same
\* input falls at the width the terminal has now.
\* mutant: the row the frame had before the window changed.
FrameTopAsPainted(old, was, width) == old.cursor.row
FrameTopAboveCursor(old, was, width) ==
  IF ~world.reflow THEN old.cursor.row
  ELSE LayOut([Remembered(was) EXCEPT !.columns = width]).cursor.row

\* render, on the terminal t with the frame old on it.
Rendered(t, old, was, desired) ==
  IF old = NoFrame THEN Painted(t, desired)
  ELSE IF CanDiff(old, desired) THEN Update(t, old, desired)
  ELSE PaintFrom(t, FrameTopAboveCursor(old, was, desired.columns), desired)

\* The frame made of an edit, painted over old on t.
Show(t, old, edit, width) ==
  LET in == InputFor(edit, width)
      desired == LayOut(in)
  IN /\ term' = Rendered(t, old, previous_input, desired)
     /\ previous' = desired
     /\ previous_input' = in
     /\ stale' = FALSE

\* The loop's turn after keystrokes, or after a reactor answered: any state of
\* the editor the world holds.
Render ==
  /\ reads > 0 /\ columns = term.width
  /\ \E count \in 0..world.longest : \E buffer \in [1..count -> world.glyphs], cursor \in 0..count, marks \in world.marks :
       Show(term, previous, Edit(buffer, cursor, marks), columns)
  /\ UNCHANGED <<world, columns, reads, printed, littered>>

\* The window changes width ...
Resize ==
  /\ reads > 0
  /\ stale => world.reflow
  /\ \E width \in world.widths \ {term.width} :
       term' = IF world.reflow THEN Reflow(term, width) ELSE Clip(term, width)
  /\ stale' = TRUE
  /\ UNCHANGED <<world, columns, previous, previous_input, reads, printed, littered>>
\* ... and the loop is told; the frame that follows is a repaint.
NoticeResize ==
  /\ columns # term.width
  /\ columns' = term.width
  /\ UNCHANGED <<world, term, previous, previous_input, reads, printed, littered, stale>>

Line(t, glyphs) == NewLine(FoldLeft(LAMBDA at, glyph : Write(at, glyph), t, glyphs))

\* The rest of the frame under the cursor stays where it is.
Litter == littered \/ (previous # NoFrame /\ previous.cursor.row + 1 < previous.rows)

\* Enter: a fresh row, the command's output, the size asked for again, and the
\* first frame of the next read.  The text it takes may never have been drawn.
AcceptCurrentLine ==
  /\ columns = term.width /\ previous # NoFrame /\ reads < world.reads
  /\ \E lines \in world.outputs :
       LET fresh == FoldLeft(LAMBDA at, glyphs : Line(at, glyphs), NewLine(term), lines)
       IN /\ Show(fresh, NoFrame, Empty, columns)
          /\ printed' = printed + Len(FlattenSeq(lines))
  /\ reads' = reads + 1 /\ littered' = Litter
  /\ UNCHANGED <<world, columns>>

\* ^C: the mark where the cursor is, and a fresh prompt under it.
CancelLine ==
  /\ columns = term.width /\ previous # NoFrame /\ reads < world.reads
  /\ Show(Line(term, <<"^", "C">>), NoFrame, Empty, columns)
  /\ reads' = reads + 1 /\ littered' = Litter
  /\ UNCHANGED <<world, columns, printed>>

\* The first frame of a read, where the shell has left the cursor.
EnterRead ==
  /\ reads = 0
  /\ Show(term, NoFrame, Empty, columns)
  /\ reads' = 1
  /\ UNCHANGED <<world, columns, printed, littered>>

Init ==
  /\ world \in Worlds
  /\ term = [width |-> world.width, height |-> world.height,
             lines |-> PadTo([k \in 1..world.above |->
                                [joined |-> FALSE,
                                 cells |-> <<Cell(Output, {})>> \o EmptyCells(world.width - 1, {})]],
                             IF world.height > world.above THEN world.height ELSE world.above + 1,
                             world.width),
             row |-> world.above + 1, column |-> 0, pending |-> FALSE, pen |-> {}]
  /\ columns = world.width
  /\ previous = NoFrame
  /\ previous_input = InputFor(Empty, columns)
  /\ reads = 0
  /\ printed = world.above
  /\ littered = FALSE
  /\ stale = FALSE

Next ==
  \/ EnterRead
  \/ Render
  \/ Resize
  \/ NoticeResize
  \/ AcceptCurrentLine
  \/ CancelLine
Spec == Init /\ [][Next]_vars

-----------------------------------------------------------------------------
(* Properties.                                                                 *)

Looks(one) == IF one.glyph = Erased THEN Cell(" ", one.pen) ELSE one
CountOf(glyph) ==
  Cardinality({<<r, k>> \in (1..Len(term.lines)) \X (1..term.width) : term.lines[r].cells[k].glyph = glyph})

\* What the blitter promises (blit.h: on exit the terminal shows exactly
\* desired, its cursor is at desired.cursor() and its pen is default again),
\* after every frame however it was painted - by a difference, over the frame
\* it replaces, or at the start of a read - and nothing of an older frame is
\* left under it.
ScreenShowsTheFrame ==
  previous # NoFrame /\ ~stale =>
    LET top == term.row - previous.cursor.row IN
    /\ top >= ScreenTop(term) /\ top + previous.rows - 1 <= Len(term.lines)
    /\ \A r \in 1..previous.rows, k \in 1..term.width :
         Looks(term.lines[top + r - 1].cells[k]) = previous.cells[r][k]
    /\ ~littered => \A r \in (top + previous.rows)..Len(term.lines), k \in 1..term.width :
         Looks(term.lines[r].cells[k]) = Blank
    /\ term.column = previous.cursor.column /\ ~term.pending
    /\ term.pen = {}

\* Painting, erasing and resizing take nothing from what commands printed above
\* the edit line, and leave no more than one prompt for every line read (none
\* where a window of a tall frame did not show it): a repaint replaces its
\* frame, it does not append one (blit.cpp on #185).
OutputStandsAndPromptsDoNotPileUp ==
  /\ CountOf(Output) = printed
  /\ CountOf(Prompting) <= reads
=============================================================================
