---------------------------- MODULE FrameLayout ----------------------------
(* From the edited line to a grid of cells: leshper/layout.cpp with the part   *)
(* of leshper/surface.cpp it paints through and the row budget of              *)
(* leshper/pager.cpp.                                                          *)
(*                                                                             *)
(* A picture asked for is a record in                                          *)
(*   [prompt, continuation, buffer, cursor, texts, span, pager, columns, rows] *)
(* where prompt and continuation are sequences of cells (glyph and pen),       *)
(* buffer a sequence of glyphs, cursor an offset into it, texts the virtual    *)
(* texts [at, glyphs, pen] in the order of their offsets, span one decoration  *)
(* [from, to, pen] and pager the rows the completion pager would like.         *)
(* Clusters of no width and controls are left out; a pager row is one cell.    *)
EXTENDS Integers, SequencesExt

-----------------------------------------------------------------------------
(* The terminal on the far side of the blitter: a screen over a scrollback,    *)
(* with the deferred wrap every terminal of the VT family has.  None of it is  *)
(* in the repository; it is modelled from what the headers of leshper/blit.h,  *)
(* the emitter's comments and ui/loop.h (assume_reflow) say a terminal does    *)
(* with the few sequences the blitter writes.                                  *)
(*                                                                             *)
(* A terminal is [width, height, lines, row, column, pending, pen]: lines is   *)
(* the scrollback and the screen, each [cells, joined]; joined says the line   *)
(* continues the one above through a wrap.  The cursor is at row (an index     *)
(* into lines) and column (from 0); pending: the glyph just written filled the *)
(* last column and the next one wraps.                                         *)
Erased == "erased"
Half == "half"          \* the second column of a wide glyph
Wide == "W"
Columns(glyph) == IF glyph = Wide THEN 2 ELSE 1

Cell(glyph, pen) == [glyph |-> glyph, pen |-> pen]
\* What an erase leaves: the background in force, and nothing else of the pen.
ErasedBy(pen) == Cell(Erased, pen \cap {"bg"})
EmptyCells(width, pen) == <<>> \o [k \in 1..width |-> ErasedBy(pen)]   \* a tuple: TLC evaluates it once
EmptyLine(width, pen) == [cells |-> EmptyCells(width, pen), joined |-> FALSE]

PadTo(lines, count, width) ==
  lines \o [k \in 1..(IF Len(lines) < count THEN count - Len(lines) ELSE 0) |-> EmptyLine(width, {})]

\* The first line of the screen, everything before it having scrolled away.
ScreenTop(t) == Len(t.lines) - t.height + 1

CarriageReturn(t) == [t EXCEPT !.column = 0, !.pending = FALSE]
Up(t, by) == [t EXCEPT !.row = IF @ - by < ScreenTop(t) THEN ScreenTop(t) ELSE @ - by]
\* ESC[B stops at the last line of the screen: only a line feed scrolls.
Down(t, by) == [t EXCEPT !.row = IF @ + by > Len(t.lines) THEN Len(t.lines) ELSE @ + by]
Right(t, by) == [t EXCEPT !.column = IF @ + by > t.width - 1 THEN t.width - 1 ELSE @ + by]

LineFeed(t) ==
  [t EXCEPT !.lines = IF t.row = Len(@) THEN Append(@, EmptyLine(t.width, t.pen)) ELSE @,
            !.row = @ + 1]
NewLine(t) == LineFeed(CarriageReturn(t))

WrapLine(t) ==
  LET next == LineFeed(t) IN
  [next EXCEPT !.lines[next.row].joined = TRUE, !.column = 0, !.pending = FALSE]

\* Overwriting half of a wide glyph leaves the other half blank.
Unhalved(cells, first, after) ==
  [k \in DOMAIN cells |->
     IF (k = first - 1 /\ cells[first].glyph = Half) \/ (k = after /\ cells[k].glyph = Half) THEN ErasedBy({})
     ELSE cells[k]]
Drawn(cells, first, glyph, pen) ==
  SubSeq(cells, 1, first - 1)
    \o (IF glyph = Wide THEN <<Cell(glyph, pen), Cell(Half, pen)>> ELSE <<Cell(glyph, pen)>>)
    \o SubSeq(cells, first + Columns(glyph), Len(cells))
Overwrite(t, glyph, column) ==
  [t EXCEPT !.lines[t.row].cells = Drawn(<<>> \o Unhalved(@, t.column + 1, column + 1), t.column + 1, glyph, t.pen),
            !.pending = column >= t.width,
            !.column = IF column >= t.width THEN t.width - 1 ELSE column]
\* A glyph where the cursor is.
Write(t, glyph) ==
  LET at == IF t.pending \/ t.column + Columns(glyph) > t.width THEN WrapLine(t) ELSE t
  IN Overwrite(at, glyph, at.column + Columns(glyph))

\* ESC[K and ESC[J.  An erase up to the last column undoes the wrap that joined
\* the next line to this one.
EraseLine(t) ==
  LET cells == t.lines[t.row].cells
      left == SubSeq(cells, 1, t.column) \o EmptyCells(t.width - t.column, t.pen)
      here == [t EXCEPT !.lines[t.row].cells = left]
  IN IF t.row = Len(t.lines) THEN here ELSE [here EXCEPT !.lines[t.row + 1].joined = FALSE]
EraseBelow(t) ==
  LET here == EraseLine(t) IN
  [here EXCEPT !.lines = SubSeq(here.lines, 1, t.row)
                           \o [r \in 1..(Len(t.lines) - t.row) |-> EmptyLine(t.width, t.pen)]]

Select(t, off, on) == [t EXCEPT !.pen = (@ \ off) \cup on]

-----------------------------------------------------------------------------
(* Resizing to another width.                                                  *)

LastWritten(cells, least) ==
  LET used == {k \in DOMAIN cells : cells[k].glyph # Erased \/ k <= least}
  IN IF used = {} THEN 0 ELSE CHOOSE k \in used : \A j \in used : j <= k

(* A reflowing terminal holds joined lines as one and breaks it again at the   *)
(* new width; its cursor keeps its place in the text.                          *)
Joined(t, acc, r) ==
  LET line == t.lines[r]
      full == r < Len(t.lines) /\ t.lines[r + 1].joined
      cells == IF full THEN line.cells
               ELSE SubSeq(line.cells, 1, LastWritten(line.cells, IF r = t.row THEN t.column ELSE 0))
      before == IF line.joined THEN Last(acc.texts) ELSE <<>>
      others == IF line.joined THEN Front(acc.texts) ELSE acc.texts
  IN [texts |-> Append(others, before \o cells),
      at |-> IF r = t.row THEN <<Len(others) + 1, Len(before) + t.column>> ELSE acc.at]
Unwrapped(t) ==
  FoldLeft(LAMBDA acc, r : Joined(t, acc, r), [texts |-> <<>>, at |-> <<0, 0>>], [r \in 1..Len(t.lines) |-> r])

Rewrapped(text, rows, width) ==
  [r \in 1..rows |->
    [joined |-> r > 1,
     cells |-> SubSeq(text \o EmptyCells(rows * width - Len(text), {}), (r - 1) * width + 1, r * width)]]

\* The rows a text takes, the cursor's among them.
RowsOf(was, i, width) ==
  LET needed == (Len(was.texts[i]) + width - 1) \div width
      cursors == IF i = was.at[1] THEN was.at[2] \div width + 1 ELSE 1
  IN IF needed > cursors THEN needed ELSE cursors
Broken(was, width) ==
  FoldLeft(LAMBDA acc, i : [lines |-> acc.lines \o Rewrapped(was.texts[i], RowsOf(was, i, width), width),
                            row |-> IF i = was.at[1] THEN Len(acc.lines) + was.at[2] \div width + 1 ELSE acc.row],
           [lines |-> <<>>, row |-> 0], [i \in 1..Len(was.texts) |-> i])
\* Without the empty lines under the cursor.
Trimmed(lines, row) ==
  LET used == {r \in DOMAIN lines : LastWritten(lines[r].cells, 0) > 0 \/ r <= row}
  IN SubSeq(lines, 1, CHOOSE r \in used : \A q \in used : q <= r)
Refit(t, made, width, offset) ==
  [t EXCEPT !.width = width, !.lines = PadTo(Trimmed(made.lines, made.row), t.height, width),
            !.row = made.row, !.column = offset % width, !.pending = FALSE]
Reflow(t, width) == LET was == Unwrapped(t) IN Refit(t, Broken(was, width), width, was.at[2])

\* One that does not reflow clips or pads every line where it is.
Clip(t, width) ==
  LET cut(cells) == SubSeq(cells, 1, IF width < t.width THEN width ELSE t.width) \o EmptyCells(width - t.width, {}) IN
  [t EXCEPT !.width = width, !.pending = FALSE,
            !.column = IF @ < width THEN @ ELSE width - 1,
            !.lines = [r \in DOMAIN t.lines |-> [joined |-> FALSE, cells |-> cut(t.lines[r].cells)]]]

-----------------------------------------------------------------------------
(* The layout.                                                                 *)

Break == "n"
Output == "o"       \* what commands print
Prompting == "p"    \* the prompt's text

\* What else is drawn: virtual text at the end of the buffer, a highlight on the
\* cluster before the cursor, rows of the pager.
Plain == [ghost |-> 0, pen |-> {}, pager |-> 0]

Blank == Cell(" ", {})
\* Nothing laid out: the size is not known yet.
NoFrame == [columns |-> 0, rows |-> 0]
Nowhere == [row |-> -1, column |-> -1]

\* What one step of the walk is given; here: the buffer's cursor is on it.
Glyph(glyph, pen, here) == [kind |-> "glyph", glyph |-> glyph, pen |-> pen, here |-> here]
CursorHere == [kind |-> "cursor", glyph |-> Break, pen |-> {}, here |-> TRUE]
Unmarked(cells) == [k \in DOMAIN cells |-> Glyph(cells[k].glyph, cells[k].pen, FALSE)]

SpanPen(in, offset) == IF offset >= in.span.from /\ offset < in.span.to THEN in.span.pen ELSE {}

\* Before the cluster at an offset: the cursor, when virtual text would push it,
\* and the virtual text.
AtOffset(in, offset) ==
  LET due == SelectSeq(in.texts, LAMBDA one : one.at = offset)
      drawn == FlattenSeq([k \in DOMAIN due |-> [j \in DOMAIN due[k].glyphs |->
                              Glyph(due[k].glyphs[j], due[k].pen, FALSE)]])
  IN IF due = <<>> THEN <<>> ELSE (IF in.cursor <= offset THEN <<CursorHere>> ELSE <<>>) \o drawn

AtCluster(in, offset) ==
  LET glyph == in.buffer[offset + 1] IN
  AtOffset(in, offset)
    \o <<Glyph(glyph, SpanPen(in, offset), in.cursor <= offset)>>
    \o (IF glyph = Break THEN Unmarked(in.continuation) ELSE <<>>)

Items(in) ==
  Unmarked(in.prompt)
    \o FlattenSeq([k \in 1..Len(in.buffer) |-> AtCluster(in, k - 1)])
    \o AtOffset(in, Len(in.buffer))

-----------------------------------------------------------------------------
(* The walk: row and column, the last row reached, the cells painted, the rows *)
(* begun by a wrap, and where the cursor is.                                   *)

RecordCursor(w, columns) ==
  IF w.cursor # Nowhere THEN w
  ELSE IF w.column < columns THEN [w EXCEPT !.cursor = [row |-> w.row, column |-> w.column]]
  \* The phantom column: the cursor goes to the head of a row that wraps.
  ELSE [w EXCEPT !.cursor = [row |-> w.row + 1, column |-> 0],
                 !.soft = @ \cup {w.row + 1},
                 !.last = IF w.row + 1 > @ THEN w.row + 1 ELSE @]

Reserve(w, width, columns) ==
  IF w.column = 0 \/ w.column + width <= columns THEN w
  ELSE [w EXCEPT !.row = @ + 1, !.column = 0, !.soft = @ \cup {w.row + 1}]

Paint(w, glyph, pen, columns) ==
  LET next == w.column + Columns(glyph) IN
  [w EXCEPT !.cells = IF next > columns THEN @
                      ELSE @ \cup {[row |-> w.row, column |-> w.column + k - 1,
                                    cell |-> Cell(IF k = 1 THEN glyph ELSE Half, pen)] : k \in 1..Columns(glyph)},
            !.column = IF next > columns THEN columns ELSE next,
            !.last = IF w.row > @ THEN w.row ELSE @]

BreakLine(w) ==
  [w EXCEPT !.row = @ + 1, !.column = 0, !.soft = @ \ {w.row + 1},
            !.last = IF w.row + 1 > @ THEN w.row + 1 ELSE @]

Place(w, item, columns) ==
  IF item.kind = "cursor" THEN RecordCursor(w, columns)
  ELSE IF item.glyph = Break THEN BreakLine(IF item.here THEN RecordCursor(w, columns) ELSE w)
  \* Room first, then the cursor: a cluster that wraps takes the cursor with it.
  ELSE LET room == Reserve(w, Columns(item.glyph), columns)
           marked == IF item.here THEN RecordCursor(room, columns) ELSE room
       IN Paint(marked, item.glyph, item.pen, columns)

Geometry(in) ==
  LET start == [row |-> 0, column |-> 0, last |-> 0, cells |-> {}, soft |-> {}, cursor |-> Nowhere]
      walk == FoldLeft(LAMBDA w, item : Place(w, item, in.columns), start, Items(in))
  IN RecordCursor(walk, in.columns)

-----------------------------------------------------------------------------

\* Half of the screen for the pager, and never the edit line's last row.
PagerRowBudget(rows) == IF rows <= 1 THEN 0 ELSE IF rows \div 2 > 1 THEN rows \div 2 ELSE 1

FirstVisibleRow(count, cursor_row, rows) ==
  LET centred == cursor_row - rows \div 2 IN
  IF count <= rows \/ centred < 0 THEN 0
  ELSE IF centred > count - rows THEN count - rows ELSE centred

WindowCell(in, walk, top, shown, row, column) ==
  IF row > shown THEN (IF column = 1 THEN Cell("m", {"bold"}) ELSE Blank)
  ELSE LET here == {one \in walk.cells : one.row = top + row - 1 /\ one.column = column - 1}
       IN IF here = {} THEN Blank ELSE (CHOOSE one \in here : TRUE).cell

Window(in, walk, top, shown, pager_rows) ==
  [columns |-> in.columns, rows |-> shown + pager_rows,
   cells |-> [row \in 1..(shown + pager_rows) |->
                <<>> \o [column \in 1..in.columns |-> WindowCell(in, walk, top, shown, row, column)]],
   \* The frame's top row is positioned to, whatever wrapped into it.
   hard |-> [row \in 1..(shown + pager_rows) |-> row = 1 \/ row > shown \/ top + row - 1 \notin walk.soft],
   cursor |-> [row |-> walk.cursor.row - top, column |-> walk.cursor.column]]

Least(a, b) == IF a < b THEN a ELSE b
Surface(in, walk, edit_rows, pager_rows) ==
  Window(in, walk, FirstVisibleRow(walk.last + 1, walk.cursor.row, edit_rows),
         Least(walk.last + 1, edit_rows), pager_rows)

(* The surface: as tall as the content needs up to the terminal's height, a    *)
(* window of the content when it needs more, the pager's rows under it.        *)
LayOut(in) ==
  IF in.columns = 0 \/ in.rows = 0 THEN NoFrame
  ELSE LET pager_rows == Least(in.pager, PagerRowBudget(in.rows))
       IN Surface(in, Geometry(in), in.rows - pager_rows, pager_rows)
=============================================================================
