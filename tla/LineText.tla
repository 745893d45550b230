------------------------------ MODULE LineText ------------------------------
(***************************************************************************)
(* The text of the line being edited, and where its words, lines and pairs *)
(* begin and end: the motions and text objects of                          *)
(* src/src/leshper/registry.cpp.                                           *)
(*                                                                         *)
(* A text is a sequence of tokens and a position an offset from 0, so      *)
(* text[p] is what stands before the position p and text[p + 1] what       *)
(* stands on it.  A token is one grapheme cluster: every position is a     *)
(* boundary, and the snapping of one to a boundary only clamps it.         *)
(***************************************************************************)
EXTENDS Integers, SequencesExt, FiniteSetsExt

NL == "\n"
Blank == {" ", "\t"}
Punctuation == {"-", "/", ".", ";", ",", "(", ")", "[", "]", "{", "}", "\"", "'", "ESC"}

Offsets(text) == 0 .. Len(text)
clamp_into(text, at) == IF at > Len(text) THEN Len(text) ELSE at

(* buffer_read and slice: what stands from one position to another *)
slice(text, from, to) == SubSeq(text, from + 1, to)
(* text_buffer::replace *)
replace(text, from, to, with) ==
  slice(text, 0, from) \o with \o slice(text, to, Len(text))

(* What a sequence has of some things, in the order it has them *)
Among(sequence, wanted) ==
  LET Found[n \in 0 .. Len(sequence)] ==
        IF n = 0 THEN <<>>
        ELSE IF sequence[n] \in wanted THEN Append(Found[n - 1], sequence[n]) ELSE Found[n - 1]
  IN  Found[Len(sequence)]

(* The first of some positions, the last of them, or the other when there  *)
(* are none                                                                *)
FirstOf(positions, other) == IF positions = {} THEN other ELSE Min(positions)
LastOf(positions, other)  == IF positions = {} THEN other ELSE Max(positions)
Before(at) == 0 .. at - 1
After(text, at) == at + 1 .. Len(text) - 1   \* with something standing on them

-----------------------------------------------------------------------------
prev_boundary(text, at) == IF at = 0 THEN 0 ELSE at - 1
next_boundary(text, at) == IF at = Len(text) THEN at ELSE at + 1

line_start_of(text, at) == LastOf({p \in 1 .. at : text[p] = NL}, 0)
line_end_of(text, at) == FirstOf({p \in at .. Len(text) - 1 : text[p + 1] = NL}, Len(text))

first_nonblank_of(text, at) ==
  LET end == line_end_of(text, at) IN
  FirstOf({p \in line_start_of(text, at) .. end - 1 : text[p + 1] \notin Blank}, end)

(* line_up_of, line_down_of: the same column of the next line, or its end *)
Least(a, b) == IF a < b THEN a ELSE b
line_up_of(text, at) ==
  LET start == line_start_of(text, at)
      above == line_start_of(text, start - 1)
  IN  IF start = 0 THEN at ELSE Least(above + (at - start), start - 1)
line_down_of(text, at) ==
  LET end == line_end_of(text, at) IN
  IF end = Len(text) THEN at
  ELSE Least(end + 1 + (at - line_start_of(text, at)), line_end_of(text, end + 1))

(* class_of: `W`, `B` and `E` know blanks from the rest and no more *)
class_of(token, big) ==
  IF token \in Blank \cup {NL} THEN "blank"
  ELSE IF token \in Punctuation /\ ~big THEN "punct" ELSE "ident"

(* A word begins, or ends, on p *)
Begins(text, p, big) ==
  LET here == class_of(text[p + 1], big) IN
  here # "blank" /\ (p = 0 \/ class_of(text[p], big) # here)
Ends(text, p, big) ==
  LET here == class_of(text[p + 1], big) IN
  here # "blank" /\ (p + 1 = Len(text) \/ class_of(text[p + 2], big) # here)

word_start_next(text, at, big) ==
  FirstOf({p \in After(text, at) : Begins(text, p, big)}, Len(text))
word_start_prev(text, at, big) == LastOf({p \in Before(at) : Begins(text, p, big)}, 0)
word_end_next(text, at, big) ==
  FirstOf({p \in After(text, at) : Ends(text, p, big)}, Len(text))

(* prev_word_of, next_word_of: blank-separated; the next is the end of one *)
prev_word_of(text, at) == word_start_prev(text, at, TRUE)
next_word_of(text, at) ==
  FirstOf({p \in at .. Len(text) - 1 : Ends(text, p, TRUE)}, Len(text) - 1) + 1

(* lesh_span_at: the run of one class around a position *)
span_at(text, at, big) ==
  LET Alike(p) == class_of(text[p + 1], big) = class_of(text[at + 1], big) IN
  IF at >= Len(text) THEN [from |-> Len(text), to |-> Len(text)]
  ELSE [from |-> LastOf({p \in Before(at) : ~Alike(p)}, -1) + 1,
        to   |-> FirstOf({p \in After(text, at) : ~Alike(p)}, Len(text))]

(* match_pair_in: the quotes of a line are paired from its start; brackets *)
(* nest.  The set of the pairs that hold the position: one or none.        *)
PairedQuotes(text, at, quote) ==
  LET quotes == {p \in line_start_of(text, at) .. line_end_of(text, at) - 1 : text[p + 1] = quote}
      Opens(p) == Cardinality({q \in quotes : q < p}) % 2 = 0
  IN  {[from |-> p, to |-> q + 1] : p \in {r \in quotes : Opens(r)},
                                    q \in {r \in quotes : ~Opens(r)}}
HoldsIt(text, at, quote) ==
  {s \in PairedQuotes(text, at, quote) :
     at \in s.from .. s.to - 1
       /\ \A p \in s.from + 1 .. s.to - 2 : text[p + 1] # quote}

PairedBrackets(text, at, open, close) ==
  LET Depth(from, to) == \* how many more open than close between the two
        Cardinality({p \in from .. to - 1 : text[p + 1] = open})
          - Cardinality({p \in from .. to - 1 : text[p + 1] = close})
      opener == IF at < Len(text) /\ text[at + 1] = open THEN at
                ELSE LastOf({p \in Before(at) : Depth(p, at) = 1}, -1)
      closer == FirstOf({p \in opener + 1 .. Len(text) - 1 : Depth(opener, p + 1) = 0}, -1)
  IN  IF opener = -1 \/ closer = -1 THEN {} ELSE {[from |-> opener, to |-> closer + 1]}

match_pair_in(text, at, open, close) ==
  IF open = close THEN HoldsIt(text, at, open)
                  ELSE PairedBrackets(text, at, open, close)

-----------------------------------------------------------------------------
(* diff_of: the one replacement that makes a text of another, as short as  *)
(* what they share at both ends allows                                     *)
Agree(was, now, n) == \A i \in 1 .. n : was[i] = now[i]
AgreeAtEnd(was, now, n) ==
  \A i \in 0 .. n - 1 : was[Len(was) - i] = now[Len(now) - i]

diff_of(was, now) ==
  LET shortest == Least(Len(was), Len(now))
      prefix == Max({n \in 0 .. shortest : Agree(was, now, n)})
      suffix == Max({n \in 0 .. shortest - prefix : AgreeAtEnd(was, now, n)})
  IN  [from |-> prefix, to |-> Len(was) - suffix,
       with |-> slice(now, prefix, Len(now) - suffix)]
=============================================================================
