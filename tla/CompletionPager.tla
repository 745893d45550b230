--------------------------- MODULE CompletionPager --------------------------
(***************************************************************************)
(* The pager of src/src/leshper/pager.cpp: the candidates of a completion, *)
(* those that match what has been typed at it, the selected one, and the   *)
(* rows of the grid that are shown.                                        *)
(*                                                                         *)
(* Every candidate is as wide as every other, so that what does not fit is *)
(* a matter of their number.                                               *)
(***************************************************************************)
EXTENDS LineText

CONSTANTS
  Fits,   \* candidates that fit side by side (columns of the terminal)
  Rows    \* rows of the grid that fit below the line (pager_row_budget)

ASSUME PagerAssumption == Fits \in Nat \ {0} /\ Rows \in Nat \ {0}

(* pager_state *)
Closed == [open |-> FALSE, candidates |-> <<>>, matching |-> <<>>, filter |-> <<>>,
           selected |-> 0, scroll_row |-> 0, from |-> 0, to |-> 0]

showing(pager) == pager.open /\ pager.matching # <<>>

(* pager_selected: the index of the selected candidate, in a set *)
Selected(pager) ==
  IF pager.selected < Len(pager.matching) THEN {pager.matching[pager.selected + 1]} ELSE {}

(* pager_trailer *)
Trailer(kind) == CASE kind = "directory" -> <<"/">>
                   [] kind = "plain" -> <<>>
                   [] OTHER -> <<" ">>
pager_insertion(one) == one.text \o Trailer(one.kind)

Occurs(text, part) ==
  \E from \in 0 .. Len(text) - Len(part) : slice(text, from, from + Len(part)) = part

(* the candidates that match what has been typed, by their indices *)
Matching(pager) ==
  LET all == DOMAIN pager.candidates IN
  Among([i \in all |-> i], {i \in all : Occurs(pager.candidates[i].text, pager.filter)})

(* mutant: the selection stays where it was and not on what it was *)
RefilterKeepsTheIndex(pager) ==
  LET matching == Matching(pager)
  IN  [pager EXCEPT !.matching = matching,
         !.selected = IF pager.selected < Len(matching) THEN pager.selected ELSE 0,
         !.scroll_row = IF matching = <<>> THEN 0 ELSE pager.scroll_row]

(* pager_refilter: the selection stays on the candidate it was on *)
pager_refilter(pager) ==
  LET matching == Matching(pager)
      still == {at \in DOMAIN matching : matching[at] \in Selected(pager)}
  IN  [pager EXCEPT !.matching = matching,
         !.selected = FirstOf(still, 1) - 1,
         !.scroll_row = IF matching = <<>> THEN 0 ELSE pager.scroll_row]

(* measure_pager *)
Columns(pager) == Least(Fits, Len(pager.matching))
GridRows(pager) == (Len(pager.matching) + Columns(pager) - 1) \div Columns(pager)
Visible(pager) == Least(GridRows(pager), Rows)

pager_move(pager, by) ==
  LET count == Len(pager.matching) IN
  [pager EXCEPT !.selected = IF count = 0 THEN 0 ELSE (pager.selected + by) % count]

(* pager_reveal: the row of the selection is scrolled to, and no further *)
pager_reveal(pager) ==
  LET row   == pager.selected \div Columns(pager)
      first == Least(pager.scroll_row, GridRows(pager) - Visible(pager))
  IN  [pager EXCEPT !.scroll_row =
         IF pager.matching = <<>> THEN 0
         ELSE CASE row < first -> row
                [] row >= first + Visible(pager) -> row - Visible(pager) + 1
                [] OTHER -> first]

(* pager_common_prefix: as much of the first as all the matching share *)
pager_common_prefix(pager) ==
  LET first == pager.candidates[pager.matching[1]].text
      Shared(n) == \A i \in ToSet(pager.matching) :
                     /\ n <= Len(pager.candidates[i].text)
                     /\ Agree(first, pager.candidates[i].text, n)
  IN  slice(first, 0, Max({n \in 0 .. Len(first) : Shared(n)}))

(* decide_pager: one candidate is the answer, and what all of them share   *)
(* beyond what is typed is the part of it they agree on                    *)
decide_pager(pager, typed) ==
  IF pager.matching = <<>> THEN [what |-> "nothing", text |-> <<>>]
  ELSE IF Len(pager.matching) = 1
       THEN [what |-> "insert", text |-> pager_insertion(pager.candidates[pager.matching[1]])]
  ELSE LET shared == pager_common_prefix(pager) IN
       IF Len(shared) > Len(typed) /\ slice(shared, 0, Len(typed)) = typed
       THEN [what |-> "insert", text |-> shared]
       ELSE [what |-> "open", text |-> <<>>]
=============================================================================
