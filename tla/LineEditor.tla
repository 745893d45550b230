----------------------------- MODULE LineEditor -----------------------------
(***************************************************************************)
(* leshper, the line editor (src/src/leshper): the state it keeps, the     *)
(* actions its keys are bound to, the harness that turns what an action    *)
(* stages into one edit, undo, the operators, counts and repetition of vi, *)
(* and what the loop does of a line that is accepted or cancelled.         *)
(*                                                                         *)
(* An action is an operator from what it has staged to what it stages: h   *)
(* is the handle of one invocation, h.t the state behind it.               *)
(***************************************************************************)
EXTENDS CompletionPager, Keymaps

CONSTANTS
  Worlds,              \* where the editor starts, what is pressed and pasted
  LineIsComplete(_),   \* session::syntax: can this line be run
  Completions(_, _),   \* the completer: [from, to, items] of a text and a position
  Suggestion(_),       \* the suggester: a longer line, or none
  Ceiling              \* the highest count: 100000 in the code

ASSUME EditorAssumption == Ceiling \in Nat \ {0}

(* A world begins in a mode of its own, in its text, and has keys to press *)
ASSUME WorldAssumption ==
  \A w \in Worlds :
    /\ w.mode \in {"emacs", "vi_insert", "vi_command"}
    /\ w.text \in Seq(STRING) /\ w.cursor \in Offsets(w.text)
    /\ w.keys \subseteq STRING /\ w.pastes \subseteq Seq(STRING)
    /\ w.length \in Nat

VARIABLES
  ed,       \* struct state, with the vi_context of vi.cpp; bumped is whether the
            \* last binding that ran changed the text (generation gen, compared)
  injected, \* pending_input: keys an action has pushed
  effects,  \* what the loop has still to carry out
  world,    \* the world this is
  pressed,  \* bound: events the world has still to give
  rest      \* history: the state before the command being given was begun

vars == <<ed, injected, effects, world, pressed, rest>>

None == <<"none">>     \* no suggestion
NoKill == [text |-> <<>>, linewise |-> FALSE, there |-> FALSE]
Idle == [in_progress |-> <<>>, started_in |-> "", depth |-> 1, typable |-> TRUE]
NoRecord == [present |-> FALSE, keys |-> <<>>, mode |-> "", mode_changed |-> FALSE,
             typable |-> FALSE]

Fresh(w) ==
  [text |-> w.text, cursor |-> w.cursor, anchor |-> 0, live |-> FALSE,
   layers |-> <<w.mode>>, held |-> <<>>, operator |-> "", count |-> 0,
   steps |-> <<>>, redoable |-> <<>>, coalescing |-> FALSE, bumped |-> FALSE,
   kills |-> NoKill, progress |-> Idle, record |-> NoRecord, pager |-> Closed,
   offered |-> None, arming |-> "", last_find |-> "", target |-> <<>>,
   span_is_line |-> FALSE]

-----------------------------------------------------------------------------
(* keymap_stack *)
mode(t) == t.layers[1]
set_mode(t, name) ==
  [t EXCEPT !.layers = <<name>>, !.held = <<>>, !.operator = "", !.count = 0]
push(t, name) == [t EXCEPT !.layers = Append(t.layers, name), !.held = <<>>]
pop(t) == IF Len(t.layers) <= 1 THEN t
          ELSE [t EXCEPT !.layers = Front(t.layers), !.held = <<>>]

(* undo_history *)
is_plain_insertion(edit) == edit.removed = <<>> /\ edit.inserted # <<>>
end_after_insertion(edit) == edit.at + Len(edit.inserted)

(* mutant: what is typed elsewhere is added to what was typed before *)
CoalesceAnywhere(t, edit) ==
  LET last == t.steps[Len(t.steps)]
      joins == t.coalescing /\ is_plain_insertion(edit) /\ t.steps # <<>>
                 /\ is_plain_insertion(last)
  IN  IF joins
      THEN [t.steps EXCEPT ![Len(t.steps)] =
              [last EXCEPT !.inserted = last.inserted \o edit.inserted, !.after = edit.after]]
      ELSE Append(t.steps, edit)

coalesce_into_last(t, edit) ==
  LET last == t.steps[Len(t.steps)]
      joins == t.coalescing /\ is_plain_insertion(edit) /\ t.steps # <<>>
                 /\ is_plain_insertion(last) /\ end_after_insertion(last) = edit.at
  IN  IF joins
      THEN [t.steps EXCEPT ![Len(t.steps)] =
              [last EXCEPT !.inserted = last.inserted \o edit.inserted, !.after = edit.after]]
      ELSE Append(t.steps, edit)

record(t, edit) ==
  [t EXCEPT !.steps = coalesce_into_last(t, edit), !.redoable = <<>>,
            !.coalescing = is_plain_insertion(edit)]
break_coalescing(t) == [t EXCEPT !.coalescing = FALSE]

Point(t) == [cursor |-> t.cursor, anchor |-> t.anchor, live |-> t.live]
AtPoint(t, p) == [t EXCEPT !.cursor = p.cursor, !.anchor = p.anchor, !.live = p.live]

undo_one(t) ==
  IF t.steps = <<>> THEN t
  ELSE LET edit == Last(t.steps) IN
       AtPoint([t EXCEPT
         !.text = replace(t.text, edit.at, end_after_insertion(edit), edit.removed),
         !.steps = Front(t.steps), !.redoable = Append(t.redoable, edit),
         !.coalescing = FALSE, !.bumped = TRUE], edit.before)
redo_one(t) ==
  IF t.redoable = <<>> THEN t
  ELSE LET edit == Last(t.redoable) IN
       AtPoint([t EXCEPT
         !.text = replace(t.text, edit.at, edit.at + Len(edit.removed), edit.inserted),
         !.redoable = Front(t.redoable), !.steps = Append(t.steps, edit),
         !.coalescing = FALSE, !.bumped = TRUE], edit.after)

(* adjust_anchor_for_edit *)
adjust_anchor_for_edit(anchor, from, to, inserted) ==
  CASE anchor <= from -> anchor
    [] anchor >= to /\ anchor > from -> anchor - (to - from) + inserted
    [] OTHER -> from

(* apply_edit: the only writer of the text, and of the undo history *)
apply_edit(t, from, to, with, cursor_after) ==
  LET edited == [t EXCEPT !.text = replace(t.text, from, to, with), !.cursor = cursor_after,
                   !.anchor = adjust_anchor_for_edit(t.anchor, from, to, Len(with)),
                   !.bumped = TRUE]
  IN  record(edited, [at |-> from, removed |-> slice(t.text, from, to), inserted |-> with,
                      before |-> Point(t), after |-> Point(edited)])

-----------------------------------------------------------------------------
(* The handle: what an action reads and stages (registry.cpp) *)

Handle(t) == [t |-> t, text |-> t.text, cursor |-> t.cursor, anchor |-> t.anchor,
              live |-> t.live, wrote |-> FALSE, moved |-> FALSE, chose |-> FALSE,
              pushed |-> <<>>, outcome |-> "none"]

buffer_replace(h, from, to, with) ==
  [h EXCEPT !.text = replace(h.text, from, to, with), !.wrote = TRUE,
            !.cursor = from + Len(with), !.moved = TRUE]
cursor_set(h, at) == [h EXCEPT !.cursor = at, !.moved = TRUE]
selection_get(h) ==
  LET head == clamp_into(h.text, h.cursor)
      anchor == clamp_into(h.text, h.anchor)
  IN  [from |-> Least(anchor, head), to |-> anchor + head - Least(anchor, head)]
selection_set(h, from, to) ==
  [h EXCEPT !.anchor = clamp_into(h.text, from), !.cursor = clamp_into(h.text, to),
            !.live = TRUE, !.chose = TRUE, !.moved = TRUE]
selection_clear(h) == [h EXCEPT !.live = FALSE, !.chose = TRUE]
mode_set(h, name) == [h EXCEPT !.t = set_mode(h.t, name)]
keymap_push(h, name) == [h EXCEPT !.t = push(h.t, name)]
keymap_pop(h) == [h EXCEPT !.t = pop(h.t)]
count_set(h, value) == [h EXCEPT !.t.count = value]
kill_set(h, text, linewise) ==
  [h EXCEPT !.t.kills = [text |-> text, linewise |-> linewise, there |-> TRUE]]

(* lesh_undo, lesh_redo: refused once the action has written *)
Again(h, t) ==
  IF h.wrote \/ t = h.t THEN h
  ELSE [h EXCEPT !.t = t, !.text = t.text, !.cursor = t.cursor, !.moved = FALSE,
                 !.anchor = t.anchor, !.live = t.live, !.chose = FALSE]

(* loop_harness::invoke, after the action: what it staged is one edit, the *)
(* difference; a key that typed itself may be joined to the last one       *)
SettleAs(h, how, change) ==
  LET t == h.t
      any == t.text # h.text
      typed_keystroke == any /\ change.from = change.to /\ Len(change.with) = 1
                             /\ change.with = how.keys
      Break(u) == IF typed_keystroke THEN u ELSE break_coalescing(u)
      edited == IF any
                THEN Break(apply_edit(Break(t), change.from, change.to, change.with,
                                      clamp_into(h.text, h.cursor)))
                ELSE [Break(t) EXCEPT !.cursor = IF h.moved THEN clamp_into(t.text, h.cursor)
                                                            ELSE t.cursor]
      chosen == IF h.chose THEN [edited EXCEPT !.anchor = clamp_into(edited.text, h.anchor),
                                               !.live = h.live]
                           ELSE edited
  IN  [t |-> chosen, injected |-> h.pushed,
       effects |-> IF h.outcome = "none" THEN <<>> ELSE <<h.outcome>>]
Settle(h, how) == SettleAs(h, how, diff_of(h.t.text, h.text))

-----------------------------------------------------------------------------
(* Motions *)

Move(text, at, motion) ==
  CASE motion = "prev"  -> prev_boundary(text, at)
    [] motion = "next"  -> next_boundary(text, at)
    [] motion = "start" -> line_start_of(text, at)
    [] motion = "end"   -> line_end_of(text, at)
    [] motion = "nonblank"  -> first_nonblank_of(text, at)
    [] motion = "up"    -> line_up_of(text, at)
    [] motion = "down"  -> line_down_of(text, at)
    [] motion = "word"  -> word_start_next(text, at, FALSE)
    [] motion = "back"  -> word_start_prev(text, at, FALSE)
    [] motion = "last"  -> word_end_next(text, at, FALSE)
    [] motion = "WORD"  -> word_start_next(text, at, TRUE)
    [] motion = "BACK"  -> word_start_prev(text, at, TRUE)
    [] motion = "LAST"  -> word_end_next(text, at, TRUE)
    [] motion = "next_word" -> next_word_of(text, at)

To(h, motion) == Move(h.text, h.cursor, motion)
operator_is_pending(h) == h.t.operator # ""
count_of(how) == IF how.count < 1 THEN 1 ELSE how.count

(* The motions that are made once, and those that are made count times; a  *)
(* motion that has run out of text stays where it is                       *)
Once == [backward_char |-> "prev", forward_char |-> "next", beginning_of_line |-> "start",
         end_of_line |-> "end", forward_word |-> "next_word", vi_first_nonblank |-> "nonblank"]
Repeated == [vi_backward_char |-> "prev", vi_forward_char |-> "next", vi_line_up |-> "up",
             vi_line_down |-> "down", vi_word_next |-> "word", vi_word_prev |-> "back",
             vi_word_end |-> "last", vi_blank_word_next |-> "WORD",
             vi_blank_word_prev |-> "BACK", vi_blank_word_end |-> "LAST"]

move_repeated(h, motion, count) ==
  LET At[n \in 0 .. count] == IF n = 0 THEN h.cursor ELSE Move(h.text, At[n - 1], motion)
  IN  cursor_set(h, At[count])

(* extend_inclusive: an operator takes what the motion lands on *)
extend_inclusive(h) ==
  IF operator_is_pending(h) THEN cursor_set(h, next_boundary(h.text, h.cursor)) ELSE h

Forward == {"vi_find_forward", "vi_till_forward"}
Till == {"vi_till_forward", "vi_till_backward"}
reversed == [vi_find_forward |-> "vi_find_backward", vi_find_backward |-> "vi_find_forward",
             vi_till_forward |-> "vi_till_backward", vi_till_backward |-> "vi_till_forward"]

perform_find(h, kind, count) ==
  LET begin == line_start_of(h.text, h.cursor)
      there == {p \in begin .. line_end_of(h.text, h.cursor) - 1 : <<h.text[p + 1]>> = h.t.target}
      Skip(at, n) == IF kind \in Till /\ n = 1 /\ at + 1 \in there THEN at + 2 ELSE at + 1
      \* the position of the n-th, or -1
      Nth[n \in 0 .. count] ==
        IF n = 0 THEN h.cursor
        ELSE LET at == Nth[n - 1] IN
             CASE at = -1 -> -1
               [] at # -1 /\ kind \in Forward ->
                    FirstOf({p \in there : p >= Skip(at, n)}, -1)
               [] at # -1 /\ kind \notin Forward -> LastOf({p \in there : p < at}, -1)
      landing == IF kind \notin Till THEN Nth[count]
                 ELSE IF kind \in Forward THEN prev_boundary(h.text, Nth[count])
                                          ELSE next_boundary(h.text, Nth[count])
  IN  IF kind = "" \/ h.t.target = <<>> \/ Nth[count] = -1 THEN h
      ELSE IF kind \in Forward THEN extend_inclusive(cursor_set(h, landing))
                               ELSE cursor_set(h, landing)

arm_find(h, kind) == keymap_push([h EXCEPT !.t.arming = kind], "vi_find_char")

(* mutant: an operator is forgotten with its layer still there *)
AbortKeepsTheLayer(h) == [h EXCEPT !.t.operator = ""]

abort_operator(h) ==
  IF operator_is_pending(h) THEN keymap_pop([h EXCEPT !.t.operator = ""]) ELSE h

vi_find_char_target(h, how) ==
  LET popped == [keymap_pop(h) EXCEPT !.t.arming = ""] IN
  IF how.keys = <<>> \/ h.t.arming = "" THEN abort_operator(popped)
  ELSE perform_find([popped EXCEPT !.t.target = how.keys, !.t.last_find = h.t.arming],
                    h.t.arming, count_of(how))

-----------------------------------------------------------------------------
(* Counts, operators and text objects *)

Digits == <<"0", "1", "2", "3", "4", "5", "6", "7", "8", "9">>
last_key_byte(how) == IF how.keys = <<>> THEN "" ELSE Last(how.keys)

vi_digit_argument(h, how) ==
  LET value == how.count * 10 + CHOOSE d \in 0 .. 9 : Digits[d + 1] = last_key_byte(how) IN
  count_set(h, IF value > Ceiling THEN Ceiling ELSE value)

Verb == [vi_delete_operator |-> "vi_delete", vi_change_operator |-> "vi_change",
         vi_yank_operator |-> "vi_yank"]
start_operator(h, how, verb) ==
  keymap_push([h EXCEPT !.t.count = how.count, !.t.operator = verb], "vi_operator_pending")

(* kill_span: what is taken, with the newline a line has *)
kill_span(h, from, to, linewise) ==
  LET cut == slice(h.text, from, to) IN
  kill_set(h, IF linewise /\ (cut = <<>> \/ Last(cut) # NL) THEN Append(cut, NL) ELSE cut,
           linewise)

(* The verbs: span_for_verb is what is selected, and nothing when nothing is *)
span_for_verb(h) ==
  LET s == selection_get(h) IN
  [from |-> s.from, to |-> IF h.live THEN s.to ELSE s.from, linewise |-> h.t.span_is_line]
Erased(h, from, to) == IF to > from THEN buffer_replace(h, from, to, <<>>) ELSE h
Spanned(h, from) ==
  selection_clear(cursor_set([h EXCEPT !.t.span_is_line = FALSE], from))

vi_delete(h) ==
  LET s == span_for_verb(h) IN
  Spanned(Erased(kill_span(h, s.from, s.to, s.linewise), s.from, s.to), s.from)

vi_change(h) ==
  LET s  == span_for_verb(h)
      to == IF s.linewise /\ s.to > s.from /\ h.text[s.to] = NL THEN s.to - 1 ELSE s.to
  IN  mode_set(Spanned(Erased(kill_span(h, s.from, to, s.linewise), s.from, to), s.from),
               "vi_insert")

vi_yank(h) ==
  LET s == span_for_verb(h) IN Spanned(kill_span(h, s.from, s.to, s.linewise), s.from)

(* object_word: count words; around it, the blanks after it or before *)
BlankAt(text, at) == at < Len(text) /\ text[at + 1] \in Blank
object_word(h, how, big, around) ==
  LET here == span_at(h.text, h.cursor, big)
      To_[n \in 1 .. count_of(how)] ==
        IF n = 1 THEN here.to ELSE span_at(h.text, To_[n - 1], big).to
      to == To_[count_of(how)]
      after  == span_at(h.text, to, big)
      before == span_at(h.text, here.from - 1, big)
  IN  CASE around /\ BlankAt(h.text, to) -> selection_set(h, here.from, after.to)
        [] around /\ ~BlankAt(h.text, to) /\ here.from > 0
             /\ BlankAt(h.text, here.from - 1) -> selection_set(h, before.from, to)
        [] OTHER -> selection_set(h, here.from, to)

(* pair_for, object_pair: a pair that is not there is an abort *)
pair_for(key) ==
  CASE key \in {"(", ")", "b"} -> <<"(", ")">>
    [] key \in {"[", "]"}      -> <<"[", "]">>
    [] key \in {"{", "}", "B"} -> <<"{", "}">>
    [] OTHER                   -> <<key, key>>
object_pair(h, how, around) ==
  LET pair  == pair_for(last_key_byte(how))
      spans == match_pair_in(h.text, h.cursor, pair[1], pair[2])
      s     == CHOOSE x \in spans : TRUE
  IN  IF spans = {} THEN abort_operator(h)
      ELSE IF around THEN selection_set(h, s.from, s.to)
                     ELSE selection_set(h, s.from + 1, s.to - 1)

(* line_span: count lines, with the newline of the last one *)
line_span(h, count) ==
  LET End[n \in 1 .. count] ==
        IF n = 1 THEN To(h, "end")
        ELSE IF End[n - 1] < Len(h.text) THEN line_end_of(h.text, End[n - 1] + 1)
        ELSE End[n - 1]
  IN  [from |-> To(h, "start"), to |-> Least(End[count] + 1, Len(h.text))]

(* vi_line_object: an operator given twice takes lines; another aborts it *)
vi_line_object(h, how) ==
  LET doubled == [d |-> "vi_delete", c |-> "vi_change", y |-> "vi_yank"]
      s == line_span(h, count_of(how))
  IN  IF h.t.operator = "" THEN h
      ELSE IF h.t.operator # doubled[last_key_byte(how)] THEN abort_operator(h)
      ELSE selection_set([h EXCEPT !.t.span_is_line = TRUE], s.from, s.to)

-----------------------------------------------------------------------------
(* The changes of vi *)

Few(h, how) == Least(h.cursor + count_of(how), To(h, "end"))

vi_delete_char(h, how) ==
  IF Few(h, how) = h.cursor THEN h
  ELSE buffer_replace(kill_span(h, h.cursor, Few(h, how), FALSE), h.cursor, Few(h, how), <<>>)

Times(text, count) ==
  [i \in 1 .. count * Len(text) |-> text[((i - 1) % Len(text)) + 1]]
OneBack(h) == cursor_set(h, prev_boundary(h.text, h.cursor))

vi_replace_char_with(h, how) ==
  LET popped == keymap_pop(h)
      to == h.cursor + count_of(how)
  IN  IF how.keys = <<>> \/ to > To(h, "end") THEN popped
      ELSE OneBack(buffer_replace(popped, h.cursor, to, Times(how.keys, count_of(how))))

Toggled(token) == CASE token = "a" -> "A" [] token = "A" -> "a" [] OTHER -> token
vi_toggle_case(h, how) ==
  LET cut == slice(h.text, h.cursor, Few(h, how)) IN
  IF cut = <<>> THEN h
  ELSE buffer_replace(h, h.cursor, Few(h, how), [i \in DOMAIN cut |-> Toggled(cut[i])])

vi_delete_to_line_end(h) ==
  IF To(h, "end") <= h.cursor THEN h
  ELSE buffer_replace(kill_span(h, h.cursor, To(h, "end"), FALSE),
                      h.cursor, To(h, "end"), <<>>)

vi_yank_line(h, how) ==
  LET s == line_span(h, count_of(how)) IN kill_span(h, s.from, s.to, TRUE)

(* put: lines go between lines *)
put(h, how, after) ==
  LET lines == Times(h.t.kills.text, count_of(how))
      begin == To(h, "start")
      end   == To(h, "end")
      at    == IF after /\ h.cursor < end THEN h.cursor + 1 ELSE h.cursor
      below == <<NL>> \o (IF Last(lines) = NL THEN Front(lines) ELSE lines)
  IN  CASE lines = <<>> -> h
        [] lines # <<>> /\ h.t.kills.linewise /\ ~after ->
             cursor_set(buffer_replace(h, begin, begin, lines), begin)
        [] lines # <<>> /\ h.t.kills.linewise /\ after /\ end < Len(h.text) ->
             cursor_set(buffer_replace(h, end + 1, end + 1, lines), end + 1)
        [] lines # <<>> /\ h.t.kills.linewise /\ after /\ end = Len(h.text) ->
             cursor_set(buffer_replace(h, end, end, below), end + 1)
        [] OTHER -> OneBack(buffer_replace(h, at, at, lines))

(* yank: where the cursor is, as if it had been typed *)
yank(h, how) ==
  LET text == Times(h.t.kills.text, count_of(how)) IN
  IF text = <<>> THEN h ELSE buffer_replace(h, h.cursor, h.cursor, text)

(* Into insert mode *)
vi_insert_at(h, name) ==
  LET begin == To(h, "start")
      end   == To(h, "end")
      there == CASE name = "vi_insert_mode" -> h
                 [] name = "vi_insert_at_line_start" -> cursor_set(h, To(h, "nonblank"))
                 [] name = "vi_append" ->
                      IF h.cursor < end THEN cursor_set(h, To(h, "next")) ELSE h
                 [] name = "vi_append_at_line_end" -> cursor_set(h, end)
                 [] name = "vi_open_below" -> buffer_replace(h, end, end, <<NL>>)
                 [] name = "vi_open_above" ->
                      cursor_set(buffer_replace(h, begin, begin, <<NL>>), begin)
  IN  mode_set(there, "vi_insert")

vi_command_mode(h) ==
  LET left == mode_set(h, "vi_command") IN
  IF h.cursor > To(h, "start") THEN cursor_set(left, To(h, "prev")) ELSE left

(* Visual *)
vi_visual_mode(h) == keymap_push(selection_set(h, h.cursor, h.cursor), "vi_visual")
vi_visual_exit(h) == keymap_pop(selection_clear(h))
vi_visual_swap_ends(h) ==
  LET s == selection_get(h) IN
  IF ~h.live THEN h
  ELSE IF h.cursor = s.to THEN selection_set(h, s.to, s.from)
                          ELSE selection_set(h, s.from, s.to)
visual_finish(h) ==
  LET s == selection_get(h) IN
  keymap_pop(IF h.live THEN selection_set(h, s.from, next_boundary(h.text, s.to)) ELSE h)

(* replayable, vi_repeat: the keys of the last change are typed again *)
replayable(t) == t.record.present /\ t.record.typable /\ ~t.record.mode_changed
                   /\ t.record.mode = mode(t)
vi_repeat(h) == IF replayable(h.t) THEN [h EXCEPT !.pushed = h.pushed \o h.t.record.keys] ELSE h

-----------------------------------------------------------------------------
(* The actions of builtin_actions.cpp *)

self_insert(h, how) ==
  IF how.keys = <<>> THEN h ELSE buffer_replace(h, h.cursor, h.cursor, how.keys)

(* From one position to another: erased, or killed and erased *)
delete_back_to(h, from) == Erased(h, from, h.cursor)
Kill(h, from, to) ==
  IF from >= to THEN h
  ELSE buffer_replace(kill_set(h, slice(h.text, from, to), FALSE), from, to, <<>>)

(* suggestion_is_acceptable: longer than the line, and the cursor at its end *)
suggestion_is_acceptable(h) ==
  h.t.offered # None /\ Len(h.t.offered) > Len(h.text) /\ h.cursor = Len(h.text)

(* accept_autosuggestion, all of it or as far as the end of its next word *)
Accepted(h, boundary) ==
  cursor_set([h EXCEPT !.text = slice(h.t.offered, 0, boundary), !.wrote = TRUE], boundary)
FallThrough ==
  [accept_suggestion_or_forward_char    |-> [word |-> FALSE, motion |-> "next"],
   accept_suggestion_or_end_of_line     |-> [word |-> FALSE, motion |-> "end"],
   accept_suggestion_or_forward_word    |-> [word |-> TRUE,  motion |-> "next_word"],
   accept_suggestion_or_word_start_next |-> [word |-> TRUE,  motion |-> "word"],
   accept_suggestion_or_word_end_next   |-> [word |-> TRUE,  motion |-> "last"]]

(* accept_suggestion_or; the motions of vi are repeated *)
accept_suggestion_or(h, how, which) ==
  CASE suggestion_is_acceptable(h) /\ which.word ->
         Accepted(h, next_word_of(h.t.offered, Len(h.text)))
    [] suggestion_is_acceptable(h) /\ ~which.word -> Accepted(h, Len(h.t.offered))
    [] OTHER -> move_repeated(h, which.motion,
                              IF which.motion \in {"word", "last"} THEN count_of(how) ELSE 1)

(* stage_insertion, close_pager *)
stage_insertion(h, with) ==
  LET from == clamp_into(h.text, h.t.pager.from)
      to   == clamp_into(h.text, h.t.pager.to)
  IN  buffer_replace(h, from, to, with)

close_pager(h) ==
  LET closed == [h EXCEPT !.t.pager = Closed] IN
  IF h.t.pager.open /\ Last(h.t.layers) = "pager" THEN keymap_pop(closed) ELSE closed

(* offer_completion: lesh_pager_open, _add, _commit.  What is inserted     *)
(* closes it again                                                         *)
Asked_(h) == Completions(h.text, h.cursor)
Filled(h) ==
  pager_refilter([Closed EXCEPT !.candidates = Asked_(h).items,
                                !.from = Asked_(h).from, !.to = Asked_(h).to])
Decision(h) == decide_pager(Filled(h), slice(h.text, Asked_(h).from, Asked_(h).to))
offer_completion(h) ==
  LET filled == [close_pager(h) EXCEPT !.t.pager = Filled(h)] IN
  CASE Decision(h).what = "nothing" -> close_pager(filled)
    [] Decision(h).what = "insert"  -> close_pager(stage_insertion(filled, Decision(h).text))
    [] Decision(h).what = "open"    ->
         keymap_push([filled EXCEPT !.t.pager = [filled.t.pager EXCEPT !.open = TRUE]], "pager")

(* complete_word: a directory that is inserted is gone into *)
OfferedAgain(offered, what) ==
  IF what = "insert" /\ offered.cursor > 0 /\ offered.text[offered.cursor] = "/"
  THEN offer_completion(offered) ELSE offered
complete_word(h) == OfferedAgain(offer_completion(h), Decision(h).what)

(* lesh_pager_accept, _move, _filter_push, _filter_pop *)
pager_accept(h) ==
  LET chosen == Selected(h.t.pager) IN
  IF chosen = {} THEN h
  ELSE close_pager(stage_insertion(h,
         pager_insertion(h.t.pager.candidates[CHOOSE i \in chosen : TRUE])))
move_by(h, by) ==
  IF showing(h.t.pager)
  THEN [h EXCEPT !.t.pager = pager_reveal(pager_move(h.t.pager, by))] ELSE h
Filtered(h, filter) ==
  [h EXCEPT !.t.pager = pager_reveal(pager_refilter([h.t.pager EXCEPT !.filter = filter]))]
pager_filter_key(h, how) ==
  IF how.keys = <<>> \/ ~h.t.pager.open THEN h ELSE Filtered(h, h.t.pager.filter \o how.keys)
pager_filter_backspace(h) ==
  IF h.t.pager.open /\ h.t.pager.filter # <<>> THEN Filtered(h, Front(h.t.pager.filter))
                                               ELSE close_pager(h)

(* session::accept_line: a line that is not complete goes on *)
accept_line(h) ==
  IF LineIsComplete(h.text) THEN [h EXCEPT !.outcome = "accept_line"]
  ELSE buffer_replace(h, h.cursor, h.cursor, <<NL>>)
end_of_file(h) == IF h.text = <<>> THEN [h EXCEPT !.outcome = "end_of_file"] ELSE h

-----------------------------------------------------------------------------
(* The table of actions *)

ViAct(name, h, how) ==
  CASE name \in DOMAIN Repeated -> move_repeated(h, Repeated[name], count_of(how))
    [] name \in DOMAIN reversed -> arm_find(h, name)
    [] name = "vi_find_char_target" -> vi_find_char_target(h, how)
    [] name = "vi_find_repeat" -> perform_find(h, h.t.last_find, count_of(how))
    [] name = "vi_find_repeat_reverse" ->
         IF h.t.last_find = "" THEN h
         ELSE perform_find(h, reversed[h.t.last_find], count_of(how))
    [] name = "vi_digit_argument" -> vi_digit_argument(h, how)
    [] name = "vi_digit_or_line_start" ->
         IF how.count > 0 THEN vi_digit_argument(h, how) ELSE cursor_set(h, To(h, "start"))
    [] name \in DOMAIN Verb -> start_operator(h, how, Verb[name])
    [] name = "vi_operator_abort" -> abort_operator(h)
    [] name = "vi_delete" -> vi_delete(h)
    [] name = "vi_change" -> vi_change(h)
    [] name = "vi_yank"   -> vi_yank(h)
    [] name \in {"vi_object_inner_word", "vi_object_a_word",
                 "vi_object_inner_blank_word", "vi_object_a_blank_word"} ->
         object_word(h, how, name \in {"vi_object_inner_blank_word", "vi_object_a_blank_word"},
                             name \in {"vi_object_a_word", "vi_object_a_blank_word"})
    [] name \in {"vi_object_inner_pair", "vi_object_a_pair"} ->
         object_pair(h, how, name = "vi_object_a_pair")
    [] name = "vi_line_object" -> vi_line_object(h, how)
    [] name = "vi_delete_char" -> vi_delete_char(h, how)
    [] name = "vi_substitute_char" -> mode_set(vi_delete_char(h, how), "vi_insert")
    [] name = "vi_replace_char" -> keymap_push(count_set(h, how.count), "vi_replace_char")
    [] name = "vi_replace_char_with" -> vi_replace_char_with(h, how)
    [] name = "vi_toggle_case" -> vi_toggle_case(h, how)
    [] name = "vi_delete_to_line_end" -> vi_delete_to_line_end(h)
    [] name = "vi_change_to_line_end" -> mode_set(vi_delete_to_line_end(h), "vi_insert")
    [] name = "vi_yank_line"  -> vi_yank_line(h, how)
    [] name \in {"vi_put_after", "vi_put_before"} -> put(h, how, name = "vi_put_after")
    [] name = "vi_command_mode" -> vi_command_mode(h)
    [] name = "vi_normal_reset" -> abort_operator(count_set(h, 0))
    [] name = "vi_visual_mode" -> vi_visual_mode(h)
    [] name = "vi_visual_exit" -> vi_visual_exit(h)
    [] name = "vi_visual_swap_ends" -> vi_visual_swap_ends(h)
    [] name = "vi_visual_delete" -> vi_delete(visual_finish(h))
    [] name = "vi_visual_change" -> vi_change(visual_finish(h))
    [] name = "vi_visual_yank"   -> vi_yank(visual_finish(h))
    [] name = "vi_repeat" -> vi_repeat(h)
    [] OTHER -> vi_insert_at(h, name)

InclusiveMotion == {"vi_word_end", "vi_blank_word_end"}
Reaching(name, h) == IF name \in InclusiveMotion THEN extend_inclusive(h) ELSE h

Act(name, h, how) ==
  CASE name \in DOMAIN Once -> cursor_set(h, To(h, Once[name]))
    [] name \in DOMAIN FallThrough -> accept_suggestion_or(h, how, FallThrough[name])
    [] name = "self_insert" -> self_insert(h, how)
    [] name = "delete_backward_char" -> delete_back_to(h, To(h, "prev"))
    [] name = "delete_backward_word" -> Kill(h, prev_word_of(h.text, h.cursor), h.cursor)
    [] name = "unix_line_discard" -> Kill(h, To(h, "start"), h.cursor)
    [] name = "kill_line" -> Kill(h, h.cursor, To(h, "end"))
    [] name = "yank" -> yank(h, how)
    [] name = "undo" -> Again(h, undo_one(h.t))
    [] name = "redo" -> Again(h, redo_one(h.t))
    [] name = "complete_word" -> complete_word(h)
    [] name = "pager_next" -> move_by(h, 1)
    [] name = "pager_previous" -> move_by(h, -1)
    [] name = "pager_next_row" -> move_by(h, Columns(h.t.pager))
    [] name = "pager_previous_row" -> move_by(h, -Columns(h.t.pager))
    [] name = "pager_accept" -> pager_accept(h)
    [] name = "pager_close" -> close_pager(h)
    [] name = "pager_filter_key" -> pager_filter_key(h, how)
    [] name = "pager_filter_backspace" -> pager_filter_backspace(h)
    [] name = "accept_line" -> accept_line(h)
    [] name = "cancel_line" -> [h EXCEPT !.outcome = "cancel_line"]
    [] name = "end_of_file" -> end_of_file(h)
    [] OTHER -> Reaching(name, ViAct(name, h, how))

invoke(t, name, how) == Settle(Act(name, Handle(t), how), how)

(* invoke_action: the count is taken before the call *)
invoke_action(t, name, keys) ==
  invoke([t EXCEPT !.count = 0], name,
         [keys |-> encoded_keys_as_text(keys), count |-> t.count])

-----------------------------------------------------------------------------
(* Dispatch (editor.cpp) *)

(* The record of the change being made: begun, added to, and either done   *)
(* with the change, dropped, or left open in the middle of a command       *)
Begun(t, keys) ==
  LET p == IF t.progress.in_progress # <<>> THEN t.progress
           ELSE [Idle EXCEPT !.started_in = mode(t), !.depth = Len(t.layers)]
  IN  [t EXCEPT !.progress =
         [p EXCEPT !.in_progress = p.in_progress \o encoded_keys_as_text(keys),
                   !.typable = p.typable /\ encoded_keys_are_text(keys)]]

mid_command(t) ==
  t.held # <<>> \/ t.operator # "" \/ t.count # 0 \/ Len(t.layers) > t.progress.depth

(* mutant: a count is not part of the change it is given to *)
RecordedWithoutCount(t) ==
  LET p == t.progress
      changed == [present |-> TRUE, keys |-> p.in_progress, mode |-> p.started_in,
                  mode_changed |-> mode(t) # p.started_in, typable |-> p.typable]
  IN  CASE t.bumped -> [t EXCEPT !.record = changed, !.progress = Idle]
        [] ~t.bumped /\ ~mid_command([t EXCEPT !.count = 0]) -> [t EXCEPT !.progress = Idle]
        [] OTHER -> t

Recorded(t) ==
  LET p == t.progress
      changed == [present |-> TRUE, keys |-> p.in_progress, mode |-> p.started_in,
                  mode_changed |-> mode(t) # p.started_in, typable |-> p.typable]
  IN  CASE t.bumped -> [t EXCEPT !.record = changed, !.progress = Idle]
        [] ~t.bumped /\ ~mid_command(t) -> [t EXCEPT !.progress = Idle]
        [] OTHER -> t

still_asking(t, depth) ==
  t.operator = "" \/ Len(t.layers) > depth \/ t.count # 0 \/ t.held # <<>>

(* run_binding: with an operator pending, the span is what the action has  *)
(* moved over or chosen, and the verb runs on it                           *)
Effected(before, done) == [done EXCEPT !.effects = before \o done.effects]
run_verb(ran) ==
  Effected(ran.effects, invoke_action(pop([ran.t EXCEPT !.operator = ""]), ran.t.operator, <<>>))

Closing(ran, asked, depth) == IF asked /\ ~still_asking(ran.t, depth) THEN run_verb(ran) ELSE ran

Kept(done) == [done EXCEPT !.t = Recorded(done.t)]

run_binding(t, name, keys) ==
  LET asked == t.operator # ""
      begun == [Begun(t, keys) EXCEPT !.bumped = FALSE, !.live = t.live \/ asked,
                                      !.anchor = IF asked THEN t.cursor ELSE t.anchor]
  IN  Kept(Closing(invoke_action(begun, name, keys), asked, Len(t.layers)))

(* handle_key *)
handle_key(t, key) ==
  LET keys == Append(t.held, key)
      what == resolve_keys(t.layers, keys)
      Quiet(u) == [t |-> [u EXCEPT !.bumped = FALSE], injected |-> <<>>, effects |-> <<>>]
  IN  CASE what = Held    -> Quiet([t EXCEPT !.held = keys])
        [] what = Nothing -> Quiet([t EXCEPT !.held = <<>>])
        [] OTHER          -> run_binding([t EXCEPT !.held = <<>>], what, keys)

-----------------------------------------------------------------------------
(* What happens *)

(* The history of the command being given: where it was begun *)
OneShot == {"vi_operator_pending", "vi_find_char", "vi_replace_char"}
AtRest(t) == t.held = <<>> /\ t.count = 0 /\ ToSet(t.layers) \cap OneShot = {}
Remember == rest' = IF AtRest(ed) /\ world.repeats THEN <<ed>> ELSE rest

Handled(key) ==
  \E result \in {handle_key(ed, key)} :
    /\ ed' = result.t
    /\ injected' = (IF injected = <<>> THEN <<>> ELSE Tail(injected)) \o result.injected
    /\ effects' = effects \o result.effects
    /\ Remember
    /\ UNCHANGED world

(* A key, once what the last one asked for has been done *)
Press ==
  /\ injected = <<>> /\ effects = <<>> /\ pressed > 0
  /\ \E key \in world.keys : Handled(key)
  /\ pressed' = pressed - 1

(* drain_pending: what an action has typed, before anything else *)
Replay ==
  /\ injected # <<>>
  /\ Handled(Head(injected))
  /\ UNCHANGED pressed

(* A paste is one edit, and not one with what is typed around it *)
Paste ==
  /\ injected = <<>> /\ effects = <<>> /\ pressed > 0
  /\ \E text \in world.pastes :
       ed' = [apply_edit(break_coalescing(ed), ed.cursor, ed.cursor, text,
                         ed.cursor + Len(text)) EXCEPT !.coalescing = FALSE, !.bumped = FALSE]
  /\ pressed' = pressed - 1
  /\ Remember
  /\ UNCHANGED <<injected, effects, world>>

(* apply_batch: the answer of the suggester, for the text as it is *)
Suggest ==
  /\ injected = <<>> /\ effects = <<>> /\ world.suggests
  /\ ed.offered # Suggestion(ed.text)
  /\ ed' = [ed EXCEPT !.offered = Suggestion(ed.text)]
  /\ UNCHANGED <<injected, effects, world, pressed, rest>>

(* ^C: loop.cpp invokes cancel_line itself *)
Interrupt ==
  /\ injected = <<>> /\ effects = <<>> /\ pressed > 0 /\ world.interrupts
  /\ \E result \in {invoke(ed, "cancel_line", [keys |-> <<>>, count |-> 0])} :
       ed' = result.t /\ effects' = result.effects
  /\ pressed' = pressed - 1
  /\ UNCHANGED <<injected, world, rest>>

(* carry_out: the line is run, or dropped, and what it was is erased.  An  *)
(* accepted line that is empty leaves no edit.                             *)
Emptied == break_coalescing(apply_edit(ed, 0, Len(ed.text), <<>>, 0))
CarryOut ==
  /\ injected = <<>> /\ effects # <<>>
  /\ effects' = Tail(effects)
  /\ CASE effects[1] = "end_of_file" -> UNCHANGED ed /\ pressed' = 0
       [] effects[1] # "end_of_file" ->
            /\ ed' = [IF effects[1] = "accept_line" /\ ed.text = <<>> THEN ed ELSE Emptied
                        EXCEPT !.offered = None, !.bumped = FALSE]
            /\ UNCHANGED pressed
  /\ UNCHANGED <<injected, world, rest>>

Init ==
  /\ world \in Worlds
  /\ ed = Fresh(world)
  /\ injected = <<>> /\ effects = <<>>
  /\ pressed = world.length
  /\ rest = <<>>

Next == Press \/ Replay \/ Paste \/ Suggest \/ Interrupt \/ CarryOut
Spec == Init /\ [][Next]_vars

-----------------------------------------------------------------------------
(* Properties *)

(* What the assertions of state.h:642 say after every writer: the cursor   *)
(* and the anchor are in the text, whatever was undone, replayed, pasted   *)
(* or dropped under them.                                                  *)
PointsStayInside ==
  /\ ed.cursor \in Offsets(ed.text) /\ ed.anchor \in Offsets(ed.text)
  /\ \A i \in DOMAIN ed.redoable : ed.redoable[i].at >= 0

(* An operator waits for its motion as long as its layer is there to give  *)
(* it one, and a layer that waits for one character is on top              *)
(* (vi.cpp:387, editor.cpp:244): neither is left behind by the other.      *)
OperatorHasItsLayer ==
  /\ ed.operator # "" <=> "vi_operator_pending" \in ToSet(ed.layers)
  /\ \A d \in DOMAIN ed.layers :
       ed.layers[d] \in {"vi_find_char", "vi_replace_char"} => d = Len(ed.layers)

(* The pager is open exactly while its keymap takes the keys, and what is  *)
(* selected in it is one of those that match, on a row that is shown       *)
(* (registry.cpp:489, pager.cpp:201).                                      *)
PagerIsModal ==
  /\ ed.pager.open <=> Last(ed.layers) = "pager"
  /\ showing(ed.pager) =>
       /\ ed.pager.selected < Len(ed.pager.matching)
       /\ ed.pager.selected \div Columns(ed.pager)
            \in ed.pager.scroll_row .. ed.pager.scroll_row + Visible(ed.pager) - 1

(* The modes agree with one another and with the text.                     *)
ModesAgree == PointsStayInside /\ OperatorHasItsLayer /\ PagerIsModal

(* Narrowing the pager keeps the candidate that was chosen as long as it   *)
(* is one of those that match (pager.cpp:156).                             *)
ChoiceIsKept ==
  [][ed.pager.open /\ ed'.pager.open /\ ed'.pager.filter # ed.pager.filter =>
       Selected(ed.pager) \cap ToSet(ed'.pager.matching) \subseteq Selected(ed'.pager)]_vars

(* replaying the last change HERE means what it meant THERE (state.h:236): *)
(* the keys recorded for a change, typed where the command was begun, make *)
(* that change, count, operator, object and all.                           *)
Typed(t, keys) ==
  LET After_[n \in 0 .. Len(keys)] == IF n = 0 THEN t ELSE handle_key(After_[n - 1], keys[n]).t
  IN  After_[Len(keys)]
RecordMeansTheSame ==
  rest # <<>> /\ ed.bumped /\ replayable(ed) =>
    LET Same(again) == again.text = ed.text /\ again.cursor = ed.cursor /\ again.layers = ed.layers
    IN  Same(Typed(rest[1], ed.record.keys))

(* What is killed is what has gone: put back where the cursor is left, it  *)
(* makes the line that was, but for the newline a line is killed with      *)
(* (vi.cpp:139, builtin_actions.cpp:103).                                  *)
KillComesBack ==
  [][ed'.kills # ed.kills /\ Len(ed'.text) < Len(ed.text) =>
       LET kill == ed'.kills.text
           Back(cut) == replace(ed'.text, ed'.cursor, ed'.cursor, cut)
       IN  ed.text \in {Back(kill), Back(Front(kill))}]_vars

(* What the user picked, or cut, is there to be had again.                 *)
NothingChosenIsLost == ChoiceIsKept /\ KillComesBack

(* Undo goes back through the texts the line has had, in order, and redo   *)
(* forward again, whatever edits, pastes, replays and commands were made   *)
(* (undo.h:86): the history of edits implements the stack of texts.        *)
Earlier(t) ==
  LET Text[n \in 0 .. Len(t.steps)] ==
        IF n = Len(t.steps) THEN t.text
        ELSE LET edit == t.steps[n + 1] IN
             replace(Text[n + 1], edit.at, end_after_insertion(edit), edit.removed)
  IN  [n \in 1 .. Len(t.steps) |-> Text[n - 1]]
Later(t) ==
  LET Text[n \in 1 .. Len(t.redoable) + 1] ==
        IF n > Len(t.redoable) THEN t.text
        ELSE LET edit == t.redoable[n] IN
             replace(Text[n + 1], edit.at, edit.at + Len(edit.removed), edit.inserted)
  IN  [n \in 1 .. Len(t.redoable) |-> Text[n]]

Stack == INSTANCE UndoStack WITH past <- Earlier(ed), text <- ed.text, future <- Later(ed)
UndoIsAStack == Stack!Spec
=============================================================================
