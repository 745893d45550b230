------------------------------ MODULE Keymaps -------------------------------
(***************************************************************************)
(* The keymaps of src/src/leshper/keymap.cpp, with what the session binds  *)
(* in them (src/src/ui/session.cpp), and what a sequence of keys means in  *)
(* a stack of them.                                                        *)
(***************************************************************************)
EXTENDS LineText

(* What a key types: a named key, or one held with Alt, types nothing, and *)
(* a control character is a character that is not inserted by itself.      *)
Named == {"<Left>", "<Right>", "<Up>", "<Down>", "<Home>", "<End>", "<S-Tab>",
          "<BSKey>", "<A-f>", "<A-Right>"}
Control == {"Esc", "Tab", "BS", "C-m", "C-j", "C-h", "C-w", "C-u", "C-k", "C-a",
            "C-b", "C-e", "C-f", "C-g", "C-r", "C-y", "C-d", "C-_"}
encoded_keys_as_text(keys) == Among(keys, ToSet(keys) \ Named)
encoded_keys_are_text(keys) == ToSet(keys) \cap Named = {}
is_self_inserting(key) == key \notin Named \cup Control

-----------------------------------------------------------------------------
(* The tables: pairs of a sequence of keys and an action.  A later binding *)
(* of the same keys takes the place of an earlier one.                     *)
Bind(table, more) ==
  more \cup {b \in table : \A c \in more : c[1] # b[1]}
All(keys, action) == {<<key, action>> : key \in keys}

vi_motions ==
  {<<"h", "vi_backward_char">>, <<"l", "vi_forward_char">>, <<" ", "vi_forward_char">>,
   <<"j", "vi_line_down">>, <<"k", "vi_line_up">>, <<"^", "vi_first_nonblank">>,
   <<"$", "end_of_line">>, <<"w", "vi_word_next">>, <<"b", "vi_word_prev">>,
   <<"e", "vi_word_end">>, <<"W", "vi_blank_word_next">>, <<"B", "vi_blank_word_prev">>,
   <<"E", "vi_blank_word_end">>, <<"f", "vi_find_forward">>, <<"F", "vi_find_backward">>,
   <<"t", "vi_till_forward">>, <<"T", "vi_till_backward">>, <<";", "vi_find_repeat">>,
   <<",", "vi_find_repeat_reverse">>, <<"<Left>", "vi_backward_char">>,
   <<"<Right>", "vi_forward_char">>, <<"<Up>", "vi_line_up">>, <<"<Down>", "vi_line_down">>}

digits == All({"1", "2", "3", "4", "5", "6", "7", "8", "9"}, "vi_digit_argument")
            \cup {<<"0", "vi_digit_or_line_start">>}

accept_by_fallthrough ==
  All({"<Right>", "C-f"}, "accept_suggestion_or_forward_char")
    \cup All({"<End>", "C-e"}, "accept_suggestion_or_end_of_line")
    \cup All({"<A-f>", "<A-Right>"}, "accept_suggestion_or_forward_word")

erasing == All({"BS", "C-h", "<BSKey>"}, "delete_backward_char")
accepting == All({"C-m", "C-j"}, "accept_line")

inserting ==
  erasing \cup accepting \cup accept_by_fallthrough
    \cup {<<"C-w", "delete_backward_word">>, <<"C-u", "unix_line_discard">>,
          <<"<Left>", "backward_char">>, <<"<Home>", "beginning_of_line">>,
          <<"C-d", "end_of_file">>, <<"Tab", "complete_word">>}

emacs == inserting \cup
  {<<"C-k", "kill_line">>, <<"C-a", "beginning_of_line">>, <<"C-b", "backward_char">>,
   <<"C-_", "undo">>, <<"C-y", "yank">>}

vi_insert == inserting \cup {<<"Esc", "vi_command_mode">>}

vi_command == Bind(vi_motions \cup digits \cup accepting,
  {<<"d", "vi_delete_operator">>, <<"c", "vi_change_operator">>, <<"y", "vi_yank_operator">>,
   <<"x", "vi_delete_char">>, <<"s", "vi_substitute_char">>, <<"r", "vi_replace_char">>,
   <<"~", "vi_toggle_case">>, <<"D", "vi_delete_to_line_end">>,
   <<"C", "vi_change_to_line_end">>, <<"Y", "vi_yank_line">>, <<"p", "vi_put_after">>,
   <<"P", "vi_put_before">>, <<"i", "vi_insert_mode">>, <<"I", "vi_insert_at_line_start">>,
   <<"a", "vi_append">>, <<"A", "vi_append_at_line_end">>, <<"o", "vi_open_below">>,
   <<"O", "vi_open_above">>, <<"v", "vi_visual_mode">>, <<".", "vi_repeat">>,
   <<"Esc", "vi_normal_reset">>, <<"u", "undo">>, <<"C-r", "redo">>,
   <<"<Home>", "beginning_of_line">>, <<"<End>", "end_of_line">>,
   <<"w", "accept_suggestion_or_word_start_next">>,
   <<"e", "accept_suggestion_or_word_end_next">>})

vi_operator_pending == vi_motions \cup digits \cup All({"d", "c", "y"}, "vi_line_object")
                         \cup {<<"Esc", "vi_operator_abort">>}

vi_visual ==
  All({"d", "x"}, "vi_visual_delete") \cup All({"c", "s"}, "vi_visual_change")
    \cup All({"v", "Esc"}, "vi_visual_exit")
    \cup {<<"y", "vi_visual_yank">>, <<"o", "vi_visual_swap_ends">>}

pager_keys ==
  All({"Tab", "<Right>"}, "pager_next") \cup All({"<S-Tab>", "<Left>"}, "pager_previous")
    \cup All({"C-m", "C-j"}, "pager_accept") \cup All({"Esc", "C-g"}, "pager_close")
    \cup All({"BS", "C-h", "<BSKey>"}, "pager_filter_backspace")
    \cup {<<"<Down>", "pager_next_row">>, <<"<Up>", "pager_previous_row">>}

Alone(table) == {<<<<b[1]>>, b[2]>> : b \in table}
vi_objects ==
  {<<<<"i", "w">>, "vi_object_inner_word">>, <<<<"a", "w">>, "vi_object_a_word">>,
   <<<<"i", "W">>, "vi_object_inner_blank_word">>, <<<<"a", "W">>, "vi_object_a_blank_word">>}
    \cup UNION {{<<<<"i", one>>, "vi_object_inner_pair">>, <<<<"a", one>>, "vi_object_a_pair">>} :
                  one \in {"(", ")", "b", "[", "]", "{", "}", "B", "\"", "'", "backquote"}}

Keymap(table, opaque, default) ==
  [action_for |-> [keys \in {b[1] : b \in table} |-> (CHOOSE b \in table : b[1] = keys)[2]],
   opaque |-> opaque, default |-> default]

(* keymap_registry::install_defaults *)
keymaps ==
  [emacs               |-> Keymap(Alone(emacs), FALSE, ""),
   vi_insert           |-> Keymap(Alone(vi_insert), FALSE, ""),
   vi_command          |-> Keymap(Alone(vi_command), TRUE, ""),
   vi_operator_pending |-> Keymap(Alone(vi_operator_pending) \cup vi_objects, TRUE, ""),
   vi_visual           |-> Keymap(Alone(vi_visual) \cup vi_objects, FALSE, ""),
   vi_find_char        |-> Keymap({}, TRUE, "vi_find_char_target"),
   vi_replace_char     |-> Keymap({}, TRUE, "vi_replace_char_with"),
   pager               |-> Keymap(Alone(pager_keys), TRUE, "pager_filter_key")]

-----------------------------------------------------------------------------
has_longer(map, keys) ==
  \E longer \in DOMAIN map.action_for : IsStrictPrefix(keys, longer)

(* walk_stack: the layers that are asked, from the top down to the first   *)
(* opaque one                                                              *)
Asked(layers) ==
  {d \in DOMAIN layers : \A e \in d + 1 .. Len(layers) : ~keymaps[layers[e]].opaque}
TopOf(depths) == CHOOSE d \in depths : \A e \in depths : e <= d

Held == "held"        \* a prefix of a binding: wait for more
Nothing == "nothing"  \* bound to nothing, and not text

(* settle: the exact binding of the highest layer that has one; else, of a *)
(* single key, the highest default; else, with no opaque layer, its text   *)
settle(layers, keys) ==
  LET asked   == Asked(layers)
      Map(d)  == keymaps[layers[d]]
      exact   == {d \in asked : keys \in DOMAIN Map(d).action_for}
      caught  == {d \in asked : Map(d).default # ""}
      floored == \A d \in asked : ~Map(d).opaque
  IN  CASE exact # {} -> Map(TopOf(exact)).action_for[keys]
        [] exact = {} /\ Len(keys) = 1 /\ caught # {} -> Map(TopOf(caught)).default
        [] exact = {} /\ Len(keys) = 1 /\ caught = {} /\ floored
             /\ is_self_inserting(keys[1]) -> "self_insert"
        [] OTHER -> Nothing

resolve_keys(layers, keys) ==
  IF \E d \in Asked(layers) : has_longer(keymaps[layers[d]], keys)
  THEN Held ELSE settle(layers, keys)
=============================================================================
