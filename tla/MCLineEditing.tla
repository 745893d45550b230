---------------------------- MODULE MCLineEditing ----------------------------
(* From the bytes of the terminal to keys, and from keys to the line: an     *)
(* execution is of InputDecoder or of LineEditor, from small worlds.         *)
EXTENDS LineEditor

World(mode_, text, cursor, keys, length) ==
  [mode |-> mode_, text |-> text, cursor |-> cursor, keys |-> keys, length |-> length,
   pastes |-> {}, suggests |-> FALSE, interrupts |-> FALSE, repeats |-> FALSE]

TwoWords == <<"a", "b", " ", "-", "a">>
TwoLines == <<"a", NL, "(", "a", ")", " ", "b">>

MCWorlds ==
  { \* operators, counts, objects and their repetition
    [World("vi_command", TwoWords, 1, {"d", "c", "w", "2", ".", "u", "p"}, 5)
       EXCEPT !.repeats = TRUE],
    [World("vi_command", TwoLines, 3, {"d", "i", "(", "y", "P", "j", "Esc"}, 5)
       EXCEPT !.repeats = TRUE],
    [World("vi_command", TwoWords, 0, {"d", "t", "a", ";", "e", ".", "x"}, 5)
       EXCEPT !.repeats = TRUE],
    \* modes, and what is visual in them
    World("vi_command", TwoLines, 6, {"v", "o", "h", "d", "D", "c", "Esc", "p"}, 5),
    World("vi_command", TwoWords, 3, {"r", "s", "O", "D", "2", "~", "Esc", "u", "C-r"}, 4),
    \* typing, undoing, pasting and running lines
    [World("emacs", <<"a", "a">>, 0, {"a", "b", "BS", "C-_", "<Left>", "C-m"}, 6)
       EXCEPT !.pastes = {<<"a", "b">>}],
    [World("vi_insert", <<"a">>, 1, {"a", "Esc", "u", "C-r", "C-w", "C-m"}, 6)
       EXCEPT !.interrupts = TRUE],
    [World("emacs", TwoLines, 4, {"C-k", "C-u", "C-y", "C-w", "C-_", "C-a", "C-m"}, 5)
       EXCEPT !.interrupts = TRUE],
    \* completion, the pager, and suggestions
    [World("emacs", <<"-">>, 1, {"Tab", "a", "b", "BS", "<Down>", "<Left>", "C-m", "Esc"}, 6)
       EXCEPT !.interrupts = TRUE],
    [World("vi_insert", <<"a">>, 1, {"Tab", "a", "<Right>", "<A-f>", "C-h", "C-m"}, 5)
       EXCEPT !.suggests = TRUE, !.pastes = {<<"b">>}] }

(* A quote that is open goes on; here a bracket stands for it *)
MCLineIsComplete(text) ==
  Cardinality({p \in DOMAIN text : text[p] = "("}) <= Cardinality({p \in DOMAIN text : text[p] = ")"})

Files == <<[text |-> <<"a", "b">>, kind |-> "word"], [text |-> <<"a", "a">>, kind |-> "plain"],
           [text |-> <<"b", "a">>, kind |-> "directory"], [text |-> <<"b">>, kind |-> "word"],
           [text |-> <<"b", "a", "b">>, kind |-> "executable"]>>
MCCompletions(text, cursor) ==
  LET from == word_start_prev(text, cursor, FALSE)
      begin == IF cursor > 0 /\ text[cursor] \in {"a", "b"} THEN from ELSE cursor
      typed == slice(text, begin, cursor)
  IN  [from |-> begin, to |-> cursor,
       items |-> SelectSeq(Files, LAMBDA file : IsPrefix(typed, file.text))]

MCSuggestion(text) ==
  IF text # <<>> /\ IsPrefix(text, <<"a", "b", " ", "b", "a">>) /\ Len(text) < 5
  THEN <<"a", "b", " ", "b", "a">>
  ELSE IF text = <<"a", "a">> THEN <<"a", "a", "-">> ELSE None

-----------------------------------------------------------------------------
(* Bytes that are whole, torn and malformed, and keys that begin with ESC. *)
CONSTANTS Utterance, Means(_), Timeout, MaxWritten
VARIABLES part, wire, tty, held, pasting, paste, deadline, events, read, written, waited
input == <<wire, tty, held, pasting, paste, deadline, events, read, written, waited>>
all == <<part, vars, input>>
Bytes == INSTANCE InputDecoder

MCUtterance == {<<"x">>, <<"lead2", "cont">>, <<"lead3", "cont">>, <<"ESC">>,
                <<"ESC", "x">>, <<"ESC", "[", "A">>, <<"ESC", "O", "A">>,
                <<"ESC", "[", "3", "~">>, <<"ESC", "[", "?", "x">>,
                <<"ESC", "[", "200", "~", "ESC", "lead2", "ESC", "[", "201", "~">>}

MCMeans(u) ==
  CASE u = <<"x">> -> <<Bytes!Typed(<<"x">>)>>
    [] u = <<"lead2", "cont">> -> <<Bytes!Typed(<<"lead2", "cont">>)>>
    [] u = <<"lead3", "cont">> -> <<Bytes!Typed(Bytes!Replacement)>>
    [] u = <<"ESC">> -> <<Bytes!Key("escape")>>
    [] u = <<"ESC", "x">> -> <<Bytes!Alted(<<"x">>)>>
    [] u \in {<<"ESC", "[", "A">>, <<"ESC", "O", "A">>} -> <<Bytes!Key("up")>>
    [] u = <<"ESC", "[", "3", "~">> -> <<Bytes!Key("delete")>>
    [] u = <<"ESC", "[", "?", "x">> -> <<>>
    [] OTHER -> <<Bytes!Pasted(<<"ESC">> \o Bytes!Replacement)>>

-----------------------------------------------------------------------------
Together ==
  /\ Init /\ Bytes!Init /\ part \in {"bytes", "keys"}
  /\ part = "bytes" => world = CHOOSE w \in Worlds : TRUE
Decoding == part = "bytes" /\ Bytes!Next /\ UNCHANGED <<part, vars>>
Editing == part = "keys" /\ Next /\ UNCHANGED <<part, input>>

\* Bytes arrive, time passes and the loop turns; nobody has to type.
Both ==
  /\ Together /\ [][Decoding \/ Editing]_all
  /\ WF_input(Bytes!Arrive) /\ WF_input(Bytes!Tick) /\ WF_input(Bytes!Turn)

\* The keys and pastes are those of the terminal, however its bytes were cut
\* into reads and timed (input_decoder::feed, expire).
DecodesWhatWasPressed == Bytes!DecodesWhatWasPressed

\* An ESC that is held is decided in the end (input_decoder::deadline).
EscapeResolves == Bytes!EscapeResolves
=============================================================================
