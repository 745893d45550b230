------------------------------ MODULE MCLanguage ------------------------------
(* Small worlds of the language as it is read: an execution is of Parser, the  *)
(* tokens of an input, or of Reactors, the characters of a line being edited.  *)
EXTENDS Parser

MCNames == {"w", "a", "b", "c"}
NoAliases == <<>>
World(start, tokens, length) ==
  [start |-> start, tokens |-> tokens, length |-> length, strays |-> 0, one_command |-> FALSE,
   tables |-> <<NoAliases>>]

If == World(<<>>, {"if", "then", "elif", "else", "fi", "w", ";"}, 7)
Else == World(<<"if", "w", ";", "then", "w", ";">>, {"then", "elif", "else", "fi", "w", ";"}, 12)
Loop == World(<<>>, {"while", "until", "do", "done", "w", ";"}, 6)
Do == World(<<"until", "w", ";">>, {"do", "done", "w", ";", "&", "newline"}, 8)
For == World(<<"for">>, {"for", "in", "do", "done", "w", ";", "newline"}, 7)
Case == World(<<"case", "w", "in">>, {"in", "esac", ")", "(", "|", ";;", "w"}, 9)
Subject == World(<<"case">>, {"case", "in", "esac", "(", ")", ";&", "w", "newline"}, 6)
Operator == World(<<>>, {"!", "|", "&&", "&", ";", "newline", "w"}, 5)
Groups == World(<<>>, {"{", "}", "(", ")", "w", ";", "newline"}, 5)
Function == World(<<"w", "(", ")">>, {"{", "}", "(", ")", "w", ";", "newline"}, 7)
Redirects == World(<<>>, {">", "<<", "descriptor", "=", "w", "?", "newline"}, 6)

Alias(body) == [body |-> body, trailing_blank |-> FALSE]
Leading(body) == [body |-> body, trailing_blank |-> TRUE]
With(aliases, tokens, length) == [World(<<>>, tokens, length) EXCEPT !.tables = <<aliases>>]

Cycle == With(("a" :> Leading(<<"b", "w">>)) @@ ("b" :> Alias(<<"a">>)) @@ ("c" :> Leading(<<>>)),
              {"a", "b", "c", "w", ";", "|", "=", ">"}, 4)
Shaped == With(("a" :> Leading(<<"w">>)) @@ ("b" :> Alias(<<"(", ")">>)) @@ ("c" :> Alias(<<"{">>)) @@ ("do" :> Alias(<<"w">>)),
               {"a", "b", "c", "w", ";", "}", "for", "do"}, 5)
InBody == With(("a" :> Alias(<<"w", "<<", "w", "newline", "line", "EOF", "w">>)) @@ ("b" :> Leading(<<"w", "<<", "w", "newline">>))
               @@ ("c" :> Alias(<<"newline">>)),
               {"a", "b", "c", "w", "<<", "newline"}, 4)
Units == [World(<<>>, {"a", "w", ";", "newline", "(", ")", "<<"}, 5) EXCEPT !.one_command = TRUE,
                !.tables = <<NoAliases, "a" :> Alias(<<"w", "newline", "w">>)>>]
MCWorlds == {If, Else, Loop, Do, For, Case, Subject, Operator, Groups, Function, Redirects, Cycle, Shaped, InBody, Units}

-------------------------------------------------------------------------------
(* Lines: what is typed, from what, over which history.                        *)
CONSTANTS Parts, Lines
VARIABLES part, typing, line, cursor, gen, history, phase, lanes, marks, proposals, lines, dismissed, moves
editing == <<typing, line, cursor, gen, history, phase, lanes, marks, proposals, lines, dismissed, moves>>
all == <<part, vars, editing>>
Line == INSTANCE Reactors
          WITH Worlds <- Lines, PollEvery <- 2, Known <- {<<"x">>}, MaxEdits <- 2, MaxMoves <- 2, MaxLines <- 1,
               MaxScanNesting <- 3, MaxPendingHereDocs <- 2, world <- typing

Typing(start, alphabet, length, entries) ==
  [start |-> start, alphabet |-> alphabet, length |-> length, history |-> entries]
MCLines ==
  {Typing(<<"x">>, {"x", " "}, 4, << <<"x">>, <<"x", " ", "y">>, <<"x", "x">> >>),
   Typing(<<>>, {"x"}, 2, << <<"x", "#", "y">>, <<"x", "x">> >>),
   Typing(<<"x", " ", "\"", "$", "x">>, {"x", "\""}, 6, <<>>),
   Typing(<<">", "\"", "$", "x">>, {"\"", ">", " "}, 5, <<>>),
   Typing(<<"x", "=", "~", ":">>, {"~", " "}, 6, << <<"x", "=", "~", ":", " ", "x">> >>),
   Typing(<<"x", " ", "#">>, {" ", "$"}, 4, << <<"x", " ", "#", "y">> >>)}

-------------------------------------------------------------------------------
Together ==
  /\ Init /\ Line!Init /\ part \in Parts
  /\ part = "parser" => typing = CHOOSE w \in Lines : TRUE
  /\ part = "reactors" => world = CHOOSE w \in Worlds : TRUE
Parse == part = "parser" /\ Next /\ UNCHANGED <<part, editing>>
Edit == part = "reactors" /\ Line!Next /\ UNCHANGED <<part, vars>>

\* Weak fairness, with what enables each step written out: the parser goes on,
\* the scheduler slices every fiber that can run, a command comes to an end.
Fair ==
  /\ <>[](part = "parser" /\ ~Done) => []<><<Parse>>_all
  /\ \A n \in Line!ReactorNames : <>[](part = "reactors" /\ Line!CanRun(n)) => []<><<Line!Slice(n)>>_editing
  /\ <>[](part = "reactors" /\ phase = "accepted") => []<><<Line!ResumeAccepted>>_editing
  /\ <>[](part = "reactors" /\ phase = "cancelled") => []<><<Line!ResumeCancelled>>_editing
Both == Together /\ [][Parse \/ Edit]_all /\ Fair

\* Every character is painted as what it is (painter, rebuild).
EachCharacterIsPaintedAsItReads == Line!EachCharacterIsPaintedAsItReads

\* What would be accepted is the newest command that continues the line, as far
\* as it is shown (the autosuggester, accept_autosuggestion); and nothing computed
\* for a line shows over a later one (apply_batch, accept_current_line).
SuggestionIsOfItsLine == Line!SuggestionIsTheNewest /\ Line!NothingOutlivesItsLine

\* The parser comes to an end whatever it is given (parse_body,
\* try_substitute_alias), and a line that stays is answered by every reactor
\* (reactor_body, apply_reactor_batch).
ReadersComeToAnEnd ==
  /\ part = "parser" => ParserComesToAnEnd
  /\ part = "reactors" => Line!AnswersCome
===============================================================================
