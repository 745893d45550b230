---------------------------- MODULE ShellGrammar ----------------------------
(***************************************************************************)
(* What a parser of the shell language has to agree with: the grammar of    *)
(* POSIX, written as productions, and what is left of it to be said after   *)
(* some tokens have been read.  It is the specification Parser is compared  *)
(* with and is written from the grammar, not from the parser.               *)
(*                                                                          *)
(* A token is its shape: a reserved word, an operator, "=" for a word that  *)
(* looks like an assignment, "?" for a word that is never closed, and any   *)
(* of Names for an ordinary word.  ">" stands for every redirection whose   *)
(* operand is a word, "<<" for the two that open a here-document.           *)
(***************************************************************************)
EXTENDS Naturals, Sequences, SequencesExt, FiniteSetsExt, TLC

CONSTANT Names        \* ordinary words, aliases among them

Reserved == {"if", "then", "elif", "else", "fi", "while", "until", "do", "done", "for", "in",
             "case", "esac", "{", "}", "!"}
Words    == Reserved \cup Names \cup {"=", "?"}
Operators == {"|", "&&", "||", ";", ";;", ";&", "&", "(", ")", ">", "<<"}

\* A terminal says what part a token plays and which tokens can play it.
Says(role, tokens) == [role |-> role, tokens |-> tokens]
Terminal ==
  [k \in Reserved |-> Says("keyword", {k})] @@ [o \in Operators |-> Says("operator", {o})]
  @@ ("newline" :> Says("operator", {"newline"})) @@ ("descriptor" :> Says("operator", {"descriptor"}))
  @@ (")case" :> Says("operator", {")"})) @@ (")function" :> Says("operator", {")"}))
  @@ ("name" :> Says("command_name", Names \cup {"?"}))
  @@ ("name after prefix" :> Says("command_name", Words \ {"="}))
  @@ ("assignment" :> Says("assignment", {"="}))
  @@ ("word" :> Says("ordinary", Words))
  @@ ("target" :> Says("redirect_target", Words)) @@ ("last target" :> Says("redirect_target", Words))
  @@ ("subject" :> Says("case_subject", Words))
  @@ ("pattern" :> Says("pattern", Words \ {"esac"})) @@ ("any pattern" :> Says("pattern", Words))
  @@ ("variable" :> Says("name", Words \ {"=", "?", "{", "}", "!"}))
  @@ ("function" :> Says("name", Names))
  @@ ("odd name" :> Says("command_name", {"in"})) @@ ("odd stage" :> Says("command_name", {"!"}))
  @@ ("stray pattern" :> Says("pattern", {"then", "elif", "else", "fi", "do", "done", "}"}))
  @@ ("odd variable" :> Says("name", {"=", "?", "{", "}", "!"})) @@ ("odd function" :> Says("name", {"="}))

Closers == {"fi", "done", "esac", "}", ")"}
\* After one of these a word is one more word of the same command.
OfACommand == {"name", "name after prefix", "assignment", "word", "target", "odd name", "odd stage"}

Grammar ==
  [program  |-> {<<"gaps">>, <<"gaps", "term">>},
   breaks   |-> {<<>>, <<"newline", "breaks">>},
   gaps     |-> {<<>>, <<"newline", "gaps">>},
   list     |-> {<<"gaps", "term">>},
   term     |-> {<<"and_or", "rest">>},
   rest     |-> {<<>>} \cup {<<s, "gaps", "more">> : s \in {";", "&", "newline"}},
   more     |-> {<<>>, <<"and_or", "rest">>},
   and_or   |-> {<<"pipeline", "joined">>},
   joined   |-> {<<>>} \cup {<<o, "breaks", "pipeline", "joined">> : o \in {"&&", "||"}},
   pipeline |-> {<<"command", "piped">>, <<"!", "command", "piped">>},
   piped    |-> {<<>>, <<"|", "breaks", "command", "piped">>},
   command  |-> {<<"simple">>, <<"compound", "redirects">>,
                 <<"function", "(", ")function", "gaps", "compound", "redirects">>},
   simple   |-> {<<"prefix", "prefixed">>, <<"name", "suffix">>},
   prefixed |-> {<<>>, <<"prefix", "prefixed">>, <<"name after prefix", "suffix">>},
   prefix   |-> {<<"assignment">>, <<"redirect", "target">>},
   suffix   |-> {<<>>, <<"word", "suffix">>, <<"redirect", "target", "suffix">>},
   redirects |-> {<<>>, <<"redirect", "last target", "redirects">>},
   redirect |-> {<<">">>, <<"<<">>, <<"descriptor", ">">>, <<"descriptor", "<<">>},
   compound |-> {<<"{", "list", "}">>, <<"(", "list", ")">>,
                 <<"if", "list", "then", "list", "otherwise", "fi">>,
                 <<"while", "list", "do", "list", "done">>, <<"until", "list", "do", "list", "done">>,
                 <<"for", "variable", "over", "do", "list", "done">>,
                 <<"case", "subject", "breaks", "in", "gaps", "items", "esac">>},
   otherwise |-> {<<>>, <<"else", "list">>, <<"elif", "list", "then", "list", "otherwise">>},
   over     |-> {<<"breaks">>, <<";", "gaps">>, <<"breaks", "in", "words", ";", "gaps">>,
                 <<"breaks", "in", "words", "newline", "gaps">>},
   words    |-> {<<>>, <<"word", "words">>},
   items    |-> {<<>>, <<"pattern", "item">>, <<"(", "any pattern", "item">>},
   item     |-> {<<"|", "any pattern", "item">>, <<")case", "body", "closed">>},
   body     |-> {<<"gaps">>, <<"list">>},
   closed   |-> {<<>>, <<";;", "gaps", "items">>, <<";&", "gaps", "items">>},
   stage    |-> {}]

\* What lesh reads without a defect although the grammar has no place for it:
\* separators in any number, operators with nothing beside them, one compound
\* command after another, a function whose body is any command or none, a case
\* item without its pattern, and the reserved words it does not look for there.
Forgiven ==
  [s \in DOMAIN Grammar |->
    CASE s = "gaps" -> {<<";", "gaps">>, <<"&", "gaps">>}
      [] s = "rest" -> {<<"beside", "and_or", "rest">>}
      [] s = "and_or" -> {<<o, "breaks", "pipeline", "joined">> : o \in {"&&", "||"}}
                         \cup {<<o, "breaks", "joined">> : o \in {"&&", "||"}}
      [] s = "joined" -> {<<o, "breaks", "joined">> : o \in {"&&", "||"}}
      [] s = "pipeline" -> {<<"!">>, <<"!", "pipeline">>, <<"|", "breaks", "command", "piped">>,
                            <<"|", "breaks", "stage", "piped">>, <<"|", "breaks", "piped">>}
      [] s = "piped" -> {<<"|", "breaks", "piped">>, <<"|", "breaks", "stage", "piped">>}
      [] s = "stage" -> {<<"odd stage", "suffix">>}
      [] s = "simple" -> {<<"odd name", "suffix">>}
      [] s = "command" -> {<<f, "(", ")function", "gaps">> \o b : f \in {"function", "odd function"},
                                                                  b \in {<<>>, <<"command">>, <<"stage">>}}
      [] s = "compound" -> {<<"case", "newline", "breaks", "in", "gaps", "items", "esac">>,
                            <<"for", "odd variable", "over", "do", "list", "done">>}
      [] s = "over" -> {<<"gaps">>, <<"breaks", "in", "words", "&", "gaps">>}
      [] s = "items" -> {<<")case", "body", "closed">>, <<"(", ")case", "body", "closed">>}
      [] s = "item" -> {<<"|", ")case", "body", "closed">>}
      [] s = "closed" -> {<<")case", "body", "closed">>, <<"stray pattern", "item">>}
      [] OTHER -> {}]

\* A residual is what may still be said; whether the last word was one of a
\* simple command's; whether all of it was the grammar's own; and whether every
\* token so far played the part, at the depth, that somebody claims it did.
Whole == {[todo |-> <<"program">>, words |-> FALSE, strict |-> TRUE, agrees |-> TRUE]}

RECURSIVE Opened(_)
\* The ways a residual can begin: with a terminal, or not at all.
Opened(r) ==
  IF r.todo = <<>> THEN {r}
  ELSE LET first == Head(r.todo) IN
       IF first \in DOMAIN Terminal THEN {r}
       ELSE IF first = "beside" THEN IF r.words THEN {} ELSE Opened([r EXCEPT !.todo = Tail(@)])
       ELSE UNION ({Opened([r EXCEPT !.todo = p \o Tail(@)]) : p \in Grammar[first]}
                   \cup {Opened([r EXCEPT !.todo = p \o Tail(@), !.strict = FALSE]) : p \in Forgiven[first]})

\* A reserved word is one only where a command could begin.
Takes(r, token) ==
  /\ r.todo # <<>> /\ token \in Terminal[Head(r.todo)].tokens
  /\ Terminal[Head(r.todo)].role = "keyword" => ~r.words

Depth(todo) == Len(SelectSeq(Tail(todo), LAMBDA s : s \in Closers)) + (IF Head(todo) \in Closers THEN 1 ELSE 0)
Said(r, role, depth) ==
  [todo |-> Tail(r.todo), words |-> Head(r.todo) \in OfACommand, strict |-> r.strict,
   agrees |-> r.agrees /\ role = Terminal[Head(r.todo)].role /\ depth = Depth(r.todo)]

\* What is left after `token`, claimed to be a `role` inside `depth` constructs.
After(residuals, token, role, depth) ==
  UNION {{Said(o, role, depth) : o \in {p \in Opened(r) : Takes(p, token)}} : r \in residuals}

Finished(residuals) == {r \in UNION {Opened(s) : s \in residuals} : r.todo = <<>>}
InPosition(residuals, symbols) ==
  \E r \in UNION {Opened(s) : s \in residuals} : r.todo # <<>> /\ Head(r.todo) \in symbols
=============================================================================
