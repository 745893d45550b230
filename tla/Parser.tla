------------------------------- MODULE Parser -------------------------------
(***************************************************************************)
(* The parser (syntax/parser.cpp), one token at a time: a descent whose C++ *)
(* frames are `stack`, over a reader that draws from the bodies of aliases  *)
(* being expanded and then from the input, and collects here-documents at a *)
(* newline.  The input is not fixed: a token is chosen when the parser      *)
(* first looks at it, so that a run covers every input of a world.          *)
(*                                                                          *)
(* `expected` and `said` are the oracle: what ShellGrammar leaves to be said *)
(* after the tokens consumed, and whether it gives them the parts the        *)
(* parser gave them.  Nodes are not built: that a node is defective is kept  *)
(* in `errors`, the words of the tree and their places in the oracle.       *)
(***************************************************************************)
EXTENDS ShellGrammar

CONSTANTS Worlds,          \* [start, tokens, length, strays, one_command, tables]: inputs to try
          MaxAliasDepth    \* kMaxAliasDepth

VARIABLES world, table,
          reader,          \* [pc, again, eligible, plain, left]: inside fill() or try_substitute_alias()
          peek, index,     \* the token looked at, and how many there have been
          alias_stack,     \* bodies being read: [name, at]
          upcoming,        \* input looked at beyond `peek`, not drawn yet
          input,           \* [drawn, last, strays]: how much was typed, and what last
          pending,         \* here-documents opened and not collected
          stack, result,   \* the descent, and the children of the node that came back
          errors, incomplete, spoiled,
          expected, said

reading == <<reader, peek, index, alias_stack, upcoming, input>>
verdict == <<errors, incomplete, spoiled>>
oracle  == <<expected, said>>
vars    == <<world, table, reading, pending, stack, result, verdict, oracle>>

Table == world.tables[table]
IsWord(t) == t \in Words
peek_reserved == IF peek \in Reserved THEN peek ELSE "none"
Separators == {"newline", ";", "&"}
Redirections == {">", "<<"}
EndsCommand == {"end", "newline", ";", "&", "|", "&&", "||", ";;", ";&", ")"}
ListTerminators == {"then", "elif", "else", "fi", "do", "done", "esac", "}"}

(***************************************************************************)
(* The reader                                                               *)
(***************************************************************************)

Ready == [pc |-> "ready", again |-> FALSE, eligible |-> FALSE, plain |-> FALSE, left |-> 0]
Filling(plain) == [Ready EXCEPT !.pc = "fill", !.plain = plain]

Body(name) == Table[name].body
Exhausted == alias_stack # <<>> /\ Last(alias_stack).at = Len(Body(Last(alias_stack).name))

\* What the input may hold next.  A digit run is a descriptor only before a
\* redirection, and a word whose quote is never closed swallows the rest.
Typed ==
  IF input.drawn < Len(world.start) THEN {world.start[input.drawn + 1]}
  ELSE IF input.last = "descriptor" THEN Redirections \cap world.tokens
  ELSE {"end"} \cup
       (IF input.last = "end" \/ input.cut \/ input.drawn >= world.length \/ input.strays > world.strays
        THEN {} ELSE world.tokens \ {"line", "EOF"})
Chosen(t) == [drawn |-> input.drawn + 1, last |-> t, cut |-> input.cut \/ t = "?",
              strays |-> input.strays + (IF expected = {} THEN 1 ELSE 0)]

\* fill() has its token: a newline is followed by the bodies of the
\* here-documents that wait, and a word that a definition ending in a blank
\* made eligible is offered to the aliases wherever it sits.
\* mutant: every word is offered to the aliases, arguments too.
EveryWordOffered == IF Table # <<>> THEN [reader EXCEPT !.pc = "substitute", !.left = MaxAliasDepth] ELSE Ready
Settled == IF Table # <<>> /\ (reader.again \/ reader.eligible)
           THEN [reader EXCEPT !.pc = "substitute",
                               !.left = IF reader.again THEN @ ELSE MaxAliasDepth]
           ELSE Ready
Filled(t) ==
  /\ peek' = t /\ index' = index + 1
  /\ reader' = IF pending > 0 /\ t = "newline" THEN [reader EXCEPT !.pc = "collect"] ELSE Settled

DrawFromAlias ==
  /\ reader.pc = "fill" /\ alias_stack # <<>> /\ ~Exhausted
  /\ Filled(Body(Last(alias_stack).name)[Last(alias_stack).at + 1])
  /\ alias_stack' = [alias_stack EXCEPT ![Len(alias_stack)].at = @ + 1]
  /\ UNCHANGED <<upcoming, input, incomplete>>

DrawsBodyOut ==
  /\ reader.pc = "fill" /\ Exhausted
  /\ reader' = [reader EXCEPT !.eligible = @ \/ Table[Last(alias_stack).name].trailing_blank]
  /\ alias_stack' = Front(alias_stack)
  /\ UNCHANGED <<peek, index, upcoming, input, incomplete>>

DrawFromInput ==
  /\ reader.pc = "fill" /\ alias_stack = <<>>
  /\ \E t \in IF upcoming = <<>> THEN Typed ELSE {Head(upcoming)} :
       /\ Filled(t)
       /\ IF upcoming = <<>> THEN input' = Chosen(t) /\ UNCHANGED upcoming
          ELSE upcoming' = Tail(upcoming) /\ UNCHANGED input
       /\ incomplete' = (incomplete \/ t = "?")
  /\ UNCHANGED alias_stack

\* A line of a here-document's body, out of the text the newline came from.  A
\* body that is not closed there ends with the text.
collect_here_doc_bodies ==
  /\ reader.pc = "collect"
  /\ \E line \in IF alias_stack # <<>>
                 THEN {IF Exhausted THEN "end" ELSE Body(Last(alias_stack).name)[Last(alias_stack).at + 1]}
                 ELSE {"end"} \cup (IF input.drawn < world.length THEN {"line", "EOF"} ELSE {}) :
       /\ pending' = IF line = "end" THEN 0 ELSE IF line = "EOF" THEN pending - 1 ELSE pending
       /\ incomplete' = (incomplete \/ line = "end")
       /\ IF alias_stack # <<>>
          THEN /\ alias_stack' = IF line = "end" THEN alias_stack
                                 ELSE [alias_stack EXCEPT ![Len(alias_stack)].at = @ + 1]
               /\ input' = [input EXCEPT !.cut = line = "end"]
          ELSE input' = [Chosen(line) EXCEPT !.cut = line = "end"] /\ UNCHANGED alias_stack
       /\ reader' = IF pending' = 0 THEN Settled ELSE reader
  /\ UNCHANGED <<peek, index, upcoming>>

\* One round of try_substitute_alias: a word is replaced by its definition, whose
\* first word is offered in turn.
Substitutable(word, plain) ==
  /\ word \in DOMAIN Table /\ (plain \/ word \notin Reserved)
  /\ \A f \in ToSet(alias_stack) : Body(f.name) # Body(word)

Replaced(word) ==
  /\ alias_stack' = Append(alias_stack, [name |-> word, at |-> 0])
  /\ reader' = [reader EXCEPT !.pc = "fill", !.again = TRUE, !.left = @ - 1]
try_substitute_alias ==
  /\ reader.pc = "substitute"
  /\ IF reader.left > 0 /\ Substitutable(peek, reader.plain) THEN Replaced(peek)
     ELSE reader' = Ready /\ UNCHANGED alias_stack
  /\ UNCHANGED <<peek, index, upcoming, input, incomplete>>

Read ==
  /\ \/ (DrawFromAlias \/ DrawsBodyOut \/ DrawFromInput \/ try_substitute_alias) /\ UNCHANGED pending
     \/ collect_here_doc_bodies
  /\ UNCHANGED <<world, table, stack, result, errors, spoiled, oracle>>

(***************************************************************************)
(* Looking ahead for `name ( )`, through the bodies and past them           *)
(***************************************************************************)

RECURSIVE Probe(_, _, _)
\* The next token from `p`: the bodies as far as they are read, and how much of
\* the upcoming input was looked at.  "more" is a token nobody has typed yet.
Probe(p, eligible, guard) ==
  IF p.frames # <<>> /\ Last(p.frames).at = Len(Body(Last(p.frames).name))
  THEN Probe([p EXCEPT !.frames = Front(@)],
             eligible \/ Table[Last(p.frames).name].trailing_blank, guard - 1)
  ELSE LET inside == p.frames # <<>>
           token  == IF inside THEN Body(Last(p.frames).name)[Last(p.frames).at + 1]
                     ELSE IF p.used < Len(upcoming) THEN upcoming[p.used + 1] ELSE "more"
           after  == IF inside THEN [p EXCEPT !.frames[Len(p.frames)].at = @ + 1]
                     ELSE [p EXCEPT !.used = @ + 1]
       IN IF eligible /\ guard > 0 /\ token \in DOMAIN Table /\ token \notin Reserved
               /\ \A f \in ToSet(after.frames) \cup ToSet(alias_stack) : Body(f.name) # Body(token)
          THEN Probe([after EXCEPT !.frames = Append(@, [name |-> token, at |-> 0])], TRUE, guard - 1)
          ELSE [token |-> token, rest |-> after]

probe_ahead == Probe([frames |-> alias_stack, used |-> 0], FALSE, MaxAliasDepth)
ProbedTwice == Probe(probe_ahead.rest, FALSE, MaxAliasDepth).token

Nameable == IsWord(peek) /\ peek # "?" /\ peek_reserved = "none"
at_function_definition == Nameable /\ probe_ahead.token = "(" /\ ProbedTwice = ")"
NeedsMore == Nameable /\ (probe_ahead.token = "more" \/ (probe_ahead.token = "(" /\ ProbedTwice = "more"))

(***************************************************************************)
(* The descent: what every action is made of                                *)
(***************************************************************************)

Top   == Last(stack)
Under == Front(stack)
Frame(f) == [f |-> f, at |-> "begin", children |-> 0, before |-> 0, seen |-> FALSE]
At(f, at) == reader.pc = "ready" /\ stack # <<>> /\ Top.f \in f /\ Top.at = at

Going(at)     == Append(Under, [Top EXCEPT !.at = at])
Calling(f, at) == Append(Append(Under, [Top EXCEPT !.at = at, !.before = index]), Frame(f))
Becoming(f)   == Append(Under, Frame(f))
Grown(at)     == Append(Under, [Top EXCEPT !.at = at, !.children = Min({@ + 1, 2})])

Constructs == {"if", "while", "until", "for", "case", "brace", "subshell"}
Enclosing == Len(SelectSeq(stack, LAMBDA f : f.f \in Constructs))

\* The reader is left alone, or asked for the next token, or offered this one.
Stays == UNCHANGED <<reading, oracle>>
Offered == /\ reader' = IF Table = <<>> THEN reader
                        ELSE [Ready EXCEPT !.pc = "substitute", !.again = TRUE, !.left = MaxAliasDepth]
           /\ UNCHANGED <<peek, index, alias_stack, upcoming, input, oracle>>
advance(role, plain) ==
  /\ reader' = Filling(plain)
  /\ expected' = After(expected, peek, role, Enclosing) /\ said' = role
  /\ UNCHANGED <<peek, index, alias_stack, upcoming, input>>
accept_keyword == advance("keyword", FALSE)

\* record_missing: what the grammar requires is not there; only at the end of
\* the input would more of it help.  `wrong` is any other defect.
Judged(missing, wrong) ==
  /\ errors' = (errors \/ missing \/ wrong)
  /\ incomplete' = (incomplete \/ (missing /\ peek = "end"))
  /\ spoiled' = (spoiled \/ wrong \/ (missing /\ peek # "end"))
Sound == UNCHANGED verdict
\* A word carries its token's defect.
AsItsToken == errors' = (errors \/ peek = "?") /\ UNCHANGED <<incomplete, spoiled>>

Kept == UNCHANGED <<world, table, pending>>
Moves(next) == stack' = next /\ UNCHANGED result
Returns(children) == stack' = Under /\ result' = children

(***************************************************************************)
(* Lists, and what joins commands                                           *)
(***************************************************************************)

at_list_terminator == peek_reserved \in ListTerminators

\* parse_body: the whole input, or one command up to a newline of the input.
parse_body ==
  \/ /\ At({"program"}, "begin") /\ peek \in Separators
     /\ Moves(Going(IF world.one_command /\ alias_stack = <<>> /\ peek = "newline" THEN "read" ELSE "begin"))
     /\ advance("operator", FALSE) /\ Sound
  \/ /\ At({"program"}, "begin") /\ peek \notin Separators \cup {"end"}
     /\ Moves(Calling("item", "item")) /\ Stays /\ Sound

parse_compound_list ==
  \/ /\ At({"list"}, "begin") /\ peek \in Separators
     /\ Moves(Going("begin")) /\ advance("operator", FALSE) /\ Sound
  \/ /\ At({"list"}, "begin") /\ peek \notin Separators
     /\ Moves(Going("offered")) /\ Offered /\ Sound
  \/ /\ At({"list"}, "offered")
     /\ IF peek \in Separators THEN Moves(Going("begin"))
        ELSE IF peek \in {"end", ")", ";;", ";&"} \/ at_list_terminator THEN Returns(Top.children)
        ELSE Moves(Calling("item", "item"))
     /\ Stays /\ Sound

\* A command was read; one that took no token would be read for ever.
ListItem ==
  \/ /\ At({"program", "list"}, "item") /\ index # Top.before
     /\ Moves(Grown("begin")) /\ Stays /\ Sound
  \/ /\ At({"program", "list"}, "item") /\ index = Top.before
     /\ Moves(Grown("begin")) /\ advance("error", FALSE) /\ Judged(FALSE, TRUE)

parse_list_item ==
  \/ /\ At({"item"}, "begin") /\ Moves(Calling("and_or", "back")) /\ Stays /\ Sound
  \/ /\ At({"item"}, "back") /\ Returns(1) /\ Sound
     /\ IF peek = "&" THEN advance("operator", FALSE) ELSE Stays

\* Newlines after an operator; one more word may be an alias for nothing.
skip_linebreak ==
  \/ /\ At({"and_or", "pipeline"}, "linebreak") /\ peek = "newline"
     /\ Moves(Going("linebreak")) /\ advance("operator", FALSE) /\ Sound
  \/ /\ At({"and_or", "pipeline"}, "linebreak") /\ peek # "newline"
     /\ Moves(Append(Under, [Top EXCEPT !.at = "offered", !.before = index])) /\ Offered /\ Sound
  \/ /\ At({"and_or", "pipeline"}, "offered")
     /\ Moves(IF index # Top.before THEN Going("linebreak")
              ELSE Calling(IF Top.f = "and_or" THEN "pipeline" ELSE "command_or_compound", "back"))
     /\ Stays /\ Sound

parse_and_or ==
  \/ /\ At({"and_or"}, "begin") /\ Moves(Calling("pipeline", "back")) /\ Stays /\ Sound
  \/ /\ At({"and_or"}, "back") /\ peek \in {"&&", "||"}
     /\ Moves(Going("linebreak")) /\ advance("operator", FALSE) /\ Sound
  \/ /\ At({"and_or"}, "back") /\ peek \notin {"&&", "||"} /\ Returns(1) /\ Stays /\ Sound

parse_pipeline ==
  \/ /\ At({"pipeline"}, "begin") /\ Moves(Going("first")) /\ Offered /\ Sound
  \/ /\ At({"pipeline"}, "first") /\ peek_reserved = "!"
     /\ Moves(Becoming("pipeline")) /\ accept_keyword /\ Sound   \* a negation's child is its own pipeline
  \/ /\ At({"pipeline"}, "first") /\ peek_reserved # "!"
     /\ Moves(Calling("command_or_compound", "back")) /\ Stays /\ Sound
  \/ /\ At({"pipeline"}, "back") /\ peek = "|"
     /\ Moves(Going("linebreak")) /\ advance("operator", FALSE) /\ Sound
  \/ /\ At({"pipeline"}, "back") /\ peek # "|" /\ Returns(1) /\ Stays /\ Sound

Compound == [if |-> "if", while |-> "while", until |-> "until", for |-> "for", case |-> "case"] @@ ("{" :> "brace")

\* The parser looks two tokens ahead: what it sees there has now been typed.
Peers ==
  /\ At({"command_or_compound"}, "which") /\ NeedsMore
  /\ \E t \in Typed : upcoming' = Append(upcoming, t) /\ input' = Chosen(t)
  /\ UNCHANGED <<reader, peek, index, alias_stack, stack, result, oracle>> /\ Sound

parse_command_or_compound ==
  \/ /\ At({"command_or_compound"}, "begin") /\ Moves(Going("which")) /\ Offered /\ Sound
  \/ /\ At({"command_or_compound"}, "which") /\ ~NeedsMore /\ Stays /\ Sound
     /\ Moves(IF at_function_definition THEN Becoming("function")
              ELSE IF peek = "(" THEN Append(Becoming("redirects"), Frame("subshell"))
              ELSE IF peek_reserved \in DOMAIN Compound
                   THEN Append(Becoming("redirects"), Frame(Compound[peek_reserved]))
              ELSE Becoming("command"))

attach_trailing_redirects ==
  /\ At({"redirects"}, "begin") /\ Stays /\ Sound
  /\ IF peek \in Redirections \cup {"descriptor"} THEN Moves(Append(stack, Frame("redirect"))) ELSE Returns(1)

(***************************************************************************)
(* Compound commands                                                        *)
(***************************************************************************)

\* The construct's first word, `if` or `{` or `(`, and the list after it.
Opens ==
  \/ /\ At({"if", "while", "until", "brace"}, "begin")
     /\ Moves(Calling("list", "opened")) /\ accept_keyword /\ Sound
  \/ /\ At({"subshell"}, "begin")
     /\ Moves(Calling("list", "opened")) /\ advance("operator", FALSE) /\ Sound

\* require_list(list) where `lists` says there was one, then require(token):
\* either defect is recorded, and the parser goes on with what it finds.
Required(f, at, lists, token, then, else) ==
  LET there == peek = token
      empty == lists /\ result = 0
  IN /\ At(f, at)
     /\ Judged(empty \/ ~there, FALSE)
     /\ IF there THEN /\ Moves(then)
                      /\ advance(IF token \in Reserved THEN "keyword" ELSE "operator", FALSE)
        ELSE Moves(else) /\ Stays

\* accept(token) with a list after it, where one came before.
Accepted(f, at, token, then, else) ==
  /\ At(f, at) /\ Judged(result = 0, FALSE)
  /\ IF peek = token THEN Moves(then) /\ accept_keyword ELSE Moves(else) /\ Stays

Ended(f, at, lists, token) ==
  LET there == peek = token
      empty == lists /\ result = 0
  IN /\ At(f, at) /\ Returns(1) /\ Judged(empty \/ ~there, FALSE)
     /\ IF there THEN advance(IF token \in Reserved THEN "keyword" ELSE "operator", FALSE) ELSE Stays

parse_if ==
  \/ Required({"if"}, "opened", TRUE, "then", Calling("list", "elif"), Going("else alone"))
  \/ Accepted({"if"}, "elif", "elif", Calling("list", "opened"), Going("else alone"))
  \/ /\ At({"if"}, "else alone") /\ Sound
     /\ IF peek = "else" THEN Moves(Calling("list", "fi")) /\ accept_keyword
        ELSE Moves(Going("fi alone")) /\ Stays
  \/ Ended({"if"}, "fi", TRUE, "fi")
  \/ Ended({"if"}, "fi alone", FALSE, "fi")

parse_while_or_until ==
  \/ Required({"while", "until"}, "opened", TRUE, "do", Calling("list", "done"), Going("done alone"))
  \/ Ended({"while", "until", "for"}, "done", TRUE, "done")
  \/ Ended({"while", "until", "for"}, "done alone", FALSE, "done")

parse_brace_group == Ended({"brace"}, "opened", TRUE, "}")
parse_subshell    == Ended({"subshell"}, "opened", TRUE, ")")

parse_for ==
  \/ /\ At({"for"}, "begin") /\ Moves(Going("variable")) /\ advance("keyword", TRUE) /\ Sound
  \/ /\ At({"for"}, "variable") /\ Moves(Going("in"))
     /\ IF IsWord(peek) THEN advance("name", FALSE) /\ Sound ELSE Stays /\ Judged(TRUE, FALSE)
  \/ /\ At({"for"}, "in") /\ Sound
     /\ IF peek = "newline" THEN Moves(Going("in")) /\ advance("operator", FALSE)
        ELSE IF peek_reserved = "in" THEN Moves(Going("words")) /\ accept_keyword
        ELSE Moves(Going("words done")) /\ Stays
  \/ /\ At({"for"}, "words") /\ IsWord(peek) /\ Moves(Going("words"))
     /\ advance("ordinary", FALSE) /\ AsItsToken
  \/ /\ At({"for"}, "words") /\ ~IsWord(peek) /\ Moves(Going("words done")) /\ Stays /\ Sound
  \/ /\ At({"for"}, "words done") /\ peek \in Separators
     /\ Moves(Going("words done")) /\ advance("operator", FALSE) /\ Sound
  \/ /\ peek \notin Separators
     /\ Required({"for"}, "words done", FALSE, "do", Calling("list", "done"), Going("done alone"))

parse_case ==
  \/ /\ At({"case"}, "begin") /\ Moves(Going("subject")) /\ accept_keyword /\ Sound
  \/ /\ At({"case"}, "subject") /\ Moves(Going("in")) /\ AsItsToken
     /\ IF IsWord(peek) THEN advance("case_subject", FALSE) ELSE Stays
  \/ /\ At({"case"}, "in") /\ peek = "newline"
     /\ Moves(Going("in")) /\ advance("operator", FALSE) /\ Sound
  \/ /\ peek # "newline" /\ Required({"case"}, "in", FALSE, "in", Going("items"), Going("items"))
  \/ /\ At({"case"}, "items") /\ peek \in Separators
     /\ Moves(Going("items")) /\ advance("operator", FALSE) /\ Sound
  \/ /\ At({"case"}, "items") /\ peek \notin Separators /\ Stays /\ Sound
     /\ Moves(IF peek = "end" \/ peek_reserved = "esac" \/ (Top.seen /\ index = Top.before)
              THEN Going("esac")
              ELSE Append(Append(Under, [Top EXCEPT !.seen = TRUE, !.before = index]), Frame("case_item")))
  \/ Ended({"case"}, "esac", FALSE, "esac")

case_item ==
  \/ /\ At({"case_item"}, "begin") /\ Moves(Going("pattern")) /\ Sound
     /\ IF peek = "(" THEN advance("operator", FALSE) ELSE Stays
  \/ /\ At({"case_item"}, "pattern") /\ AsItsToken
     /\ IF IsWord(peek) THEN Moves(Going("bar")) /\ advance("pattern", FALSE)
        ELSE Moves(Going("close")) /\ Stays
  \/ /\ At({"case_item"}, "bar") /\ Sound
     /\ IF peek = "|" THEN Moves(Going("pattern")) /\ advance("operator", FALSE)
        ELSE Moves(Going("close")) /\ Stays
  \/ Required({"case_item"}, "close", FALSE, ")", Calling("list", "closed"), Calling("list", "closed"))
  \/ /\ At({"case_item"}, "closed") /\ Returns(1) /\ Sound
     /\ IF peek \in {";;", ";&"} THEN advance("operator", FALSE) ELSE Stays

parse_function_definition ==
  \/ /\ At({"function"}, "begin") /\ Moves(Going("(")) /\ advance("name", FALSE) /\ Sound
  \/ /\ At({"function"}, "(") /\ Moves(Going(")")) /\ advance("operator", FALSE) /\ Sound
  \/ /\ At({"function"}, ")") /\ Moves(Going("body")) /\ advance("operator", FALSE) /\ Sound
  \/ /\ At({"function"}, "body") /\ peek \in Separators
     /\ Moves(Going("body")) /\ advance("operator", FALSE) /\ Sound
  \/ /\ At({"function"}, "body") /\ peek \notin Separators
     /\ Moves(Calling("command_or_compound", "back")) /\ Stays /\ Sound
  \/ /\ At({"function"}, "back") /\ Returns(1) /\ Stays /\ Sound

(***************************************************************************)
(* Simple commands and redirections                                         *)
(***************************************************************************)

\* mutant: a reserved word ends a command wherever it stands.
ReservedEndsCommand == peek \in EndsCommand \/ at_list_terminator
EndsHere == peek \in EndsCommand \/ (Top.children = 0 /\ at_list_terminator)

\* Words that a trailing `[name=value]` or redirection may precede: the first
\* that is neither is the command's name, and is offered to the aliases.
parse_command ==
  \/ /\ At({"command"}, "begin") /\ Stays /\ Sound
     /\ IF EndsHere THEN Returns(Top.children)
        ELSE Moves(IF peek \in Redirections \cup {"descriptor"}
                   THEN Append(Grown("begin"), Frame("redirect"))
                   ELSE IF ~IsWord(peek) THEN Going("stray")
                   ELSE IF ~Top.seen /\ Top.children > 0 /\ peek # "=" THEN Going("offer")
                   ELSE Going("word"))
  \/ /\ At({"command"}, "offer") /\ Offered /\ Sound
     /\ Moves(Append(Under, [Top EXCEPT !.at = "offered", !.before = index]))
  \/ /\ At({"command"}, "offered") /\ Stays /\ Sound
     /\ Moves(IF index # Top.before THEN Going("begin") ELSE Going("word"))
  \/ /\ At({"command"}, "word") /\ AsItsToken
     /\ Moves(Append(Under, [Grown("begin")[Len(stack)] EXCEPT !.seen = @ \/ peek # "="]))
     /\ advance(IF Top.seen THEN "ordinary" ELSE IF peek = "=" THEN "assignment" ELSE "command_name", FALSE)
  \/ /\ At({"command"}, "stray") /\ Moves(Grown("begin")) /\ advance("error", FALSE) /\ Judged(FALSE, TRUE)

\* The operand of a redirection may be missing, which no more input mends: the
\* word has to stand on the operator's line.
parse_redirect ==
  \/ /\ At({"redirect"}, "begin") /\ Sound
     /\ IF peek = "descriptor" THEN Moves(Going("begin")) /\ advance("operator", FALSE)
        ELSE Moves(Going(IF peek = "<<" THEN "delimiter" ELSE "target")) /\ advance("operator", FALSE)
  \/ /\ At({"redirect"}, "target") /\ Returns(1)
     /\ IF IsWord(peek) THEN advance("redirect_target", FALSE) /\ AsItsToken ELSE Stays /\ Judged(FALSE, TRUE)
  \/ /\ At({"redirect"}, "delimiter") /\ ~IsWord(peek) /\ Returns(1) /\ Stays /\ Judged(FALSE, TRUE)

here_doc ==
  /\ At({"redirect"}, "delimiter") /\ IsWord(peek)
  /\ pending' = pending + 1
  /\ Returns(1) /\ advance("redirect_target", FALSE) /\ AsItsToken

(***************************************************************************)
(* The whole                                                                *)
(***************************************************************************)

Init ==
  /\ world \in Worlds /\ table = 1
  /\ reader = Filling(FALSE) /\ peek = "end" /\ index = 0 /\ alias_stack = <<>> /\ upcoming = <<>>
  /\ input = [drawn |-> 0, last |-> "none", strays |-> 0, cut |-> FALSE]
  /\ pending = 0 /\ stack = <<Frame("program")>> /\ result = 0
  /\ errors = FALSE /\ incomplete = FALSE /\ spoiled = FALSE
  /\ expected = Whole /\ said = "none"

Done == stack = <<>>

parse == /\ At({"program"}, "begin") /\ peek = "end"
         /\ Returns(Top.children) /\ Stays /\ Sound /\ Kept

\* The next unit is read from the cursor, which stands before the token that
\* was looked at; what the last one ran may have defined other aliases.
parse_next_command ==
  /\ At({"program"}, "read")
  /\ IF peek = "end" THEN Returns(Top.children) /\ Stays /\ UNCHANGED table
     ELSE /\ reader' = Filling(FALSE) /\ upcoming' = <<peek>> \o upcoming
          /\ Moves(<<Frame("program")>>)
          /\ table' \in DOMAIN world.tables
          /\ alias_stack' = <<>>
          /\ UNCHANGED <<peek, index, input, oracle>>
  /\ Sound /\ UNCHANGED <<world, pending>>

Next ==
  \/ Read \/ parse \/ parse_next_command
  \/ Peers /\ Kept
  \/ /\ \/ parse_body \/ parse_compound_list \/ ListItem \/ parse_list_item
        \/ skip_linebreak \/ parse_and_or \/ parse_pipeline
        \/ parse_command_or_compound \/ attach_trailing_redirects
        \/ Opens \/ parse_if \/ parse_while_or_until \/ parse_brace_group \/ parse_subshell
        \/ parse_for \/ parse_case \/ case_item \/ parse_function_definition
        \/ parse_command \/ parse_redirect
     /\ Kept
  \/ here_doc /\ UNCHANGED <<world, table>>

Spec == Init /\ [][Next]_vars /\ WF_vars(Next)

(***************************************************************************)
(* What it promises                                                         *)
(***************************************************************************)

\* What was typed is a program of the grammar; or one that lesh reads as well.
Program  == ~input.cut /\ \E r \in Finished(expected) : r.strict
Readable == ~input.cut /\ Finished(expected) # {}

\* A program of the grammar is read with every word as what the grammar says it
\* is, as deep inside its constructs; what is read without a defect and asks for
\* nothing more is what lesh's grammar has, all of it and nothing else; and more
\* input is asked for only where more could mend what there is.
WordsHaveTheirParts == Done /\ Program => \E r \in Finished(expected) : r.strict /\ r.agrees
ReadsItsLanguage == Done /\ pending = 0 => (Readable <=> ~errors /\ ~incomplete)
MoreWouldHelp == Done /\ incomplete /\ ~spoiled => expected # {}
ParsesTheGrammar == WordsHaveTheirParts /\ ReadsItsLanguage /\ MoreWouldHelp

\* An alias replaces the words that are commands, and those after a definition
\* that ends in a blank; a command's name is never an alias left unexpanded.
AliasesStandForCommands ==
  [][/\ ~spoiled /\ Len(alias_stack') > Len(alias_stack) =>
          reader.eligible \/ InPosition(expected, {"name", "name after prefix"})
     /\ said' = "command_name" /\ reader'.pc = "fill" /\ reader.pc = "ready" /\ peek \in DOMAIN Table \ Reserved
          => \E f \in ToSet(alias_stack) : Body(f.name) = Body(peek)]_vars

\* The parser comes to an end whatever it is given: no list stands still, and no
\* definition that leads back to itself is expanded for ever.
ParserComesToAnEnd == <>Done
=============================================================================
