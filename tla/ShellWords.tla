----------------------------- MODULE ShellWords -----------------------------
(* A shell whose words are expanded, whose expressions are evaluated and whose *)
(* patterns are matched, one after the other; what an expansion assigns stays. *)
EXTENDS Expansion, Arithmetic

CONSTANTS Worlds,     \* what is asked of it, and under which settings
          MaxScanNesting, MaxPendingHereDocs
T == INSTANCE WordReader

VARIABLES world, values, request, answer
vars_ == <<world, values, request, answer>>

-----------------------------------------------------------------------------
(* What word expansion promises, said of the whole word at once: every byte it *)
(* makes, whether it is quoted and whether it may separate fields (POSIX       *)
(* 2.6.5 and 2.6.7); Expansion builds the same fields byte by byte.            *)

Byte(c, quoted, splits) == [mark |-> "byte", c |-> c, quoted |-> quoted, splits |-> splits]
Quotes == [mark |-> "quotes", c |-> "", quoted |-> TRUE, splits |-> FALSE]
Break == [mark |-> "break", c |-> "", quoted |-> TRUE, splits |-> FALSE]
Bytes(text, quoted, splits) == [k \in DOMAIN text |-> Byte(text[k], quoted, splits)]
TextOf(items) == LET bytes == SelectSeq(items, LAMBDA one : one.mark = "byte") IN [k \in DOMAIN bytes |-> bytes[k].c]

\* Quoted bytes a matcher must read as data.
Form(items) ==
  FlattenSeq([k \in DOMAIN items |->
                IF items[k].mark # "byte" THEN <<>>
                ELSE IF items[k].quoted /\ items[k].c \in PatternSyntax THEN <<"\\", items[k].c>>
                ELSE <<items[k].c>>])

LiteralItems(bytes, quoted, in_braces, substituted) ==
  FlattenSeq([k \in DOMAIN bytes |->
    IF ~bytes[k].escaped THEN <<Byte(bytes[k].c, quoted, substituted /\ ~quoted)>>
    ELSE IF bytes[k].c = "\n" THEN <<>>
    ELSE IF Escapes([double_quoted |-> quoted, in_braces |-> in_braces, here |-> FALSE], bytes[k].c)
         THEN <<Byte(bytes[k].c, TRUE, FALSE)>>
    ELSE <<Byte("\\", quoted, substituted /\ ~quoted), Byte(bytes[k].c, quoted, substituted /\ ~quoted)>>])

\* One field for each positional parameter, or all in one.
Separately(shell, quoted, mark) ==
  FlattenSeq([k \in DOMAIN shell.positional |->
    (IF k > 1 THEN <<Break>> ELSE <<>>) \o mark \o Bytes(shell.positional[k], quoted, ~quoted)])
Together(shell, quoted) == Bytes(Joined([shell |-> shell]), quoted, FALSE)
PositionalItems(shell, name, quoted, fields, splits) ==
  IF quoted /\ fields /\ name = "@" THEN Separately(shell, TRUE, <<Quotes>>)
  ELSE IF splits THEN Separately(shell, FALSE, <<>>)
  ELSE <<Quotes>> \o Together(shell, quoted)

\* What a segment is expanded under; vars are those before it.
At_(shell, vars, quoted, in_braces, substituted, fields, splits) ==
  [shell |-> shell, vars |-> vars, quoted |-> quoted, in_braces |-> in_braces, substituted |-> substituted,
   fields |-> fields, splits |-> splits]
Within(at) == [at EXCEPT !.in_braces = TRUE, !.substituted = TRUE]
AsValue(at) == [at EXCEPT !.in_braces = TRUE, !.fields = FALSE, !.splits = FALSE, !.substituted = FALSE]
Made(at, items) == [items |-> items, vars |-> at.vars, refused |-> FALSE]
Refused(at) == [items |-> <<>>, vars |-> at.vars, refused |-> TRUE]
ValueOf(at, text) == Made(at, Bytes(text, at.quoted, at.splits))

ParameterItems(at, s, Items(_, _)) ==
  LET value == lookup_parameter([shell |-> at.shell, vars |-> at.vars], s.name)
      absent == ~value.found \/ (s.colon /\ value.text = <<>>)
  IN CASE s.op = "none" /\ s.name \in {"@", "*"} ->
            Made(at, PositionalItems(at.shell, s.name, at.quoted, at.fields, at.splits))
       [] s.op = "length" /\ value.found ->
            Made(at, Bytes(Digits(IF s.name \in {"@", "*"} THEN Len(at.shell.positional) ELSE Len(value.text)),
                           at.quoted, FALSE))
       [] s.op = "length" /\ ~value.found -> IF at.shell.nounset THEN Refused(at) ELSE Made(at, Bytes(Digits(0), at.quoted, FALSE))
       [] s.op = "alternate" -> IF absent THEN Made(at, <<>>) ELSE Items(Within(at), s.word)
       [] s.op = "default" /\ absent -> Items(Within(at), s.word)
       [] s.op = "assign" /\ absent ->
            LET made == Items(AsValue(at), s.word) IN
            IF s.name \notin Assignable \/ s.name \in at.shell.readonly THEN Refused(at)
            ELSE [ValueOf(at, TextOf(made.items)) EXCEPT !.vars = (s.name :> TextOf(made.items)) @@ made.vars,
                                                         !.refused = made.refused]
       [] s.op = "error" /\ absent -> Refused(at)
       [] s.op = "trim" /\ value.found ->
            LET made == Items([AsValue(at) EXCEPT !.quoted = FALSE], s.word)
            IN [ValueOf(at, Kept(value.text, s.prefix, match_end(Form(made.items), value.text, s.prefix, s.longest)))
                EXCEPT !.vars = made.vars, !.refused = made.refused]
       [] OTHER -> IF value.found THEN ValueOf(at, value.text)
                   ELSE IF at.shell.nounset THEN Refused(at) ELSE Made(at, <<>>)

OnlyAbsent(at, word) ==
  /\ word # <<>> /\ at.shell.positional = <<>> /\ at.fields
  /\ \A k \in DOMAIN word : word[k].seg = "parameter" /\ word[k].name = "@" /\ word[k].op = "none"

SegmentItems(at, s, Items(_, _)) ==
  CASE s.seg = "literal" -> Made(at, LiteralItems(s.bytes, at.quoted, at.in_braces, at.substituted /\ at.splits))
    [] s.seg \in {"single", "ansi"} -> Made(at, <<Quotes>> \o Bytes(s.text, TRUE, FALSE))
    [] s.seg = "double" ->
         LET made == Items([at EXCEPT !.quoted = TRUE, !.splits = FALSE, !.substituted = FALSE, !.in_braces = FALSE], s.word)
         IN IF OnlyAbsent(at, s.word) THEN made ELSE [made EXCEPT !.items = <<Quotes>> \o @]
    [] s.seg = "parameter" -> ParameterItems(at, s, Items)
    [] s.seg = "tilde" -> Made(at, Bytes(at.shell.home, FALSE, FALSE))
    [] s.seg = "command" -> IF s.status # "ok" THEN Refused(at) ELSE ValueOf(at, WithoutNewlines(s.text))
    [] s.seg = "arithmetic" ->
         LET made == Items([AsValue(at) EXCEPT !.quoted = TRUE, !.in_braces = FALSE], s.word) IN
         IF s.status \in {"refused", "malformed"} \/ (s.status = "unset" /\ at.shell.nounset) THEN Refused(at)
         ELSE [ValueOf(at, s.text) EXCEPT !.vars = made.vars, !.refused = made.refused]

RECURSIVE Items(_, _)
Items(at, word) ==
  FoldLeft(LAMBDA acc, s :
             LET made == SegmentItems([at EXCEPT !.vars = acc.vars], s, Items) IN
             [items |-> acc.items \o made.items, vars |-> made.vars, refused |-> acc.refused \/ made.refused],
           Made(at, <<>>), word)

-----------------------------------------------------------------------------
(* Field splitting: a separator is white space, at most one other separator,   *)
(* and white space; what leads a piece is not one.                             *)

Separates(item, ifs) == item.splits /\ \E k \in DOMAIN ifs : ifs[k] = item.c
WhiteFrom(items, ifs, from) ==
  CHOOSE k \in from..(Len(items) + 1) :
    /\ \A j \in from..(k - 1) : Separates(items[j], ifs) /\ items[j].c \in Blanks
    /\ k <= Len(items) => ~(Separates(items[k], ifs) /\ items[k].c \in Blanks)
OtherFrom(items, ifs, from) ==
  IF from <= Len(items) /\ Separates(items[from], ifs) /\ items[from].c \notin Blanks THEN from + 1 ELSE from
AfterSeparator(items, ifs, from) == WhiteFrom(items, ifs, OtherFrom(items, ifs, WhiteFrom(items, ifs, from)))
FieldEnd(items, ifs, from) ==
  CHOOSE k \in from..(Len(items) + 1) :
    /\ \A j \in from..(k - 1) : ~Separates(items[j], ifs)
    /\ k <= Len(items) => Separates(items[k], ifs)

RECURSIVE SplitFrom(_, _, _)
SplitFrom(items, ifs, from) ==
  IF from > Len(items) THEN <<>>
  ELSE LET end == FieldEnd(items, ifs, from)
       IN <<SubSeq(items, from, end - 1)>> \o SplitFrom(items, ifs, AfterSeparator(items, ifs, end))
Pieces(items) ==
  LET cuts == SelectSeq([k \in 1..(Len(items) + 1) |-> k], LAMBDA k : k = Len(items) + 1 \/ items[k].mark = "break")
  IN [n \in DOMAIN cuts |-> SubSeq(items, IF n = 1 THEN 1 ELSE cuts[n - 1] + 1, cuts[n] - 1)]
FieldsOf(items, ifs) ==
  FlattenSeq([n \in DOMAIN Pieces(items) |-> SplitFrom(Pieces(items)[n], ifs, WhiteFrom(Pieces(items)[n], ifs, 1))])

-----------------------------------------------------------------------------
(* The fields of a word, and what pathname expansion makes of each.            *)

Found(shell, items) ==
  LET found == IF shell.globbing THEN expand_pathnames(shell.tree, <<Form(items)>>) ELSE {} IN
  IF found = {} THEN <<TextOf(items)>> ELSE SetToSeq({path[1] : path \in found})

\* The fields of a word of a command, and the variables after it.
WordOf(shell, made, fields) ==
  [split |-> [k \in DOMAIN fields |-> TextOf(fields[k])], vars |-> made.vars, refused |-> made.refused,
   fields |-> FlattenSeq([k \in DOMAIN fields |-> Found(shell, fields[k])])]
SplitWord(shell, made) == WordOf(shell, made, FieldsOf(made.items, shell.ifs))
PosixWord(shell, vars, word) == SplitWord(shell, Items(At_(shell, vars, FALSE, FALSE, FALSE, TRUE, TRUE), word))
\* A word that makes one value.
PosixValue(shell, vars, word, role) ==
  LET made == Items(At_(shell, vars, FALSE, FALSE, FALSE, FALSE, FALSE), word)
  IN [text |-> IF role = "pattern" THEN Form(made.items) ELSE TextOf(made.items),
      vars |-> made.vars, refused |-> made.refused]

-----------------------------------------------------------------------------
(* What is asked of the shell.                                                 *)

Sentences(pieces, longest) == UNION {[1..n -> pieces] : n \in 0..longest}

Nothing == [asked |-> "nothing"]
Asks(kind) == request = Nothing /\ world.kind = kind

\* A command's word, through to its pathnames.
ExpandWord ==
  /\ Asks("words")
  /\ \E word \in Sentences(world.segments, world.longest) :
       LET said == expand_word(world.shell, values, word, "ordinary") IN
       /\ request' = [word |-> word, before |-> values, role |-> "ordinary"]
       /\ answer' = said
       /\ values' = said.vars
  /\ UNCHANGED world

\* A case's word or pattern, the target of a redirection.
ExpandOneValue ==
  /\ Asks("words")
  /\ \E word \in Sentences(world.segments, world.longest), role \in {"pattern", "case_subject"} :
       LET said == expand_word(world.shell, values, word, role) IN
       /\ request' = [word |-> word, before |-> values, role |-> role]
       /\ answer' = said
       /\ values' = said.vars
  /\ UNCHANGED world

\* An assignment's value.
ExpandAssignment ==
  /\ Asks("words")
  /\ \E word \in Sentences(world.segments, world.longest) :
       LET said == expand_value(world.shell, values, word, "assignment") IN
       /\ request' = [word |-> word, before |-> values, role |-> "assignment"]
       /\ answer' = [said EXCEPT !.text = <<said.text>>]
       /\ values' = said.vars
  /\ UNCHANGED world

EvaluateExpression ==
  /\ Asks("arithmetic")
  /\ \E tree \in world.trees, before \in world.values :
       /\ request' = [tree |-> tree, before |-> before]
       /\ answer' = evaluate(Text(tree), before)
  /\ UNCHANGED <<world, values>>

\* A pattern given by what it is made of, and one given by its characters.
MatchPattern ==
  /\ Asks("patterns")
  /\ \E items \in Sentences(world.items, world.longest) : request' = [items |-> items]
  /\ UNCHANGED <<world, values, answer>>
ReadPattern ==
  /\ Asks("spelled")
  /\ \E word \in Sentences(world.symbols, world.longest) : request' = [word |-> word]
  /\ UNCHANGED <<world, values, answer>>
FindPathnames ==
  /\ Asks("paths")
  /\ \E components \in Sentences(world.components, world.longest) \ {<<>>} :
       /\ request' = [components |-> components]
       /\ answer' = expand_pathnames(world.tree, components)
  /\ UNCHANGED <<world, values>>

\* The text of a word, followed by something; cut short; broken by a line
\* continuation.  What is read is the first token, and the segments of a word.
Readings(written) ==
  {[how |-> "whole", at |-> 0, text |-> written \o follow] : follow \in world.follows}
  \cup {[how |-> "cut", at |-> n, text |-> SubSeq(written, 1, n)] : n \in 1..(Len(written) - 1)}
  \cup {[how |-> "broken", at |-> n, text |-> T!Broken(written, n)] :
          n \in {k \in 0..Len(written) : world.breakable /\ \A j \in {k} \ {0} : written[j] # "\\"}}
TextRead(text, token) ==
  [token |-> token, word |-> IF token.error = "none" THEN T!ReadWord(SubSeq(text, 1, token.to - 1), "word") ELSE <<>>]
ReadText ==
  /\ Asks("texts")
  /\ \E word \in Sentences(world.segments, world.longest) \ {<<>>}, style \in world.styles :
       \E reading \in Readings(T!Written(word, style)) :
         /\ request' = [how |-> reading.how, word |-> word, style |-> style, at |-> reading.at]
         /\ \E token \in {T!next(reading.text, 1)} : answer' = TextRead(reading.text, token)
  /\ UNCHANGED <<world, values>>
\* Any line, all of its tokens, and the same line broken.
ReadLine ==
  /\ Asks("lines")
  /\ \E line \in Sentences(world.symbols, world.longest) :
       /\ \A k \in 2..Len(line) : ~(line[k] = "$" /\ line[k - 1] = "$")
       /\ request' = [line |-> line]
       /\ answer' = T!Tokens(line)
  /\ UNCHANGED <<world, values>>
MatchDelimiter ==
  /\ Asks("delimiters")
  /\ \E word \in Sentences(world.segments, world.longest) \ {<<>>}, line \in Sentences(world.symbols, world.longest) :
       /\ request' = [word |-> word, line |-> line]
       /\ answer' = [matches |-> T!here_doc_delimiter_matches(T!Written(word, [braces |-> FALSE, backquotes |-> FALSE]), line)]
  /\ UNCHANGED <<world, values>>

\* The answer is taken; what was assigned stays.
TakeAnswer ==
  /\ request # Nothing
  /\ request' = Nothing
  /\ answer' = Nothing
  /\ UNCHANGED <<world, values>>

Init ==
  /\ world \in Worlds
  /\ values = IF world.kind = "words" THEN world.values ELSE <<>>
  /\ request = Nothing
  /\ answer = Nothing
Next ==
  \/ ExpandWord
  \/ ExpandOneValue
  \/ ExpandAssignment
  \/ EvaluateExpression
  \/ MatchPattern
  \/ ReadPattern
  \/ FindPathnames
  \/ ReadText
  \/ ReadLine
  \/ MatchDelimiter
  \/ TakeAnswer
Spec == Init /\ [][Next]_vars_

-----------------------------------------------------------------------------
(* Properties.                                                                 *)

Asked(kind) == world.kind = kind /\ request # Nothing

\* A word's fields are those POSIX cuts its bytes into, at the separators and
\* nowhere else, and what a word assigns is what it says, whatever was put aside
\* meanwhile to make a value.
FieldsArePosixFields ==
  Asked("words") =>
    IF request.role = "ordinary"
    THEN \E meant \in {PosixWord(world.shell, request.before, request.word)} :
           ~meant.refused => answer.unglobbed = meant.split /\ answer.vars = meant.vars
    ELSE \E meant \in {PosixValue(world.shell, request.before, request.word, request.role)} :
           ~meant.refused => (IF request.role = "assignment" THEN answer.text ELSE answer.fields) = <<meant.text>>

\* Quoting survives to the matcher: pathname expansion finds what the unquoted
\* characters of a field match, and a quoted one matches itself (#210).
QuotedTextIsData ==
  Asked("words") /\ request.role = "ordinary" =>
    \E meant \in {PosixWord(world.shell, request.before, request.word)} :
      ~meant.refused /\ answer.unglobbed = meant.split => answer.fields = meant.fields

\* An error of an expansion that cannot be performed reaches the caller: it is
\* fatal, whatever else the word held and however deep it was.
RefusalsAreFatal ==
  Asked("words") =>
    LET meant == PosixWord(world.shell, request.before, request.word) IN meant.refused => answer.fatal

\* A word is expanded as POSIX has it: its fields, what of them is data, and
\* whether it can be expanded at all.
ExpansionIsPosix == FieldsArePosixFields /\ QuotedTextIsData /\ RefusalsAreFatal

\* The evaluator that computes as it parses says what the tree means in C: the
\* precedence of every operator, two's complement, and nothing done in an
\* operand that is skipped.
ArithmeticIsCs ==
  Asked("arithmetic") =>
    \E meant \in {Meaning(request.tree, request.before, {})} :
    /\ answer.ok = meant.ok
    /\ meant.ok => /\ answer.value = meant.value
                   /\ answer.vars = meant.vars
                   /\ answer.unset = meant.unset

Sets(item) == IF item.negated THEN {c \in world.alphabet : c \notin item.members} ELSE item.members
Spells(item) ==
  CASE item.kind = "any" -> <<"?">>
    [] item.kind = "star" -> <<"*">>
    [] item.kind = "literal" -> IF item.c \in PatternSyntax THEN <<"\\", item.c>> ELSE <<item.c>>
    [] item.kind = "set" -> item.text
SpelledOut(items) == FlattenSeq([k \in DOMAIN items |-> Spells(items[k])])
RECURSIVE InLanguage(_, _)
InLanguage(items, text) ==
  IF items = <<>> THEN text = <<>>
  ELSE LET item == Head(items) IN
       IF item.kind = "star" THEN \E n \in 0..Len(text) : InLanguage(Tail(items), SubSeq(text, n + 1, Len(text)))
       ELSE /\ text # <<>>
            /\ CASE item.kind = "any" -> TRUE
                 [] item.kind = "literal" -> Head(text) = item.c
                 [] item.kind = "set" -> Head(text) \in Sets(item)
            /\ InLanguage(Tail(items), Tail(text))
\* A matcher that goes back to its last * and no further matches the language of
\* the pattern.
MatchesTheLanguage ==
  Asked("patterns") =>
    \A text \in Sentences(world.alphabet, world.text) :
      pattern_match(SpelledOut(request.items), text, FALSE) = InLanguage(request.items, text)

\* A word that is refused a directory scan for being no pattern matches its own
\* name and nothing else (#204).
NonPatternsNameThemselves ==
  Asked("spelled") /\ ~is_pattern(request.word) =>
    \A text \in Sentences(world.alphabet, world.longest) :
      pattern_match(request.word, text, FALSE) = (text = remove_pattern_escapes(request.word))

\* The walk finds the files whose every component matches, and no path that is
\* not there.
WalkFindsFiles ==
  Asked("paths") =>
    LET named == SelectSeq(request.components, LAMBDA one : one # <<>>)
        reached(path) == \A n \in 1..(Len(path) - 1) : IsDirectory(world.tree, SubSeq(path, 1, n))
        matches(path) == /\ Len(path) = Len(named)
                         /\ \A n \in DOMAIN path :
                              IF is_pattern(named[n]) THEN pattern_match(named[n], path[n], TRUE)
                              ELSE path[n] = remove_pattern_escapes(named[n])
    IN is_pattern(WholeWord(request.components)) =>
         answer = {one.path : one \in {entry \in world.tree : matches(entry.path) /\ reached(entry.path)}}

\* A pattern finds what it says: the matcher, the words that are not scanned
\* for, and the walk.
PatternsFindWhatTheySay == MatchesTheLanguage /\ NonPatternsNameThemselves /\ WalkFindsFiles

\* A word ends where its last construct closes, whatever is inside of it, and
\* its segments are the ones that were written; a line continuation changes
\* nothing.
WordsReadAsWritten ==
  Asked("texts") /\ request.how \in {"whole", "broken"} =>
    /\ answer.token.kind = "word" /\ ~answer.token.incomplete
    /\ T!Joined(answer.word) = T!Joined(request.word)
    /\ request.how = "whole" => answer.token.to = Len(T!Written(request.word, request.style)) + 1

\* A word that is cut short asks for more exactly when something is open.
UnfinishedWordsAskForMore ==
  Asked("texts") /\ request.how = "cut" =>
    answer.token.incomplete <=> T!Unfinished(request.word, request.style, request.at)

\* What the scan of a line takes for a finished word, the scan of its inside
\* finds finished too, and the other way round (#47).
ScansAgree ==
  Asked("lines") =>
    \A k \in DOMAIN answer :
      answer[k].kind = "word" =>
        LET cut == T!Segments(SubSeq(request.line, answer[k].from, answer[k].to - 1), "word")
        IN /\ answer[k].error = "none" => \A j \in DOMAIN cut : cut[j].error = "none"
           /\ answer[k].error \notin {"none", "arithmetic"} => \E j \in DOMAIN cut : cut[j].error # "none"

\* A here-document's body ends at the line that is its delimiter without quotes.
BodiesEndAtTheirDelimiter ==
  Asked("delimiters") => answer.matches = (request.line = T!Value(request.word))

\* A word is found where it was written: its extent, whether it is finished, its
\* segments, and the delimiter that ends a here-document.
LexerReadsWhatWasWritten ==
  WordsReadAsWritten /\ UnfinishedWordsAskForMore /\ ScansAgree /\ BodiesEndAtTheirDelimiter
=============================================================================
