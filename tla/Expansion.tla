------------------------------ MODULE Expansion ------------------------------
(* Word expansion: runtime/expander.cpp.                                       *)
(*                                                                             *)
(* A word is the sequence of segments the lexer cuts it into:                  *)
(*   [seg "literal", bytes]           bytes are [c, escaped]                   *)
(*   [seg "single", text], [seg "ansi", text], [seg "double", word]            *)
(*   [seg "parameter", name, op, colon, word, prefix, longest]                 *)
(*   [seg "tilde"], [seg "command", status, text], [seg "arithmetic", word,    *)
(*   status, text], where status and text are the answer there will be.        *)
(* Text is a sequence of symbols.  A shell is [ifs, positional, home, nounset, *)
(* globbing, readonly, tree]; its variables are a function on those set.       *)
EXTENDS Patterns

CONSTANT MaxExpansionDepth      \* kMaxExpansionDepth

Blanks == {" ", "\t", "\n"}
PatternSyntax == {"\\", "*", "?", "[", "]", "-", "!", "^"}
Assignable == {"x", "y", "u"}

\* How a piece of text is treated; see expand_context.
Context(split, fields, double_quoted, pattern) ==
  [split |-> split, fields |-> fields, double_quoted |-> double_quoted, pattern |-> pattern,
   substituted |-> FALSE, in_braces |-> FALSE, here |-> FALSE]
Escapes(ctx, c) ==
  \/ ~ctx.double_quoted
  \/ c \in {"$", "backquote", "\\", "\n"}
  \/ c = "}" /\ ctx.in_braces
  \/ c = "\"" /\ ~ctx.here
InBraces(ctx) == [ctx EXCEPT !.in_braces = TRUE]
InOperator(ctx) == [ctx EXCEPT !.in_braces = TRUE, !.substituted = TRUE]

-----------------------------------------------------------------------------
(* The field under construction, and its pattern form beside it.               *)

\* form is meaningful once escaped; run and closed say where a run of            *)
\* separators stands.
EmptyField == [current |-> <<>>, form |-> <<>>, escaped |-> FALSE, started |-> FALSE, globbable |-> FALSE,
               building |-> FALSE, run |-> "none", closed |-> FALSE]
Begin(shell, vars, building) ==
  [shell |-> shell, vars |-> vars, fields |-> <<>>, forms |-> <<>>,
   field |-> [EmptyField EXCEPT !.building = building],
   empty_at |-> FALSE, other |-> FALSE, fatal |-> FALSE, status |-> "ok", depth |-> 0]

Reset(field) == [field EXCEPT !.run = "none", !.closed = FALSE]
push_byte(e, c) ==
  LET field == Reset(e.field) IN
  [e EXCEPT !.field = [field EXCEPT !.current = Append(@, c), !.started = TRUE,
                                    !.form = IF field.escaped THEN Append(@, c) ELSE @]]
append(e, text) ==
  LET field == Reset(e.field) IN
  [e EXCEPT !.field = [field EXCEPT !.current = @ \o text, !.started = TRUE,
                                    !.form = IF field.escaped THEN @ \o text ELSE @]]
escape_in_pattern(e) ==
  [e EXCEPT !.field.form = Append(IF e.field.escaped THEN e.field.form ELSE e.field.current, "\\"),
            !.field.escaped = TRUE]

finish_field(e, even_if_empty) ==
  IF ~e.field.started /\ ~even_if_empty THEN [e EXCEPT !.field = Reset(@)]
  ELSE [e EXCEPT !.fields = Append(@, e.field.current),
                 !.forms = IF ~e.field.building THEN @
                           ELSE Append(@, IF e.field.escaped THEN e.field.form ELSE e.field.current),
                 !.field = [EmptyField EXCEPT !.building = e.field.building, !.globbable = e.field.globbable]]

IsIfs(e, c) == \E k \in DOMAIN e.shell.ifs : e.shell.ifs[k] = c
\* mutant: a separator in progress has always closed a field.
SplitByteClosed(e, c) ==
  IF ~IsIfs(e, c) THEN push_byte(e, c)
  ELSE IF e.field.run = "none"
       THEN [finish_field(e, c \notin Blanks) EXCEPT
               !.field.run = IF c \in Blanks THEN "white" ELSE "delimited", !.field.closed = TRUE]
  ELSE IF c \in Blanks THEN e
  ELSE IF e.field.run = "white" /\ e.field.closed THEN [e EXCEPT !.field.run = "delimited"]
  ELSE [finish_field(e, TRUE) EXCEPT !.field.run = "delimited", !.field.closed = TRUE]
SplitByte(e, c) ==
  IF ~IsIfs(e, c) THEN push_byte(e, c)
  \* White space closes a field there is; any other separator closes one always.
  ELSE IF e.field.run = "none"
       THEN [finish_field(e, c \notin Blanks) EXCEPT
               !.field.run = IF c \in Blanks THEN "white" ELSE "delimited",
               !.field.closed = e.field.started \/ c \notin Blanks]
  ELSE IF c \in Blanks THEN e
  ELSE IF e.field.run = "white" /\ e.field.closed THEN [e EXCEPT !.field.run = "delimited"]
  ELSE [finish_field(e, TRUE) EXCEPT !.field.run = "delimited", !.field.closed = TRUE]
append_split(e, text) == FoldLeft(SplitByte, e, text)

append_quoted(e, text, ctx) ==
  IF ctx.pattern
  THEN LET escaped == FlattenSeq([k \in DOMAIN text |-> IF text[k] \in PatternSyntax THEN <<"\\", text[k]>> ELSE <<text[k]>>])
       IN [e EXCEPT !.field = [@ EXCEPT !.current = e.field.current \o escaped, !.started = TRUE,
                                        !.run = IF text = <<>> THEN @ ELSE "none", !.closed = @ /\ text = <<>>]]
  ELSE IF ~e.field.building \/ text = <<>> THEN append(e, text)
  ELSE FoldLeft(LAMBDA acc, c : push_byte(IF c \in PatternSyntax THEN escape_in_pattern(acc) ELSE acc, c), e, text)
append_value(e, text, ctx) == IF ctx.double_quoted THEN append_quoted(e, text, ctx) ELSE append(e, text)
Placed(e, text, ctx) == IF ctx.split THEN append_split(e, text) ELSE append_value(e, text, ctx)

Globbable(e) == [e EXCEPT !.field.globbable = TRUE]
Failed(e, status) == [e EXCEPT !.status = status, !.fatal = TRUE]
\* Whether an absent parameter is an error is set -u's to say.
ReportUnset(e) == IF e.shell.nounset THEN Failed(e, "parameter_unset") ELSE e

-----------------------------------------------------------------------------
(* Segments that hold text.                                                    *)

LiteralByte(e, c, ctx) ==
  IF ctx.double_quoted /\ (ctx.pattern \/ e.field.building) THEN append_quoted(e, <<c>>, ctx)
  ELSE IF ctx.split /\ ctx.substituted THEN SplitByte(e, c)
  ELSE push_byte(e, c)
Literal(e, bytes, ctx) ==
  LET raw == FlattenSeq([k \in DOMAIN bytes |-> IF bytes[k].escaped THEN <<"\\", bytes[k].c>> ELSE <<bytes[k].c>>])
      eligible == IF ctx.split /\ has_pattern_characters(raw) THEN Globbable(e) ELSE e
  IN FoldLeft(LAMBDA acc, one :
                IF one.escaped /\ one.c = "\n" THEN acc
                ELSE IF one.escaped /\ Escapes(ctx, one.c) THEN append_quoted(acc, <<one.c>>, ctx)
                ELSE LiteralByte(IF one.escaped THEN LiteralByte(acc, "\\", ctx) ELSE acc, one.c, ctx),
              eligible, bytes)

\* Quotes start a field; an empty $'' appends nothing first.
SingleQuoted(e, text, ctx) == [append_quoted(e, text, ctx) EXCEPT !.field.started = TRUE]
AnsiQuoted(e, text, ctx) ==
  [FoldLeft(LAMBDA acc, c : append_quoted(acc, <<c>>, ctx), e, text) EXCEPT !.field.started = TRUE]

\* Double quotes start a field unless all they held was an absent "$@".
DoubleQuoted(e, inner) ==
  LET absent == inner.empty_at /\ ~inner.other IN
  [inner EXCEPT !.empty_at = e.empty_at, !.other = e.other \/ ~absent, !.field.started = @ \/ ~absent]

-----------------------------------------------------------------------------
(* Parameters.                                                                 *)

Joined(e) ==
  FlattenSeq([k \in DOMAIN e.shell.positional |->
                IF k = 1 \/ e.shell.ifs = <<>> THEN e.shell.positional[k]
                ELSE <<e.shell.ifs[1]>> \o e.shell.positional[k]])
\* One field each: quoted or split.
EachAsField(e, Taken(_, _)) ==
  FoldLeft(LAMBDA acc, k : Taken(IF k > 1 THEN finish_field(acc, FALSE) ELSE acc, e.shell.positional[k]),
           e, [k \in DOMAIN e.shell.positional |-> k])
Positional(e, name, ctx) ==
  IF ctx.double_quoted /\ ctx.fields /\ name = "@"
  THEN IF e.shell.positional = <<>> THEN [e EXCEPT !.empty_at = TRUE] ELSE EachAsField(e, append)
  ELSE IF ~ctx.split
  THEN LET joined == FoldLeft(LAMBDA acc, k :
                                append(IF k > 1 /\ e.shell.ifs # <<>> THEN append(acc, <<e.shell.ifs[1]>>) ELSE acc,
                                       e.shell.positional[k]),
                              e, [k \in DOMAIN e.shell.positional |-> k])
       IN [joined EXCEPT !.field.started = TRUE]
  ELSE EachAsField(e, append_split)
\* The one segment that may be no content at all.
IsAbsentAt(e, s, ctx) ==
  s.name = "@" /\ s.op = "none" /\ ctx.double_quoted /\ ctx.fields /\ e.shell.positional = <<>>

lookup_parameter(e, name) ==
  IF name \in {"@", "*"} THEN [found |-> TRUE, text |-> Joined(e)]
  ELSE IF name \in DOMAIN e.vars THEN [found |-> TRUE, text |-> e.vars[name]]
  ELSE [found |-> FALSE, text |-> <<>>]

Digits(n) == <<ToString(n)>>
LengthOf(e, name, value) ==
  IF name \in {"@", "*"} THEN append(e, Digits(Len(e.shell.positional)))
  ELSE IF ~value.found /\ e.shell.nounset THEN ReportUnset(e)
  ELSE append(e, Digits(Len(value.text)))

SubstituteValue(e, value, ctx) ==
  IF ~value.found THEN ReportUnset(e)
  ELSE Placed(IF ctx.split /\ has_pattern_characters(value.text) THEN Globbable(e) ELSE e, value.text, ctx)

\* after: the operator's word has been expanded to text, whatever it assigned.
AssignDefault(after, name, text, ctx) ==
  LET assigned == IF name \in after.shell.readonly THEN [after EXCEPT !.fatal = TRUE]
                  ELSE [after EXCEPT !.vars = (name :> text) @@ @]
  IN IF ctx.split THEN append_split(assigned, text) ELSE append(assigned, text)

Kept(text, prefix, n) ==
  IF n = NoMatch THEN text
  ELSE IF prefix THEN SubSeq(text, n + 1, Len(text)) ELSE SubSeq(text, 1, Len(text) - n)
Trim(after, value, pattern, s, ctx) ==
  Placed(after, Kept(value.text, s.prefix, match_end(pattern, value.text, s.prefix, s.longest)), ctx)

-----------------------------------------------------------------------------
(* A value: expanded in a field of its own, which is then put back.  Its       *)
(* status is the caller's no more.                                             *)

Aside(e) == [e EXCEPT !.field = EmptyField, !.fields = <<>>, !.forms = <<>>]
Restored(e, inner) ==
  [inner EXCEPT !.field = e.field, !.fields = e.fields, !.forms = e.forms, !.status = e.status]
ValueContext(ctx) == [ctx EXCEPT !.split = FALSE, !.fields = FALSE]
TrimContext == Context(FALSE, FALSE, FALSE, TRUE)
ArithmeticContext == Context(FALSE, FALSE, TRUE, FALSE)

\* The text of a value is expanded by Expand, aside.
AsideIn(e, word, ctx, Expand(_, _, _)) == Expand(Aside(e), word, ValueContext(ctx))

Parameter(e, s, ctx, Expand(_, _, _)) ==
  LET value == lookup_parameter(e, s.name)
      absent == ~value.found \/ (s.colon /\ value.text = <<>>)
  IN IF s.op = "none" /\ s.name \in {"@", "*"} THEN Positional(e, s.name, ctx)
     ELSE CASE s.op = "length" -> LengthOf(e, s.name, value)
            [] s.op = "alternate" -> IF absent THEN e ELSE Expand(e, s.word, InOperator(ctx))
            [] s.op = "default" /\ absent -> Expand(e, s.word, InOperator(ctx))
            [] s.op = "assign" /\ absent ->
                 IF s.name \notin Assignable THEN Failed(e, "expansion_error")
                 ELSE LET inner == AsideIn(e, s.word, InBraces(ctx), Expand)
                      IN AssignDefault(Restored(e, inner), s.name, inner.field.current, ctx)
            [] s.op = "error" /\ absent ->
                 Failed(Restored(e, AsideIn(e, s.word, InBraces(ctx), Expand)), "parameter_unset")
            [] s.op = "trim" ->
                 IF ~value.found THEN ReportUnset(e)
                 ELSE LET inner == AsideIn(e, s.word, TrimContext, Expand)
                      IN Trim(Restored(e, inner), value, inner.field.current, s, ctx)
            [] OTHER -> SubstituteValue(e, value, ctx)

WithoutNewlines(text) ==
  SubSeq(text, 1, CHOOSE n \in 0..Len(text) :
                    /\ \A k \in (n + 1)..Len(text) : text[k] = "\n"
                    /\ n > 0 => text[n] # "\n")
CommandSubstitution(e, s, ctx) ==
  IF s.status = "malformed" THEN Failed(e, "malformed_expansion")
  ELSE IF s.status = "unavailable" THEN Failed(e, "expansion_error")
  ELSE LET text == WithoutNewlines(s.text)
       IN Placed(IF ctx.split /\ has_pattern_characters(text) THEN Globbable(e) ELSE e, text, ctx)

Arithmetic(e, s, ctx) ==
  IF s.status \in {"refused", "malformed"} THEN Failed(e, "expansion_error")
  ELSE IF s.status = "unset" /\ e.shell.nounset THEN ReportUnset(e)
  ELSE Placed(e, s.text, ctx)

Segment(e, s, ctx, Expand(_, _, _)) ==
  CASE s.seg = "literal" -> Literal(e, s.bytes, ctx)
    [] s.seg = "single" -> SingleQuoted(e, s.text, ctx)
    [] s.seg = "ansi" -> AnsiQuoted(e, s.text, ctx)
    [] s.seg = "double" ->
         DoubleQuoted(e, Expand([e EXCEPT !.empty_at = FALSE, !.other = FALSE], s.word,
                                Context(FALSE, ctx.fields, TRUE, ctx.pattern)))
    [] s.seg = "parameter" -> Parameter(e, s, ctx, Expand)
    [] s.seg = "tilde" -> append(e, e.shell.home)
    [] s.seg = "command" -> CommandSubstitution(e, s, ctx)
    [] s.seg = "arithmetic" -> Arithmetic(Restored(e, AsideIn(e, s.word, ArithmeticContext, Expand)), s, ctx)

\* What is not an absent "$@" counts as content; double quotes say it of themselves.
Counted(e, after, s, ctx) ==
  IF s.seg = "double" \/ (s.seg = "parameter" /\ IsAbsentAt(e, s, ctx)) THEN after ELSE [after EXCEPT !.other = TRUE]

RECURSIVE expand_text(_, _, _)
expand_text(e, word, ctx) ==
  IF e.depth >= MaxExpansionDepth THEN Failed(e, "malformed_expansion")
  ELSE [FoldLeft(LAMBDA acc, s : Counted(acc, Segment(acc, s, ctx, expand_text), s, ctx),
                 [e EXCEPT !.depth = @ + 1], word)
        EXCEPT !.depth = e.depth]

-----------------------------------------------------------------------------
(* Words and values.                                                           *)

\* A word of a command, or one that makes a single value.
Ordinary == Context(TRUE, TRUE, FALSE, FALSE)
OneValue(role) == Context(FALSE, FALSE, FALSE, role = "pattern")
Unglobbed(shell, vars, word, role) ==
  LET one_value == role \in {"pattern", "case_subject", "redirect_target"}
      e == expand_text(Begin(shell, vars, shell.globbing /\ ~one_value), word,
                       IF one_value THEN OneValue(role) ELSE Ordinary)
  IN finish_field(e, one_value)

Pathnames(e, k) ==
  LET found == expand_pathnames(e.shell.tree, <<e.forms[k]>>) IN
  IF found = {} THEN <<e.fields[k]>> ELSE SetToSeq({path[1] : path \in found})
Globbed(e) ==
  IF ~e.field.building \/ ~e.field.globbable THEN e.fields
  ELSE FlattenSeq([k \in DOMAIN e.fields |-> Pathnames(e, k)])

expand_word(shell, vars, word, role) ==
  LET e == Unglobbed(shell, vars, word, role) IN
  [fields |-> Globbed(e), unglobbed |-> e.fields, vars |-> e.vars, fatal |-> e.fatal, status |-> e.status]

\* An assignment's value, a redirection's operand, a here-document's body.
expand_value(shell, vars, word, context) ==
  LET here == context = "here_document_body"
      ctx == [Context(FALSE, FALSE, here, FALSE) EXCEPT !.here = here]
      e == expand_text(Begin(shell, vars, FALSE), word, ctx)
  IN [text |-> e.field.current, vars |-> e.vars, fatal |-> e.fatal]
=============================================================================
