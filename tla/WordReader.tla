----------------------------- MODULE WordReader -----------------------------
(* A word's text into the segments Expansion expands: how runtime/expander.cpp *)
(* takes apart what the lexer delimits.  The text of a command substitution is *)
(* left to the parser.                                                         *)
EXTENDS Lexer

\* The interior without its line continuations, but for those in single quotes.
RECURSIVE WithoutFrom(_, _, _)
WithoutFrom(body, k, in_single) ==
  IF k > Len(body) THEN <<>>
  ELSE IF ~in_single /\ body[k] = "\\" /\ Char(body, k + 1) = "\n" THEN WithoutFrom(body, k + 2, in_single)
  ELSE <<body[k]>> \o WithoutFrom(body, k + 1, IF body[k] = "'" THEN ~in_single ELSE in_single)
without_continuations(body) == WithoutFrom(body, 1, FALSE)

\* A backslash goes before what it would have kept from ending the backquotes.
RECURSIVE UnescapeFrom(_, _, _)
UnescapeFrom(code, k, in_quotes) ==
  IF k > Len(code) THEN <<>>
  ELSE IF code[k] = "\\" /\ (Char(code, k + 1) \in {"$", "backquote", "\\"} \/ (in_quotes /\ Char(code, k + 1) = "\""))
       THEN <<code[k + 1]>> \o UnescapeFrom(code, k + 2, in_quotes)
  ELSE <<code[k]>> \o UnescapeFrom(code, k + 1, in_quotes)
unescape_backquotes(code, in_quotes) == UnescapeFrom(code, 1, in_quotes)

Inside(body, first, last) == SubSeq(body, first + 1, Len(body) - last)
substitution_body(body, in_quotes) ==
  IF body[1] = "backquote" THEN unescape_backquotes(Inside(body, 1, 1), in_quotes) ELSE Inside(body, 2, 1)
LastBrace(body) == CHOOSE k \in DOMAIN body : body[k] = "}" /\ \A j \in (k + 1)..Len(body) : body[j] # "}"
parameter_body(body) ==
  IF body[2] # "{" THEN SubSeq(body, 2, Len(body))
  ELSE IF \E k \in DOMAIN body : body[k] = "}" THEN SubSeq(body, 3, LastBrace(body) - 1)
  ELSE SubSeq(body, 3, Len(body))

\* Quoted text: $'...' up to a NUL.
RECURSIVE AnsiText(_, _)
Decoded(body, at, step) == IF step.truncates THEN <<>> ELSE step.bytes \o AnsiText(body, at + step.taken)
AnsiText(body, at) == IF at > Len(body) THEN <<>> ELSE Decoded(body, at, decode_ansi_c_escape(body, at))

RECURSIVE LiteralBytes(_, _)
LiteralBytes(text, k) ==
  IF k > Len(text) THEN <<>>
  ELSE IF text[k] = "\\" /\ k < Len(text) THEN <<[c |-> text[k + 1], escaped |-> TRUE]>> \o LiteralBytes(text, k + 2)
  ELSE <<[c |-> text[k], escaped |-> FALSE]>> \o LiteralBytes(text, k + 1)

-----------------------------------------------------------------------------
(* What ${...} says.                                                           *)

IsOperator(c) == c \in {":", "-", "=", "?", "+", "#", "%"}
is_length_target(name) ==
  \/ Len(name) = 1 /\ name[1] \in {"*", "@", "?", "$", "!", "-", "#"}
  \/ name # <<>> /\ \A k \in DOMAIN name : IsDigits(name[k])
  \/ name # <<>> /\ IsName(name[1]) /\ \A k \in DOMAIN name : IsName(name[k]) \/ IsDigits(name[k])
\* The operator comes after the name; # can be the name.
FirstOperator(body, from) ==
  CHOOSE k \in from..(Len(body) + 1) :
    /\ \A j \in from..(k - 1) : ~IsOperator(body[j])
    /\ k <= Len(body) => IsOperator(body[k])
OperatorAt(body) == FirstOperator(body, IF body[1] = "#" THEN 2 ELSE 1)
NameOf(symbols) == FoldLeft(LAMBDA one, c : one \o c, "", symbols)

\* p: where the operator is, its colon passed.
Doubled(body, p) == body[p] \in {"#", "%"} /\ Char(body, p + 1) = body[p]
Operator(body, p) ==
  CASE body[p] = "-" -> "default" [] body[p] = "=" -> "assign" [] body[p] = "?" -> "error"
    [] body[p] = "+" -> "alternate" [] body[p] \in {"#", "%"} -> "trim" [] OTHER -> "none"
\* mutant: any operator can be doubled.
AnyDoubled(body, p, name, colon) ==
  [name |-> name, op |-> Operator(body, p), colon |-> colon, prefix |-> body[p] # "%",
   longest |-> Doubled(body, p), argument |-> SubSeq(body, IF Char(body, p + 1) = body[p] THEN p + 2 ELSE p + 1, Len(body))]
WithOperator(body, p, name, colon) ==
  [name |-> name, op |-> Operator(body, p), colon |-> colon, prefix |-> body[p] # "%",
   longest |-> Doubled(body, p),
   argument |-> IF Operator(body, p) = "none" THEN <<>> ELSE SubSeq(body, IF Doubled(body, p) THEN p + 2 ELSE p + 1, Len(body))]
Bare(name, op) == [name |-> name, op |-> op, colon |-> FALSE, prefix |-> TRUE, longest |-> FALSE, argument |-> <<>>]
AfterName(body, p) ==
  IF p > Len(body) THEN Bare(NameOf(body), "none")
  ELSE IF body[p] = ":" /\ p < Len(body) THEN WithOperator(body, p + 1, NameOf(SubSeq(body, 1, p - 1)), TRUE)
  ELSE WithOperator(body, p, NameOf(SubSeq(body, 1, p - 1)), FALSE)
parse_parameter(body) ==
  IF Len(body) = 1 /\ (IsSpecial(body[1]) \/ IsDigits(body[1])) THEN Bare(body[1], "none")
  ELSE IF body[1] = "#" /\ is_length_target(Tail(body)) THEN Bare(NameOf(Tail(body)), "length")
  ELSE AfterName(body, OperatorAt(body))

-----------------------------------------------------------------------------
(* Segments, and what they hold.                                               *)

ReadParameter(p, mode, Read(_, _)) ==
  [seg |-> "parameter", name |-> p.name, op |-> p.op, colon |-> p.colon, prefix |-> p.prefix, longest |-> p.longest,
   word |-> IF p.argument = <<>> THEN <<>> ELSE Read(p.argument, IF p.op = "trim" THEN "word" ELSE mode)]
ReadSegment(kind, body, mode, Read(_, _)) ==
  CASE kind = "literal" -> [seg |-> kind, bytes |-> LiteralBytes(body, 1)]
    [] kind = "single" -> [seg |-> kind, text |-> Inside(body, 1, 1)]
    [] kind = "ansi" -> [seg |-> kind, text |-> AnsiText(Inside(body, 2, 1), 1)]
    [] kind = "double" -> [seg |-> kind, word |-> Read(Inside(body, 1, 1), "double")]
    [] kind = "parameter" -> ReadParameter(parse_parameter(parameter_body(without_continuations(body))), mode, Read)
    [] kind = "tilde" -> [seg |-> kind]
    [] kind = "command" ->
         [seg |-> kind, text |-> substitution_body(without_continuations(body), mode \in {"double", "here", "arithmetic"})]
    [] kind = "arithmetic" -> [seg |-> kind, word |-> Read(Inside(without_continuations(body), 3, 2), "arithmetic")]

RECURSIVE SegmentsFrom(_, _, _)
SegmentsAfter(text, mode, s) == <<s>> \o SegmentsFrom(text, s.to, mode)
SegmentsFrom(text, p, mode) == IF Past(text, p) THEN <<>> ELSE SegmentsAfter(text, mode, lex_word_segment(text, p, mode))
Segments(text, mode) == SegmentsFrom(text, 1, mode)

RECURSIVE ReadWord(_, _)
SegmentsRead(text, mode, cut, Read(_, _)) ==
  [k \in DOMAIN cut |-> ReadSegment(cut[k].kind, SubSeq(text, cut[k].from, cut[k].to - 1), mode, Read)]
ReadWord(text, mode) == SegmentsRead(text, mode, Segments(text, mode), ReadWord)

-----------------------------------------------------------------------------
(* What the text of a word is, said of its segments: each is written out, and  *)
(* what is written is what the above must read.  A style says how a parameter  *)
(* and a command are written where there is a choice.                          *)
OperatorText(s) ==
  CASE s.op = "default" -> <<"-">> [] s.op = "assign" -> <<"=">> [] s.op = "error" -> <<"?">> [] s.op = "alternate" -> <<"+">>
    [] s.op = "trim" -> LET c == IF s.prefix THEN "#" ELSE "%" IN IF s.longest THEN <<c, c>> ELSE <<c>>
AnsiWritten(text) ==
  FlattenSeq([k \in DOMAIN text |->
    CASE text[k] \in {"'", "\\"} -> <<"\\", text[k]>> [] text[k] = "\n" -> <<"\\", "n">>
      [] text[k] = "hex" -> <<"\\", "x", "2">> [] text[k] = "control" -> <<"\\", "c", "\\", "\\">> [] OTHER -> <<text[k]>>])
Escaped(text, characters) ==
  FlattenSeq([k \in DOMAIN text |-> IF text[k] \in characters THEN <<"\\", text[k]>> ELSE <<text[k]>>])

\* quoted: inside double quotes, where a " in backquotes is escaped.
RECURSIVE WrittenIn(_, _, _)
SegmentWritten(s, style, quoted, Write(_, _, _)) ==
  CASE s.seg = "literal" ->
         FlattenSeq([k \in DOMAIN s.bytes |-> IF s.bytes[k].escaped THEN <<"\\", s.bytes[k].c>> ELSE <<s.bytes[k].c>>])
    [] s.seg = "single" -> <<"'">> \o s.text \o <<"'">>
    [] s.seg = "ansi" -> <<"$", "'">> \o AnsiWritten(s.text) \o <<"'">>
    [] s.seg = "double" -> <<"\"">> \o Write(s.word, style, TRUE) \o <<"\"">>
    [] s.seg = "tilde" -> <<"~">>
    [] s.seg = "parameter" ->
         CASE s.op = "none" -> IF style.braces THEN <<"$", "{", s.name, "}">> ELSE <<"$", s.name>>
           [] s.op = "length" -> <<"$", "{", "#", s.name, "}">>
           [] OTHER -> <<"$", "{", s.name>> \o (IF s.colon THEN <<":">> ELSE <<>>) \o OperatorText(s)
                       \o Write(s.word, style, quoted) \o <<"}">>
    [] s.seg = "command" ->
         IF style.backquotes
         THEN <<"backquote">> \o Escaped(s.text, {"$", "backquote", "\\"} \cup (IF quoted THEN {"\""} ELSE {})) \o <<"backquote">>
         ELSE <<"$", "(">> \o s.text \o <<")">>
    [] s.seg = "arithmetic" -> <<"$", "(", "(">> \o Write(s.word, style, TRUE) \o <<")", ")">>
WrittenIn(word, style, quoted) ==
  FlattenSeq([k \in DOMAIN word |-> SegmentWritten(word[k], style, quoted, WrittenIn)])
Written(word, style) == WrittenIn(word, style, FALSE)

\* Whether the first n symbols of a word leave something open.
Opener(s, style) ==
  CASE s.seg \in {"single", "double"} \/ (s.seg = "command" /\ style.backquotes) -> 1
    [] s.seg \in {"ansi", "command", "arithmetic"} -> 2
    [] s.seg = "parameter" -> IF s.op = "none" /\ ~style.braces THEN 3 ELSE 2
    [] OTHER -> 0
HalfEscaped(bytes, n) ==
  \E k \in DOMAIN bytes : /\ bytes[k].escaped
                          /\ n = k + Cardinality({j \in 1..(k - 1) : bytes[j].escaped})
SegmentOpen(s, style, n) ==
  IF s.seg = "literal" THEN HalfEscaped(s.bytes, n)
  ELSE Opener(s, style) > 0 /\ n >= Opener(s, style) /\ n < Len(Written(<<s>>, style))
Unfinished(word, style, n) ==
  \E k \in DOMAIN word : SegmentOpen(word[k], style, n - Len(Written(SubSeq(word, 1, k - 1), style)))

\* Literals that touch are one, and line continuations are nothing.
RECURSIVE Joined(_)
Kept(s, Join(_)) ==
  CASE s.seg = "literal" -> [s EXCEPT !.bytes = SelectSeq(s.bytes, LAMBDA one : ~(one.escaped /\ one.c = "\n"))]
    [] s.seg \in {"double", "parameter", "arithmetic"} -> [s EXCEPT !.word = Join(s.word)]
    [] OTHER -> s
Added(read, s) ==
  LET k == Len(read) IN
  IF k > 0 /\ s.seg = "literal" /\ Last(read).seg = "literal"
  THEN [read EXCEPT ![k].bytes = read[k].bytes \o s.bytes]
  ELSE Append(read, s)
Joined(word) ==
  SelectSeq(FoldLeft(Added, <<>>, [k \in DOMAIN word |-> Kept(word[k], Joined)]), LAMBDA s : ~(s.seg = "literal" /\ s.bytes = <<>>))

\* A word that only quotes, without its quotes.
RECURSIVE Value(_)
Value(word) ==
  FlattenSeq([k \in DOMAIN word |->
    CASE word[k].seg = "literal" -> [j \in DOMAIN word[k].bytes |-> word[k].bytes[j].c]
      [] word[k].seg \in {"single", "ansi"} -> word[k].text
      [] word[k].seg = "double" -> Value(word[k].word)])

\* Every token of a text.
RECURSIVE TokensFrom(_, _)
TokensAfter(text, token) == IF token.kind = "end" THEN <<token>> ELSE <<token>> \o TokensFrom(text, token.to)
TokensFrom(text, p) == TokensAfter(text, next(text, p))
Tokens(text) == TokensFrom(text, 1)
Broken(text, n) == SubSeq(text, 1, n) \o <<"\\", "\n">> \o SubSeq(text, n + 1, Len(text))
=============================================================================
