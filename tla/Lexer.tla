-------------------------------- MODULE Lexer --------------------------------
(* Characters into tokens, and a word into its segments: syntax/lexer.cpp.     *)
(* A text is a sequence of symbols, each a character or a run of characters    *)
(* that matters as a whole ("case", "EOF", a number).  Positions start at 1;   *)
(* Len + 1 is the end of the input.                                            *)
EXTENDS Integers, FiniteSets, SequencesExt

CONSTANTS MaxScanNesting,   \* kMaxScanNesting
          MaxPendingHereDocs \* kMaxPendingHereDocs

Char(text, p) == IF p \in DOMAIN text THEN text[p] ELSE "end"
Past(text, p) == p > Len(text)
IsBlank(c) == c \in {" ", "\t"}
EndsWord(c) == c \in {"end", " ", "\t", "\n", "|", "&", ";", "(", ")", "<", ">"}
IsDigits(c) == c \in {"2", "99"}
TooLarge(c) == c = "99"          \* no descriptor has this number
IsName(c) == c \in {"x", "y", "case", "in", "esac", "do", "EOF"}
IsSpecial(c) == c \in {"?", "#", "$", "!", "@", "*", "-"}

\* The first position that does not begin a line continuation.
RECURSIVE PastContinuations(_, _)
PastContinuations(text, p) ==
  IF Char(text, p) = "\\" /\ Char(text, p + 1) = "\n" THEN PastContinuations(text, p + 2) ELSE p

\* The closing c from p on; a backslash takes the next character with it.
RECURSIVE Closing(_, _, _)
Closing(text, p, c) ==
  IF Past(text, p) THEN Len(text) + 1 ELSE IF text[p] = c THEN p ELSE Closing(text, p + 1, c)
RECURSIVE ClosingUnescaped(_, _, _)
ClosingUnescaped(text, p, c) ==
  IF Past(text, p) THEN Len(text) + 1
  ELSE IF text[p] = c THEN p
  ELSE ClosingUnescaped(text, IF text[p] = "\\" /\ p < Len(text) THEN p + 2 ELSE p + 1, c)
After(text, p) == IF Past(text, p) THEN p ELSE p + 1
skip_dollar_single_quote(text, at) == ClosingUnescaped(text, at + 2, "'")

-----------------------------------------------------------------------------
(* One step of $'...': what it makes, what it takes, and a NUL that ends the   *)
(* value.  Letters stand for escapes: "n" a newline, "x" before a digit run a  *)
(* byte, "0" a NUL, "c" a control character.                                   *)

Step(bytes, taken) == [bytes |-> bytes, taken |-> taken, truncates |-> FALSE]
decode_ansi_c_escape(body, at) ==
  LET e == Char(body, at + 1) IN
  IF body[at] # "\\" \/ at = Len(body) THEN Step(<<body[at]>>, 1)
  ELSE CASE e = "n" -> Step(<<"\n">>, 2)
         [] e \in {"\\", "'", "\""} -> Step(<<e>>, 2)
         [] e = "0" -> [Step(<<>>, 2) EXCEPT !.truncates = TRUE]
         [] e = "x" /\ Char(body, at + 2) = "2" -> Step(<<"hex">>, 3)
         [] e = "c" /\ at + 2 <= Len(body) ->
              Step(<<"control">>, IF body[at + 2] = "\\" /\ Char(body, at + 3) = "\\" THEN 4 ELSE 3)
         [] OTHER -> Step(<<"\\", e>>, 2)

\* Whether line is what is left of the delimiter raw without its quotes; taken
\* is how much of it has been found.
Expect(line, taken, bytes) ==
  IF taken # -1 /\ taken + Len(bytes) <= Len(line) /\ SubSeq(line, taken + 1, taken + Len(bytes)) = bytes THEN taken + Len(bytes) ELSE -1
RECURSIVE AnsiPart(_, _, _, _)
RECURSIVE DoublePart(_, _, _, _)
RECURSIVE DelimiterPart(_, _, _, _)
AnsiTaken(raw, b, line, taken, step) ==
  IF step.truncates THEN taken = Len(line) ELSE AnsiPart(raw, b + step.taken, line, Expect(line, taken, step.bytes))
AnsiPart(raw, b, line, taken) ==
  IF taken = -1 \/ Past(raw, b) THEN FALSE
  ELSE IF raw[b] = "'" THEN DelimiterPart(raw, b + 1, line, taken)
  ELSE AnsiTaken(raw, b, line, taken, decode_ansi_c_escape(raw, b))
DoublePart(raw, r, line, taken) ==
  IF taken = -1 \/ Past(raw, r) THEN FALSE
  ELSE IF raw[r] = "\"" THEN DelimiterPart(raw, r + 1, line, taken)
  ELSE IF raw[r] = "\\" /\ Char(raw, r + 1) \in {"$", "backquote", "\"", "\\"}
       THEN DoublePart(raw, r + 2, line, Expect(line, taken, <<raw[r + 1]>>))
  ELSE DoublePart(raw, r + 1, line, Expect(line, taken, <<raw[r]>>))
DelimiterPart(raw, r, line, taken) ==
  CASE taken = -1 -> FALSE
    [] Past(raw, r) -> taken = Len(line)
    [] Char(raw, r) = "\\" /\ Char(raw, r + 1) = "\n" -> DelimiterPart(raw, r + 2, line, taken)
    [] Char(raw, r) = "$" /\ Char(raw, r + 1) = "'" -> AnsiPart(raw, r + 2, line, taken)
    [] Char(raw, r) = "'" ->
         /\ ~Past(raw, Closing(raw, r + 1, "'"))
         /\ DelimiterPart(raw, Closing(raw, r + 1, "'") + 1, line,
                          Expect(line, taken, SubSeq(raw, r + 1, Closing(raw, r + 1, "'") - 1)))
    [] Char(raw, r) = "\"" -> DoublePart(raw, r + 1, line, taken)
    [] Char(raw, r) = "\\" ->
         r < Len(raw) /\ DelimiterPart(raw, r + 2, line, Expect(line, taken, <<Char(raw, r + 1)>>))
    [] OTHER -> DelimiterPart(raw, r + 1, line, Expect(line, taken, <<Char(raw, r)>>))
here_doc_delimiter_matches(raw, line) == DelimiterPart(raw, 1, line, 0)

-----------------------------------------------------------------------------
(* The extent of one quoted run or expansion: a scan with a stack of what is   *)
(* open, and of the here-documents whose bodies the next line begins.          *)

StartsAWord(text, p, begin) == p <= begin \/ text[p - 1] \in {" ", "\t", "\n", ";", "&", "|", "(", ")"}
LastNonBlank(text, p, begin) ==
  CHOOSE q \in (begin - 1)..(p - 1) : /\ \A k \in (q + 1)..(p - 1) : IsBlank(text[k])
                                     /\ q >= begin => ~IsBlank(text[q])
\* After what ends a command, or a word that introduces one.
CommandAfter(text, begin, q) ==
  \/ q < begin \/ text[q] \in {"\n", ";", "&", "|", "(", ")"}
  \/ text[q] \in {"then", "else", "elif", "do", "{", "!"} /\ (q = begin \/ EndsWord(text[q - 1]))
StartsACommand(text, p, begin) == CommandAfter(text, begin, LastNonBlank(text, p, begin))

Level(closer, ordinary_single, arithmetic) ==
  [closer |-> closer, ordinary_single |-> ordinary_single, arithmetic |-> arithmetic, awaiting_in |-> 0, open_cases |-> 0]
Top(s) == Last(s.stack)
CommandList(s) == Top(s).closer = ")" /\ ~Top(s).arithmetic
Move(s, p) == [s EXCEPT !.p = p]
Open(s, p, level) ==
  IF Len(s.stack) < MaxScanNesting THEN [s EXCEPT !.p = p, !.stack = Append(@, level)]
  ELSE [s EXCEPT !.p = p, !.too_deep = TRUE]
\* What awaits a body at a level that closes will have none.
Close(s) ==
  [s EXCEPT !.p = @ + 1, !.stack = Front(@), !.pending = SelectSeq(@, LAMBDA one : one.depth < Len(s.stack))]
Braces(text, p, ordinary_single) == Level("}", ordinary_single, FALSE)
Parenthesis(text, p) == Level(")", FALSE, Char(text, PastContinuations(text, p + 1)) = "(")

\* The end of a here-document's delimiter, the end of its body.
RECURSIVE DelimiterEnd(_, _)
DelimiterEnd(text, d) ==
  CASE Char(text, d) = "\\" /\ d < Len(text) -> DelimiterEnd(text, d + 2)
    [] Char(text, d) = "'" -> DelimiterEnd(text, After(text, Closing(text, d + 1, "'")))
    [] Char(text, d) = "\"" -> DelimiterEnd(text, After(text, ClosingUnescaped(text, d + 1, "\"")))
    [] EndsWord(Char(text, d)) -> d
    [] OTHER -> DelimiterEnd(text, d + 1)
RECURSIVE AfterBlanks(_, _)
AfterBlanks(text, p) == IF IsBlank(Char(text, p)) THEN AfterBlanks(text, p + 1) ELSE p
RECURSIVE AfterTabs(_, _)
AfterTabs(text, p) == IF Char(text, p) = "\t" THEN AfterTabs(text, p + 1) ELSE p
\* From after << on.
Awaiting(s, text, start, strip) ==
  IF DelimiterEnd(text, start) > start /\ Len(s.pending) < MaxPendingHereDocs
  THEN [s EXCEPT !.p = DelimiterEnd(text, start),
                 !.pending = Append(@, [raw |-> SubSeq(text, start, DelimiterEnd(text, start) - 1),
                                        depth |-> Len(s.stack), strip |-> strip])]
  ELSE Move(s, DelimiterEnd(text, start))
DelimiterStart(text, d) == PastContinuations(text, AfterBlanks(text, d))
HereDocument(s, text, d) ==
  IF Char(text, d) = "-" THEN Awaiting(s, text, DelimiterStart(text, PastContinuations(text, d + 1)), TRUE)
  ELSE Awaiting(s, text, DelimiterStart(text, d), FALSE)

RECURSIVE BodyEnd(_, _, _)
BodyEnd(text, p, doc) ==
  IF Past(text, p) THEN p
  ELSE IF here_doc_delimiter_matches(doc.raw, SubSeq(text, IF doc.strip THEN AfterTabs(text, p) ELSE p,
                                                     Closing(text, p, "\n") - 1))
       THEN After(text, Closing(text, p, "\n"))
  ELSE BodyEnd(text, After(text, Closing(text, p, "\n")), doc)
Due(s) == SelectSeq(s.pending, LAMBDA one : one.depth = Len(s.stack))
Bodies(s, text) ==
  [s EXCEPT !.p = FoldLeft(LAMBDA p, doc : BodyEnd(text, p, doc), s.p + 1, Due(s)),
            !.pending = SelectSeq(@, LAMBDA one : one.depth # Len(s.stack))]

\* case, its in and its esac, where each can be one.
WordIs(text, p, word) == Char(text, p) = word /\ EndsWord(Char(text, p + 1))
CaseWord(s, text, at) ==
  \/ WordIs(text, s.p, "case") /\ StartsACommand(text, s.p, at)
  \/ WordIs(text, s.p, "in") /\ Top(s).awaiting_in > 0
  \/ WordIs(text, s.p, "esac") /\ StartsACommand(text, s.p, at)
WithTop(s, level) == [s EXCEPT !.p = @ + 1, !.stack = Append(Front(@), level)]
InCase(s, word) ==
  LET top == Top(s) IN
  WithTop(s, CASE word = "case" -> [top EXCEPT !.awaiting_in = @ + 1]
               [] word = "in" -> [top EXCEPT !.awaiting_in = @ - 1, !.open_cases = @ + 1]
               [] word = "esac" -> IF top.open_cases > 0 THEN [top EXCEPT !.open_cases = @ - 1]
                                   ELSE [top EXCEPT !.awaiting_in = IF @ > 0 THEN @ - 1 ELSE 0])

\* From a $ that opens something.
OpensAt(text, p) == PastContinuations(text, p + 1)
Dollar(s, text, ordinary_single) ==
  CASE Char(text, s.p + 1) = "'" /\ ~ordinary_single -> Move(s, After(text, skip_dollar_single_quote(text, s.p)))
    [] Char(text, OpensAt(text, s.p)) = "{" ->
         Open(s, OpensAt(text, s.p) + 1, Braces(text, s.p, ordinary_single))
    [] Char(text, OpensAt(text, s.p)) = "(" ->
         Open(s, OpensAt(text, s.p) + 1, Parenthesis(text, OpensAt(text, s.p)))
    [] OTHER -> Move(s, s.p + 1)

ClosesIt(s) == ~(CommandList(s) /\ Top(s).open_cases > 0)

ScanStep(text, at, s) ==
  LET c == text[s.p] IN
  CASE c = "\\" /\ s.p < Len(text) -> Move(s, s.p + 2)
    [] c = Top(s).closer -> IF ClosesIt(s) THEN Close(s) ELSE Move(s, s.p + 1)
    [] c = "'" -> Move(s, IF Top(s).ordinary_single THEN s.p + 1 ELSE After(text, Closing(text, s.p + 1, "'")))
    [] c = "\"" -> Open(s, s.p + 1, Level("\"", TRUE, FALSE))
    [] c = "backquote" -> Open(s, s.p + 1, Level("backquote", FALSE, FALSE))
    [] c = "$" -> Dollar(s, text, Top(s).ordinary_single)
    [] c = "#" /\ Top(s).closer = ")" /\ StartsAWord(text, s.p, at) -> Move(s, Closing(text, s.p, "\n"))
    [] c = "<" /\ CommandList(s) /\ Char(text, s.p + 1) = "<" /\ Char(text, s.p + 2) # "<" ->
         HereDocument(s, text, PastContinuations(text, s.p + 2))
    [] c = "\n" /\ s.pending # <<>> /\ Last(s.pending).depth = Len(s.stack) -> Bodies(s, text)
    [] CommandList(s) /\ CaseWord(s, text, at) -> InCase(s, c)
    [] c = "(" /\ Top(s).closer = ")" -> Open(s, s.p + 1, Level(")", Top(s).ordinary_single, Top(s).arithmetic))
    [] c = "{" /\ Top(s).closer = "}" -> Open(s, s.p + 1, Level("}", Top(s).ordinary_single, FALSE))
    [] OTHER -> Move(s, s.p + 1)
RECURSIVE Scan(_, _, _)
Scan(text, at, s) ==
  IF s.stack = <<>> \/ Past(text, s.p) THEN s ELSE Scan(text, at, ScanStep(text, at, s))

\* What starts at p, and nothing if nothing does.
Start(p) == [p |-> p, stack |-> <<>>, pending |-> <<>>, too_deep |-> FALSE]
Extent(text, s) ==
  [to |-> IF s.too_deep THEN Len(text) + 1 ELSE s.p, terminated |-> s.stack = <<>> /\ ~s.too_deep]
QuotedRun(text, close) == [to |-> After(text, close), terminated |-> ~Past(text, close)]
Opening(text, at, inside_double_quotes) ==
  IF Char(text, at) = "$" THEN Dollar(Start(at), text, inside_double_quotes)
  ELSE Open(Start(at), at + 1, Level(Char(text, at), Char(text, at) = "\"", FALSE))
skip_quoted_or_expansion(text, at, inside_double_quotes) ==
  CASE Char(text, at) = "'" /\ ~inside_double_quotes -> QuotedRun(text, Closing(text, at + 1, "'"))
    [] Char(text, at) = "$" /\ Char(text, at + 1) = "'" /\ ~inside_double_quotes ->
         QuotedRun(text, skip_dollar_single_quote(text, at))
    [] Char(text, at) \in {"\"", "backquote"} \/ (Char(text, at) = "$" /\ Char(text, OpensAt(text, at)) \in {"{", "("}) ->
         Extent(text, Scan(text, at, Opening(text, at, inside_double_quotes)))
    [] OTHER -> [to |-> at, terminated |-> FALSE]

-----------------------------------------------------------------------------
(* Where a word ends.                                                          *)

\* A nested construct is stepped over whole; one that is not one is a character.
OpensNested(text, p) ==
  Char(text, p) = "backquote" \/ (Char(text, p) = "$" /\ Char(text, p + 1) \in {"(", "{"})
SteppedTo(p, extent) == IF extent.to > p THEN extent.to ELSE p + 1
StepOver(text, p, in_quotes) == SteppedTo(p, skip_quoted_or_expansion(text, p, in_quotes))

RECURSIVE DoubleEnd(_, _)
DoubleEnd(text, p) ==
  IF Past(text, p) THEN Len(text) + 1
  ELSE IF text[p] = "\"" THEN p
  ELSE DoubleEnd(text, CASE text[p] = "\\" /\ p < Len(text) -> p + 2
                         [] OpensNested(text, p) -> StepOver(text, p, TRUE)
                         [] OTHER -> p + 1)
\* The last brace of ${...}; bytes: whether quotes are characters here.
RECURSIVE BraceEnd(_, _, _, _)
BraceEnd(text, p, depth, bytes) ==
  IF Past(text, p) THEN Len(text) + 1
  ELSE IF text[p] = "}" /\ depth = 1 THEN p
  ELSE BraceEnd(text,
                CASE text[p] = "\\" /\ p < Len(text) -> p + 2
                  [] text[p] \in {"'", "\""} \/ OpensNested(text, p) -> StepOver(text, p, bytes)
                  [] OTHER -> p + 1,
                CASE text[p] = "{" -> depth + 1 [] text[p] = "}" -> depth - 1 [] OTHER -> depth,
                bytes)

\* A word under construction: where it stands, and what was left open.
Word(p) == [p |-> p, literal |-> TRUE, error |-> "none", incomplete |-> FALSE]
Taken(w, p) == [w EXCEPT !.p = p, !.literal = FALSE]
Upto(w, text, close, error) ==
  IF Past(text, close) THEN [Taken(w, Len(text) + 1) EXCEPT !.error = error, !.incomplete = TRUE]
  ELSE Taken(w, close + 1)
Substituted(w, text, extent) ==
  IF extent.terminated THEN Taken(w, extent.to)
  ELSE [Taken(w, extent.to) EXCEPT !.incomplete = TRUE,
          !.error = IF Char(text, PastContinuations(text, OpensAt(text, w.p) + 1)) = "("
                    THEN "arithmetic" ELSE "command_sub"]
WordStep(text, w) ==
  LET c == text[w.p] IN
  CASE c = "'" -> Upto(w, text, Closing(text, w.p + 1, "'"), "single_quote")
    [] c = "\"" -> Upto(w, text, DoubleEnd(text, w.p + 1), "double_quote")
    [] c = "\\" -> IF w.p < Len(text) THEN Taken(w, w.p + 2) ELSE [Taken(w, w.p + 1) EXCEPT !.incomplete = TRUE]
    [] c = "$" /\ Char(text, w.p + 1) = "'" -> Upto(w, text, skip_dollar_single_quote(text, w.p), "single_quote")
    [] c = "$" /\ Char(text, OpensAt(text, w.p)) = "{" ->
         Upto(w, text, BraceEnd(text, OpensAt(text, w.p) + 1, 1, FALSE), "parameter_expansion")
    [] c = "$" /\ Char(text, OpensAt(text, w.p)) = "(" ->
         Substituted(w, text, skip_quoted_or_expansion(text, w.p, FALSE))
    [] c = "backquote" -> Upto(w, text, ClosingUnescaped(text, w.p + 1, "backquote"), "backquote")
    [] OTHER -> [w EXCEPT !.p = @ + 1, !.literal = @ /\ c \notin {"$", "~", "*", "?", "["}]
RECURSIVE WordFrom(_, _)
WordFrom(text, w) ==
  IF w.incomplete \/ w.error # "none" \/ EndsWord(Char(text, w.p)) THEN w ELSE WordFrom(text, WordStep(text, w))

Token(kind, from, to, error, incomplete, blank) ==
  [kind |-> kind, from |-> from, to |-> to, error |-> error, incomplete |-> incomplete, blank |-> blank]
Plain(kind, from, to, blank) == Token(kind, from, to, "none", FALSE, blank)
lex_word(text, from, blank) ==
  LET w == WordFrom(text, Word(from)) IN Token("word", from, w.p, w.error, w.incomplete, blank)

-----------------------------------------------------------------------------
(* Operators and the next token.                                               *)

Operators == {"|", "||", "&", "&&", ";", ";;", ";&", "(", ")", "<", "<<", "<<-", "<&", "<>", ">", ">>", ">&", ">|"}
\* The longest operator there is, its characters on either side of a line
\* continuation.
OfThree(text, p1, p2, p3) ==
  CASE text[p1] \o Char(text, p2) \o Char(text, p3) \in Operators -> <<text[p1] \o Char(text, p2) \o Char(text, p3), p3 + 1>>
    [] text[p1] \o Char(text, p2) \in Operators -> <<text[p1] \o Char(text, p2), p2 + 1>>
    [] OTHER -> <<text[p1], p1 + 1>>
OfTwo(text, p1, p2) == OfThree(text, p1, p2, PastContinuations(text, p2 + 1))
EndingPast(text, from, found, blank) == Plain(found[1], from, PastContinuations(text, found[2]), blank)
lex_operator(text, from, blank) ==
  EndingPast(text, from, OfTwo(text, from, PastContinuations(text, from + 1)), blank)

RECURSIVE DigitsEnd(_, _)
DigitsEnd(text, p) == IF IsDigits(Char(text, p)) THEN DigitsEnd(text, PastContinuations(text, p + 1)) ELSE p
\* Digits before a redirection are a descriptor if they can be.
IsDescriptor(text, from, to) ==
  /\ IsDigits(Char(text, from))
  /\ Char(text, to) \in {"<", ">"}
  /\ \A k \in from..(to - 1) : ~TooLarge(text[k])

RECURSIVE skip_blanks(_, _)
skip_blanks(text, p) ==
  IF IsBlank(Char(text, p)) THEN skip_blanks(text, p + 1)
  ELSE IF PastContinuations(text, p) # p THEN skip_blanks(text, PastContinuations(text, p))
  ELSE p
TokenAt(text, p, blank) ==
  CASE Past(text, p) -> Plain("end", p, p, FALSE)
    [] Char(text, p) = "#" -> Plain("comment", p, Closing(text, p, "\n"), blank)
    [] Char(text, p) = "\n" -> Plain("newline", p, p + 1, blank)
    [] OTHER ->
         IF IsDescriptor(text, p, DigitsEnd(text, p)) THEN Plain("io_number", p, DigitsEnd(text, p), blank)
         ELSE IF EndsWord(Char(text, p)) THEN lex_operator(text, p, blank)
         ELSE lex_word(text, p, blank)
next(text, p) == TokenAt(text, skip_blanks(text, p), skip_blanks(text, p) # p)

-----------------------------------------------------------------------------
(* The segments of a word; mode is "word", "arithmetic" (the same, and quoted  *)
(* to the expander), "assignment", "double" or "here".                         *)

QuotesAreBytes(mode) == mode \in {"double", "here"}
Segment(kind, from, to, error) == [kind |-> kind, from |-> from, to |-> to, error |-> error]
Ending(kind, text, from, close, error) ==
  IF Past(text, close) THEN Segment(kind, from, Len(text) + 1, error) ELSE Segment(kind, from, close + 1, "none")

TildeHere(text, p, mode) ==
  /\ Char(text, p) = "~" /\ mode \in {"word", "assignment", "arithmetic"}
  /\ p = 1 \/ (mode = "assignment" /\ text[p - 1] = ":")
RECURSIVE TildeEnd(_, _, _)
TildeEnd(text, p, mode) ==
  IF Past(text, p) \/ text[p] = "/" \/ IsBlank(text[p]) \/ (mode = "assignment" /\ text[p] = ":")
     \/ text[p] \in {"'", "\"", "\\", "$", "backquote"}
  THEN p ELSE TildeEnd(text, p + 1, mode)
Tilde(text, p, mode) ==
  TildeHere(text, p, mode) /\ Char(text, TildeEnd(text, p + 1, mode)) \notin {"'", "\"", "\\", "$", "backquote"}

RECURSIVE NameEnd(_, _)
NameEnd(text, p) ==
  IF IsName(Char(text, PastContinuations(text, p))) \/ IsDigits(Char(text, PastContinuations(text, p)))
  THEN NameEnd(text, PastContinuations(text, p) + 1) ELSE p

\* Parentheses are counted here and nothing else is looked at.
RECURSIVE Counted(_, _, _)
Counted(text, p, depth) ==
  IF depth = 0 \/ Past(text, p) THEN p
  ELSE Counted(text, p + 1, CASE text[p] = "(" -> depth + 1 [] text[p] = ")" -> depth - 1 [] OTHER -> depth)
ArithmeticFrom(text, from, close) ==
  IF Char(text, PastContinuations(text, close)) = ")" THEN Segment("arithmetic", from, PastContinuations(text, close) + 1, "none")
  ELSE Segment("arithmetic", from, close, IF Past(text, close) THEN "arithmetic" ELSE "none")
CommandFrom(from, extent) ==
  Segment("command", from, extent.to, IF extent.terminated THEN "none" ELSE "command_sub")
DollarFrom(text, from, mode, at, at2) ==
  LET c == Char(text, at) IN
  CASE c = "'" /\ ~QuotesAreBytes(mode) /\ at = from + 1 ->
         Ending("ansi", text, from, skip_dollar_single_quote(text, from), "single_quote")
    [] c = "(" /\ Char(text, at2) = "(" -> ArithmeticFrom(text, from, Counted(text, at2 + 1, 1))
    [] c = "(" /\ Char(text, at2) # "(" -> CommandFrom(from, skip_quoted_or_expansion(text, from, FALSE))
    [] c = "{" -> Ending("parameter", text, from, BraceEnd(text, at + 1, 1, QuotesAreBytes(mode)), "parameter_expansion")
    [] IsName(c) -> Segment("parameter", from, NameEnd(text, at + 1), "none")
    [] IsSpecial(c) \/ IsDigits(c) -> Segment("parameter", from, at + 1, "none")
    [] OTHER -> Segment("literal", from, from + 1, "none")

RECURSIVE LiteralEnd(_, _, _, _)
LiteralEnd(text, from, p, mode) ==
  IF Past(text, p)
     \/ (mode = "assignment" /\ text[p] = "~" /\ p > from /\ text[p - 1] = ":")
     \/ (text[p] = "'" /\ ~QuotesAreBytes(mode)) \/ (text[p] = "\"" /\ mode # "here") \/ text[p] \in {"$", "backquote"}
  THEN p ELSE LiteralEnd(text, from, IF text[p] = "\\" /\ p < Len(text) THEN p + 2 ELSE p + 1, mode)

lex_word_segment(text, p, mode) ==
  LET c == text[p] IN
  CASE c = "'" /\ ~QuotesAreBytes(mode) -> Ending("single", text, p, Closing(text, p + 1, "'"), "single_quote")
    [] c = "\"" /\ mode # "here" -> Ending("double", text, p, DoubleEnd(text, p + 1), "double_quote")
    [] Tilde(text, p, mode) -> Segment("tilde", p, TildeEnd(text, p + 1, mode), "none")
    [] c = "backquote" -> Ending("command", text, p, ClosingUnescaped(text, p + 1, "backquote"), "backquote")
    [] c = "$" -> DollarFrom(text, p, mode, OpensAt(text, p), PastContinuations(text, OpensAt(text, p) + 1))
    [] OTHER -> Segment("literal", p, LiteralEnd(text, p, p, mode), "none")
=============================================================================
