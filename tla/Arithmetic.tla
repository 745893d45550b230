----------------------------- MODULE Arithmetic -----------------------------
(* Arithmetic expansion: runtime/arithmetic.cpp, an evaluator that computes as *)
(* it parses.  An operand that is to be skipped is parsed with live off.       *)
(*                                                                             *)
(* Text is a sequence of symbols: operator characters one by one, names, and   *)
(* the literals of NumberOf.  Blanks are left out.  Integers are Width bits wide, in two's      *)
(* complement; shifts mask their count by Width - 1.                           *)
EXTENDS Integers, SequencesExt, Bitwise

CONSTANTS Width,
          Names, ReadOnly,   \* variables, and those of them that refuse a write
          NumberOf           \* what the literals stand for
ASSUME WidthIsAPowerOfTwo == Width \in {2, 4, 8}

Modulus == 2^Width
Greatest == 2^(Width - 1) - 1
Least == -(2^(Width - 1))
Unsigned(n) == n % Modulus
Signed(n) == IF n % Modulus > Greatest THEN (n % Modulus) - Modulus ELSE n % Modulus

-----------------------------------------------------------------------------
(* Operators, on Width-bit integers.                                           *)

\* Division truncates towards zero, and by -1 it is a negation.
Truncated(a, b) ==
  LET size(n) == IF n < 0 THEN -n ELSE n
      quotient == size(a) \div size(b)
  IN IF (a < 0) = (b < 0) THEN quotient ELSE -quotient
wrap_div(a, b) == IF b = -1 THEN Signed(0 - a) ELSE Truncated(a, b)
wrap_mod(a, b) == IF b = -1 THEN 0 ELSE a - b * Truncated(a, b)
ShiftLeft(a, b) == Signed(a * 2^(b % Width))
ShiftRight(a, b) == a \div 2^(b % Width)

Truth(test) == IF test THEN 1 ELSE 0
Binary(op, a, b) ==
  CASE op = "+" -> Signed(a + b)
    [] op = "-" -> Signed(a - b)
    [] op = "*" -> Signed(a * b)
    [] op = "<<" -> ShiftLeft(a, b)
    [] op = ">>" -> ShiftRight(a, b)
    [] op = "&" -> Signed(Unsigned(a) & Unsigned(b))
    [] op = "^" -> Signed(Unsigned(a) ^^ Unsigned(b))
    [] op = "|" -> Signed(Unsigned(a) | Unsigned(b))
    [] op = "==" -> Truth(a = b)
    [] op = "!=" -> Truth(a # b)
    [] op = "<=" -> Truth(a <= b)
    [] op = ">=" -> Truth(a >= b)
    [] op = "<" -> Truth(a < b)
    [] op = ">" -> Truth(a > b)
Divided(op, a, b) == IF op = "/" THEN wrap_div(a, b) ELSE wrap_mod(a, b)

-----------------------------------------------------------------------------
(* The evaluator's state and its effects.                                      *)

Start(text, vars) ==
  [text |-> text, at |-> 1, value |-> 0, live |-> TRUE, failed |-> FALSE, refused |-> FALSE,
   vars |-> vars, unset |-> {}]

Peek(e, ahead) == IF e.at + ahead <= Len(e.text) THEN e.text[e.at + ahead] ELSE "end"
Fail(e) == [e EXCEPT !.failed = TRUE, !.value = 0]
Valued(e, value) == [e EXCEPT !.value = value]
Moved(e, count) == [e EXCEPT !.at = @ + count]

ReadVariable(e, name) ==
  IF ~e.live THEN Valued(e, 0)
  ELSE IF name \in DOMAIN e.vars THEN Valued(e, e.vars[name])
  ELSE [Valued(e, 0) EXCEPT !.unset = IF @ = {} THEN {name} ELSE @]

Assign(e, name, value) ==
  IF ~e.live THEN Valued(e, value)
  ELSE IF name \in ReadOnly THEN [Valued(e, value) EXCEPT !.refused = TRUE, !.failed = TRUE]
  ELSE [Valued(e, value) EXCEPT !.vars = (name :> value) @@ @]

\* By zero: an error, unless the operand is only being parsed.
Divide(e, op, a) ==
  IF e.value # 0 THEN Valued(e, Divided(op, a, e.value))
  ELSE IF e.live THEN Fail(e) ELSE Valued(e, 0)

-----------------------------------------------------------------------------
(* The levels of the grammar, loosest first; operators of one level are tried  *)
(* in the order given.                                                         *)

Spelled(op) ==
  CASE op = "||" -> <<"|", "|">> [] op = "&&" -> <<"&", "&">> [] op = "==" -> <<"=", "=">> [] op = "!=" -> <<"!", "=">>
    [] op = "<=" -> <<"<", "=">> [] op = ">=" -> <<">", "=">> [] op = "<<" -> <<"<", "<">> [] op = ">>" -> <<">", ">">>
    [] OTHER -> <<op>>
\* A short operator does not take the beginning of a longer one.
Matches(e, op) ==
  /\ \A k \in DOMAIN Spelled(op) : Peek(e, k - 1) = Spelled(op)[k]
  /\ op = "=" => Peek(e, 1) # "="
  /\ op \in {"<", ">"} => Peek(e, 1) \notin {"=", op}
  /\ op \in {"&", "|"} => Peek(e, 1) # op

Levels == <<"comma", "assignment", "conditional", "||", "&&", "|", "^", "&", "equality", "relational", "shift",
            "additive", "multiplicative", "unary", "primary">>
Depth(level) == CHOOSE k \in DOMAIN Levels : Levels[k] = level
Tighter(level) == Levels[Depth(level) + 1]
Operators(level) ==
  CASE level = "comma" -> <<",">>
    [] level = "equality" -> <<"==", "!=">>
    [] level = "relational" -> <<"<=", ">=", "<", ">">>
    [] level = "shift" -> <<"<<", ">>">>
    [] level = "additive" -> <<"+", "-">>
    [] level = "multiplicative" -> <<"*", "/", "%">>
    [] OTHER -> <<level>>
\* The operator of this level that comes next, if one does.
NextOperator(e, level) == SelectSeq(Operators(level), LAMBDA op : Matches(e, op))

Compounds == <<"<<", ">>", "+", "-", "*", "/", "%", "&", "^", "|">>
\* name op= and name = ahead.
CompoundAhead(e) ==
  SelectSeq(Compounds, LAMBDA op : /\ \A k \in DOMAIN Spelled(op) : Peek(e, k) = Spelled(op)[k]
                                   /\ Peek(e, Len(Spelled(op)) + 1) = "=")
PlainAhead(e) == Peek(e, 1) = "=" /\ Peek(e, 2) # "="

\* The left operand of a short circuit decides whether the right one runs.
Decided(op, value) == IF op = "||" THEN value # 0 ELSE value = 0
\* mutant: what the outer operand skipped runs again.
LiveAgain(e, off) == [e EXCEPT !.live = ~off]
Skipping(e, off) == [e EXCEPT !.live = @ /\ ~off]
Combine(e, op, left, live) ==
  LET both == IF op = "||" THEN left # 0 \/ e.value # 0 ELSE left # 0 /\ e.value # 0
  IN [e EXCEPT !.value = Truth(both), !.live = live]

Applied(e, op, left) ==
  IF op = "," THEN e
  ELSE IF op \in {"/", "%"} THEN Divide(e, op, left)
  ELSE Valued(e, Binary(op, left, e.value))

\* What the names and numbers of the text are.
Number(e) ==
  LET value == NumberOf[Peek(e, 0)] IN Valued(Moved(e, 1), IF value > Greatest THEN Greatest ELSE value)
Unary(e, op) ==
  CASE op = "!" -> Valued(e, Truth(e.value = 0))
    [] op = "~" -> Valued(e, -e.value - 1)
    [] op = "-" -> Valued(e, Signed(0 - e.value))
    [] op = "+" -> e
Closed(e, closer) == IF Peek(e, 0) = closer THEN Moved(e, 1) ELSE [e EXCEPT !.failed = TRUE]

\* name op= expression: the old value is read after the new one is computed.
Compound(right, name, op) ==
  LET read == ReadVariable(right, name)
      applied == Applied(Valued(read, right.value), op, read.value)
  IN Assign(applied, name, applied.value)

\* The branches of a conditional are both parsed.
Branched(test, yes, no) ==
  [no EXCEPT !.live = test.live, !.value = IF test.value # 0 THEN yes.value ELSE no.value]

\* parse_*: one operator, told which level to read; more: its first operand has
\* been read, what may follow are its operators.
RECURSIVE Parse(_, _, _)
Parse(level, more, e) ==
  IF more THEN
    LET ops == NextOperator(e, level) IN
    IF ops = <<>> THEN e
    ELSE LET op == ops[1]
             short == op \in {"||", "&&"}
             right == Parse(Tighter(level), FALSE, Skipping(Moved(e, Len(Spelled(op))), short /\ Decided(op, e.value)))
             \* a division by zero gives up what it was computing
             given_up == op \in {"/", "%"} /\ right.value = 0 /\ right.live
         IN IF given_up THEN Fail(right)
            ELSE Parse(level, TRUE, IF short THEN Combine(right, op, e.value, e.live) ELSE Applied(right, op, e.value))
  ELSE CASE level = "assignment" ->
              IF Peek(e, 0) \in Names /\ CompoundAhead(e) # <<>>
                THEN Compound(Parse(level, FALSE, Moved(e, Len(Spelled(CompoundAhead(e)[1])) + 2)),
                              Peek(e, 0), CompoundAhead(e)[1])
              ELSE IF Peek(e, 0) \in Names /\ PlainAhead(e)
                THEN LET right == Parse(level, FALSE, Moved(e, 2)) IN Assign(right, Peek(e, 0), right.value)
              ELSE Parse("conditional", FALSE, e)
         [] level = "conditional" ->
              LET test == Parse("||", FALSE, e) IN
              IF Peek(test, 0) # "?" THEN test
              ELSE LET yes == Parse("assignment", FALSE, Skipping(Moved(test, 1), test.value = 0))
                       back == [yes EXCEPT !.live = test.live]
                   IN IF Peek(yes, 0) # ":" THEN Fail(back)
                      ELSE Branched(test, yes, Parse(level, FALSE, Skipping(Moved(back, 1), test.value # 0)))
         [] level = "unary" ->
              IF Peek(e, 0) \in {"!", "~", "-", "+"} THEN Unary(Parse(level, FALSE, Moved(e, 1)), Peek(e, 0))
              ELSE Parse("primary", FALSE, e)
         [] level = "primary" ->
              IF Peek(e, 0) = "(" THEN Closed(Parse("comma", FALSE, Moved(e, 1)), ")")
              ELSE IF Peek(e, 0) \in DOMAIN NumberOf THEN Number(e)
              ELSE IF Peek(e, 0) \in Names THEN ReadVariable(Moved(e, 1), Peek(e, 0))
              ELSE Fail(e)
         [] OTHER -> Parse(level, TRUE, Parse(Tighter(level), FALSE, e))

evaluate(text, vars) ==
  LET run == Parse("comma", FALSE, Start(text, vars)) IN
  [ok |-> ~run.failed /\ run.at > Len(text), refused |-> run.failed /\ run.refused,
   value |-> IF ~run.failed /\ run.at > Len(text) THEN run.value ELSE 0,
   vars |-> run.vars, unset |-> IF ~run.failed /\ run.at > Len(text) THEN run.unset ELSE {}]

-----------------------------------------------------------------------------
(* What an arithmetic expression means, said of its tree by C's rules; the     *)
(* text of a tree has the parentheses its operators' precedence needs.         *)
(* A tree is [kind "number" | "name", name], [kind "unary", op, right],        *)
(* [kind "binary", op, left, right], [kind "assign", op, name, right] with op  *)
(* "" for a plain one, or [kind "conditional", test, left, right].             *)
LevelOf(op) == CHOOSE level \in {Levels[k] : k \in 1..13} : \E k \in DOMAIN Operators(level) : Operators(level)[k] = op
Precedence(tree) ==
  CASE tree.kind = "binary" -> Depth(LevelOf(tree.op))
    [] tree.kind = "assign" -> Depth("assignment")
    [] tree.kind = "conditional" -> Depth("conditional")
    [] tree.kind = "unary" -> Depth("unary")
    [] OTHER -> Depth("primary")
InParentheses(text) == <<"(">> \o text \o <<")">>

RECURSIVE Text(_)
Text(tree) ==
  LET part(child, least) == IF Precedence(child) < least THEN InParentheses(Text(child)) ELSE Text(child)
      own == Precedence(tree)
  IN CASE tree.kind \in {"number", "name"} -> <<tree.name>>
       [] tree.kind = "unary" -> <<tree.op>> \o part(tree.right, own)
       [] tree.kind = "binary" -> part(tree.left, own) \o Spelled(tree.op) \o part(tree.right, own + 1)
       [] tree.kind = "assign" -> <<tree.name>> \o (IF tree.op = "" THEN <<>> ELSE Spelled(tree.op)) \o <<"=">> \o part(tree.right, own)
       [] tree.kind = "conditional" ->
            part(tree.test, own + 1) \o <<"?">> \o part(tree.left, Depth("assignment")) \o <<":">> \o part(tree.right, own)

Meant(value, vars, unset) == [ok |-> TRUE, value |-> value, vars |-> vars, unset |-> unset]
Error == [ok |-> FALSE, value |-> 0, vars |-> <<>>, unset |-> {}]

NameMeans(name, vars, unset) ==
  IF name \in DOMAIN vars THEN Meant(vars[name], vars, unset)
  ELSE Meant(0, vars, IF unset = {} THEN {name} ELSE unset)
Stored(name, op, right) ==
  LET old == NameMeans(name, right.vars, right.unset)
      value == CASE op = "" -> right.value
                 [] op \in {"/", "%"} -> Divided(op, old.value, right.value)
                 [] OTHER -> Binary(op, old.value, right.value)
  IN IF name \in ReadOnly \/ (op \in {"/", "%"} /\ right.value = 0) THEN Error
     ELSE Meant(value, (name :> value) @@ right.vars, IF op = "" THEN right.unset ELSE old.unset)
Computed(op, left, right) ==
  IF op \in {"/", "%"} /\ right.value = 0 THEN Error
  ELSE [right EXCEPT !.value = CASE op = "," -> right.value
                                 [] op \in {"||", "&&"} -> Truth(right.value # 0)
                                 [] op \in {"/", "%"} -> Divided(op, left.value, right.value)
                                 [] OTHER -> Binary(op, left.value, right.value)]
Opposite(op, value) ==
  CASE op = "!" -> Truth(value = 0) [] op = "~" -> Signed(Unsigned(-1 - value)) [] op = "-" -> Signed(-value) [] op = "+" -> value

\* What is skipped has no effect, and no error.
RECURSIVE Meaning(_, _, _)
Meaning(tree, vars, unset) ==
  CASE tree.kind = "number" -> Meant(IF NumberOf[tree.name] > Greatest THEN Greatest ELSE NumberOf[tree.name], vars, unset)
    [] tree.kind = "name" -> NameMeans(tree.name, vars, unset)
    [] tree.kind = "unary" ->
         LET right == Meaning(tree.right, vars, unset) IN
         IF right.ok THEN [right EXCEPT !.value = Opposite(tree.op, right.value)] ELSE Error
    [] tree.kind = "assign" ->
         LET right == Meaning(tree.right, vars, unset) IN IF right.ok THEN Stored(tree.name, tree.op, right) ELSE Error
    [] tree.kind = "binary" ->
         LET left == Meaning(tree.left, vars, unset) IN
         IF ~left.ok THEN Error
         ELSE IF tree.op \in {"||", "&&"} /\ Decided(tree.op, left.value)
              THEN [left EXCEPT !.value = Truth(tree.op = "||")]
         ELSE LET right == Meaning(tree.right, left.vars, left.unset) IN
              IF right.ok THEN Computed(tree.op, left, right) ELSE Error
    [] tree.kind = "conditional" ->
         LET test == Meaning(tree.test, vars, unset) IN
         IF ~test.ok THEN Error ELSE Meaning(IF test.value # 0 THEN tree.left ELSE tree.right, test.vars, test.unset)
=============================================================================
