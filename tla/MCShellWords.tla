---------------------------- MODULE MCShellWords ----------------------------
(* Small words, expressions, patterns and file trees for ShellWords. *)
EXTENDS ShellWords

-----------------------------------------------------------------------------
(* Segments of words. *)

Plain(text) == [k \in DOMAIN text |-> [c |-> text[k], escaped |-> FALSE]]
Lit(text) == [seg |-> "literal", bytes |-> Plain(text)]
Esc(c) == [seg |-> "literal", bytes |-> <<[c |-> c, escaped |-> TRUE]>>]
Single(text) == [seg |-> "single", text |-> text]
Ansi(text) == [seg |-> "ansi", text |-> text]
Double(word) == [seg |-> "double", word |-> word]
Tilde == [seg |-> "tilde"]
Command(status, text) == [seg |-> "command", status |-> status, text |-> text]
Computing(word, status, text) == [seg |-> "arithmetic", word |-> word, status |-> status, text |-> text]
Param(name) ==
  [seg |-> "parameter", name |-> name, op |-> "none", colon |-> FALSE, word |-> <<>>, prefix |-> TRUE, longest |-> FALSE]
Oper(name, op, word) == [Param(name) EXCEPT !.op = op, !.colon = TRUE, !.word = word]
Cut(name, prefix, longest, word) == [Param(name) EXCEPT !.op = "trim", !.word = word, !.prefix = prefix, !.longest = longest]

Root == [ifs |-> <<" ", ":">>, positional |-> <<>>, home |-> <<"~">>, nounset |-> FALSE, globbing |-> FALSE,
         readonly |-> {}, tree |-> {}]
Words(shell, set, segments, longest) ==
  [kind |-> "words", shell |-> shell, values |-> set, segments |-> segments, longest |-> longest]

x == Param("x")
y == Param("y")
\* Separators at both ends of values, beside quotes and literals.
Splitting ==
  Words(Root, ("x" :> <<" ", "a", ":">>) @@ ("y" :> <<":", " ">>),
        {x, y, Lit(<<"b">>), Lit(<<":">>), Double(<<x>>), Single(<<>>), Command("ok", <<" ", ":", "\n">>)}, 4)
\* Positional parameters, quoted and not.
Parameters(positional) ==
  Words([Root EXCEPT !.positional = positional], "y" :> <<" ">>,
        {Param("@"), Param("*"), y, Lit(<<"b">>), Double(<<Param("@")>>), Double(<<Param("*")>>),
         Double(<<Lit(<<"b">>), Param("@")>>), Double(<<Oper("y", "alternate", <<Double(<<Param("@")>>)>>)>>),
         Oper("x", "alternate", <<Double(<<Param("@")>>)>>), Oper("@", "length", <<>>)}, 3)
\* Operators that make a value, nested.
Assigned == Oper("u", "assign", <<Lit(<<"a", " ">>), y>>)
Operators_ ==
  Words([Root EXCEPT !.nounset = TRUE, !.readonly = {"r"}], ("x" :> <<>>) @@ ("y" :> <<" ", "b">>),
        {Assigned, Double(<<Oper("x", "assign", <<y>>)>>), Oper("x", "default", <<Lit(<<"a", " ">>), Double(<<y>>)>>),
         Oper("y", "alternate", <<Lit(<<" ", "a">>), Assigned>>), y, Param("u"), Oper("u", "error", <<y>>),
         Cut("y", TRUE, FALSE, <<y>>), Computing(<<Assigned>>, "ok", <<"1">>)}, 3)
\* What cannot be performed.
Refusing ==
  Words([Root EXCEPT !.nounset = TRUE, !.readonly = {"u"}], "x" :> <<"a">>,
        {x, Param("u"), Oper("u", "length", <<>>), Assigned, Command("malformed", <<>>), Command("unavailable", <<>>),
         Computing(<<x>>, "refused", <<>>), Computing(<<Param("u")>>, "unset", <<>>),
         Oper("x", "alternate", <<Oper("u", "error", <<>>)>>), Double(<<Cut("u", TRUE, TRUE, <<>>)>>),
         Cut("x", TRUE, FALSE, <<Param("u")>>), Computing(<<Param("u")>>, "ok", <<"1">>),
         Oper("1", "assign", <<>>)}, 2)
\* Quoted and unquoted pattern characters, over a tree.
File(name) == [path |-> <<name>>, kind |-> "file"]
Globbing ==
  Words([Root EXCEPT !.globbing = TRUE, !.tree = {File(<<"a">>), File(<<"*">>), File(<<"a", "-", "b">>), File(<<"\\">>)}],
        ("x" :> <<"*">>) @@ ("y" :> <<"a", " ", "?">>),
        {Lit(<<"*">>), Esc("*"), Single(<<"*">>), Ansi(<<"\\", "?">>), Double(<<x>>), x, y, Double(<<y>>), Lit(<<"a">>),
         Lit(<<"[", "a", "-">>), Double(<<Lit(<<"-">>)>>), Lit(<<"b", "]">>)}, 3)
\* Text of every kind, as a value and as a pattern; what is trimmed.
Trims ==
  Words(Root, ("x" :> <<"a", "*", "a", "\\">>) @@ ("y" :> <<"*">>),
        {Cut("x", prefix, longest, pattern) :
           prefix \in BOOLEAN, longest \in BOOLEAN,
           pattern \in {<<Lit(<<"*", "a">>)>>, <<Double(<<y>>)>>, <<Esc("a"), y>>, <<y, Single(<<"\\">>)>>}}
        \cup {Esc("a"), Double(<<Esc("a")>>), Double(<<Esc("$")>>), Oper("x", "alternate", <<Esc("}")>>),
              Double(<<Oper("x", "alternate", <<Esc("}")>>)>>), Tilde, Esc("\n"), Double(<<Lit(<<"*">>)>>)}, 2)

-----------------------------------------------------------------------------
(* Expressions. *)

Literals == ("0" :> 0) @@ ("1" :> 1) @@ ("3" :> 3) @@ ("9" :> 9)
Num(name) == [kind |-> "number", name |-> name]
Var(name) == [kind |-> "name", name |-> name]
Un(op, right) == [kind |-> "unary", op |-> op, right |-> right]
Bin(op, left, right) == [kind |-> "binary", op |-> op, left |-> left, right |-> right]
Let(op, name, right) == [kind |-> "assign", op |-> op, name |-> name, right |-> right]
Cond(test, left, right) == [kind |-> "conditional", test |-> test, left |-> left, right |-> right]
AllOps == {"||", "&&", "|", "^", "&", "==", "!=", "<=", ">=", "<", ">", "<<", ">>", "+", "-", "*", "/", "%", ","}
Leaves == {Num("3"), Var("x"), Var("y")}
Sums(trees, ops) == {Bin(op, left, right) : op \in ops, left \in trees, right \in trees}
Evaluating(trees, values_) == [kind |-> "arithmetic", trees |-> trees, values |-> values_]
EveryValue == {("x" :> n) : n \in Least..Greatest} \cup {("x" :> n) @@ ("y" :> -1) : n \in Least..Greatest}
Few == {("x" :> 0), ("x" :> Least) @@ ("y" :> -1)}

\* Every operator on every value; every pair of operators; effects under short
\* circuits.
Single_ == Sums(Leaves, AllOps) \cup {Un(op, leaf) : op \in {"!", "~", "-", "+"}, leaf \in Leaves \cup {Num("9")}}
Pairs == UNION {{Bin(a, Var("x"), Bin(b, Num("3"), Var("y"))), Bin(a, Bin(b, Num("3"), Var("y")), Var("x")),
                 Un("-", Bin(a, Un("~", Var("x")), Num("1")))} : a \in AllOps, b \in AllOps}
Effects ==
  LET stores == {Let(op, name, right) : op \in {"", "+", "/", "<<"}, name \in {"x", "y"}, right \in {Num("1"), Var("y"), Num("0")}}
                  \ {Let("/", name, right) : name \in {"x", "y"}, right \in {Num("0"), Var("y")}}
      skips == {Let("/", "x", Num("0")), Bin("/", Num("1"), Num("0"))}
      short == {Bin(op, Var("x"), right) : op \in {"&&", "||"}, right \in stores}
  IN stores \cup short \cup {Bin(op, Let("", "x", Num("0")), right) : op \in {",", "+", "-", "&&"}, right \in stores \cup short}
     \cup {Bin("||", Num("1"), Bin(op, Num("0"), right)) : op \in {"||", "&&"}, right \in stores \cup skips}
     \cup {Cond(test, left, right) : test \in {Var("x"), Num("0")}, left \in stores, right \in stores}
     \cup {Cond(Num("0"), left, Cond(Num("1"), Num("3"), right)) : left \in skips, right \in skips}

-----------------------------------------------------------------------------
(* Patterns and trees. *)

One(kind, c, members, text, negated) == [kind |-> kind, c |-> c, members |-> members, text |-> text, negated |-> negated]
AnyOne == One("any", "", {}, <<>>, FALSE)
Star == One("star", "", {}, <<>>, FALSE)
Literal_(c) == One("literal", c, {}, <<>>, FALSE)
Set(members, text, negated) == One("set", "", members, text, negated)
Letters == {"a", "b", "-", "]"}
Matching ==
  [kind |-> "patterns", alphabet |-> Letters, longest |-> 4, text |-> 4,
   items |-> {AnyOne, Star, Literal_("a"), Literal_("]"),
              Set({"a", "b"}, <<"[", "a", "-", "b", "]">>, FALSE), Set({"]", "a"}, <<"[", "!", "]", "a", "]">>, TRUE),
              Set({"a", "b", "-"}, <<"[", Class, "-", "]">>, FALSE)}]
Spelling ==
  [kind |-> "spelled", longest |-> 4, alphabet |-> {"a", "[", "]", "\\", "-"},
   symbols |-> {"a", "[", "]", "\\", "-", "!", Class, OpenClass}]
Entry(path, kind) == [path |-> path, kind |-> kind]
Walking ==
  LET a == <<"a">>  b == <<"b">>  dot == <<".", "a">> IN
  [kind |-> "paths", longest |-> 3,
   tree |-> {Entry(<<a>>, "dir"), Entry(<<a, a>>, "file"), Entry(<<a, b>>, "dir"), Entry(<<a, b, a>>, "file"),
             Entry(<<b>>, "link"), Entry(<<dot>>, "dir"), Entry(<<dot, b>>, "file"), Entry(<<a, dot>>, "file")},
   components |-> {<<"*">>, <<"?">>, <<"a">>, <<"b">>, <<".", "*">>, <<"\\", "a">>, <<"[", "a", "-", "b", "]">>}]

-----------------------------------------------------------------------------
(* Texts of words, lines and delimiters. *)

TheStyles == [braces : BOOLEAN, backquotes : BOOLEAN]
Texts(segments, longest, follows, breakable, styles) ==
  [kind |-> "texts", segments |-> segments, longest |-> longest, follows |-> follows, breakable |-> breakable, styles |-> styles]
Written == [braces |-> TRUE, backquotes |-> FALSE]
Cmd(text) == [seg |-> "command", text |-> text]
Arith(word) == [seg |-> "arithmetic", word |-> word]
Op(name, op, colon, word) == [Param(name) EXCEPT !.op = op, !.colon = colon, !.word = word]
Follows == {<<>>, <<" ", "}">>, <<")", ")">>, <<";">>}
\* Closers and quotes inside of everything.
Nested ==
  Texts({Lit(<<".">>), Esc("'"), Single(<<"}", "\\">>), Ansi(<<"'", ")">>), Double(<<Lit(<<"'">>), x, Esc("\"")>>),
         Op("x", "default", TRUE, <<Single(<<"}">>), Double(<<Lit(<<"}", "'">>)>>)>>),
         Double(<<Op("x", "default", FALSE, <<Lit(<<"'">>), Double(<<Lit(<<"a">>)>>)>>)>>),
         Op("x", "trim", FALSE, <<Ansi(<<"}">>), Op("x", "alternate", TRUE, <<Esc("}")>>)>>),
         Double(<<Cmd(<<"x", " ", "\"", ")", "\"">>), Lit(<<")">>)>>)}, 2, Follows, FALSE, TheStyles)
\* Commands whose own parentheses, comments and documents close nothing.
Case_ == <<"case", " ", "x", " ", "in", " ", "x", ")", " ", "x", ";", ";", " ", "esac">>
Document == <<"x", "<", "<", "'", "EOF", "'", "\n", ")", "'", "$", "(", "\n", "EOF", "\n">>
Commands ==
  Texts({Cmd(Case_), Cmd(<<" ", "(">> \o Case_ \o <<")">>), Cmd(<<"x", " ", "case", ";", " ", "#", ")", "'", "\n">>), Cmd(Document),
         Cmd(<<"x", "<", "<", "-", "EOF", ";", "x", " ", "$", "(">> \o Document \o <<")", "\n", ")", "\n", "\t", "EOF", "\n">>),
         Double(<<Cmd(Document)>>), Cmd(<<"$", "'", ")", "\\", "'", "'">>), Arith(<<Lit(<<"2", "<", "<", "(", "x", ")">>)>>),
         Cmd(<<"x", " ", "$", "{", "x", "-", "'", "}", "'", "}">>), Op("x", "default", FALSE, <<Cmd(Case_)>>)},
        1, Follows, FALSE, {Written})
Broken_ ==
  Texts({Lit(<<".">>), x, Param("#"), Op("x", "length", FALSE, <<>>), Op("x", "default", TRUE, <<Lit(<<"-">>), y>>), Op("#", "default", FALSE, <<Lit(<<".">>)>>),
         Cut("x", FALSE, TRUE, <<Lit(<<"%">>)>>), Double(<<Lit(<<".">>), x>>), Arith(<<Lit(<<"(", "2", ")">>), x>>),
         Cmd(<<"x", ";", "x">>)}, 2, {<<>>}, TRUE, {Written, [Written EXCEPT !.braces = FALSE]})
Lines(symbols, longest) == [kind |-> "lines", symbols |-> symbols, longest |-> longest]
Quoting == Lines({"'", "\"", "$", "{", "}", "x"}, 6)
Substituting == Lines({"$", "(", ")", "backquote", "\"", "#"}, 6)
Operating == Lines({"<", ">", "-", "&", ";", "\\", "\n", "2"}, 5)
Delimiting ==
  [kind |-> "delimiters", longest |-> 2, symbols |-> {"EOF", "\\", "'", "n", "\n"},
   segments |-> {Lit(<<"EOF">>), Esc("'"), Single(<<"\\">>), Ansi(<<"'", "n">>), Ansi(<<"\n">>), Double(<<Lit(<<"EOF">>), Esc("\\")>>), Esc("EOF")}]

-----------------------------------------------------------------------------

EveryWorld ==
  {Splitting, Parameters(<<>>), Parameters(<<<<"a", " ">>, <<>>>>), Operators_, Refusing, Globbing, Trims,
   Evaluating(Single_, EveryValue), Evaluating(Pairs \cup Effects, Few), Matching, Spelling, Walking,
   Nested, Commands, Broken_, Quoting, Substituting, Operating, Delimiting}
====
