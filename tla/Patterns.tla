------------------------------ MODULE Patterns ------------------------------
(* Shell patterns and pathname expansion: runtime/pattern.cpp and              *)
(* runtime/glob.cpp.                                                           *)
(*                                                                             *)
(* Text is a sequence of symbols: single characters, and inside brackets       *)
(* "[:" (a class that never closes) and Class (a whole [:lower:]).  A file     *)
(* tree is a set of entries [path, kind], path a sequence of names and kind    *)
(* "dir", "file" or "link" (to a file).                                        *)
EXTENDS Integers, FiniteSets, SequencesExt

Class == "[:lower:]"
OpenClass == "[:"
InClass == {"a", "b"}

\* Characters in the order a range uses.
Collation == <<"!", "*", "-", ".", "?", "[", "\\", "]", "a", "b">>
Rank(c) == IF \E k \in DOMAIN Collation : Collation[k] = c THEN CHOOSE k \in DOMAIN Collation : Collation[k] = c ELSE 0
           \* NUL and everything else sort first
At(text, k) == IF k \in DOMAIN text THEN text[k] ELSE "end"

-----------------------------------------------------------------------------
(* Bracket expressions.                                                        *)

\* One element and where the next begins.
ReadElement(pattern, at, c) ==
  IF pattern[at] = OpenClass THEN [formed |-> FALSE, set |-> FALSE, holds |-> FALSE, value |-> "none", next |-> at]
  ELSE IF pattern[at] = Class
       THEN [formed |-> TRUE, set |-> TRUE, holds |-> c \in InClass, value |-> "none", next |-> at + 1]
  ELSE LET k == IF pattern[at] = "\\" /\ at < Len(pattern) THEN at + 1 ELSE at
       IN [formed |-> TRUE, set |-> FALSE, holds |-> FALSE, value |-> pattern[k], next |-> k + 1]

Ranged(pattern, at) == at < Len(pattern) /\ pattern[at] = "-" /\ pattern[at + 1] # "]"
Between(low, c, high) == Rank(c) >= Rank(low) /\ Rank(c) <= Rank(high)

NotABracket == [formed |-> FALSE, matched |-> FALSE, next |-> 0]
\* From an element on; first: a ] here is an element.  An element is a member,
\* a class, or the lower end of a range; low and high are the ones read.
RangedTo(pattern, low, high, c) ==
  IF ~high.formed \/ high.set THEN NotABracket
  ELSE [formed |-> TRUE, next |-> high.next, matched |-> Between(low.value, c, high.value)]
ElementFrom(pattern, low, c) ==
  IF ~low.formed THEN NotABracket
  ELSE IF low.set \/ ~Ranged(pattern, low.next)
       THEN [formed |-> TRUE, next |-> low.next, matched |-> low.holds \/ (~low.set /\ c = low.value)]
  ELSE RangedTo(pattern, low, ReadElement(pattern, low.next + 1, c), c)
RECURSIVE Elements(_, _, _, _)
Elements(pattern, first, so_far, c) ==
  IF ~so_far.formed \/ so_far.next > Len(pattern) THEN NotABracket
  ELSE IF pattern[so_far.next] = "]" /\ ~first THEN [so_far EXCEPT !.next = @ + 1]
  ELSE Elements(pattern, FALSE,
                [ElementFrom(pattern, ReadElement(pattern, so_far.next, c), c) EXCEPT !.matched = @ \/ so_far.matched], c)

Negated(pattern, at) == At(pattern, at + 1) \in {"!", "^"}
match_bracket(pattern, at, c) ==
  [Elements(pattern, TRUE,
            [formed |-> TRUE, matched |-> FALSE, next |-> IF Negated(pattern, at) THEN at + 2 ELSE at + 1], c)
   EXCEPT !.matched = @ # Negated(pattern, at)]

-----------------------------------------------------------------------------
(* The matcher: it goes back to the last * alone.                              *)

\* Where the pattern stands after taking the symbol c, 0 if it does not.
AfterBracket(read, p, c) ==
  IF read.formed THEN (IF read.matched THEN read.next ELSE 0) ELSE IF c = "[" THEN p + 1 ELSE 0
Step(pattern, p, c) ==
  CASE At(pattern, p) = "\\" /\ p < Len(pattern) -> IF pattern[p + 1] = c THEN p + 2 ELSE 0
    [] At(pattern, p) = "?" -> p + 1
    [] At(pattern, p) = "[" -> AfterBracket(match_bracket(pattern, p, c), p, c)
    [] OTHER -> IF At(pattern, p) = c THEN p + 1 ELSE 0

OnlyStars(pattern, p) == \A k \in p..Len(pattern) : pattern[k] = "*"

\* p is 0 when the text has not matched: the last * then takes one more symbol.
\* mutant: a second * does not replace the first.
RECURSIVE MatchFromFirstStar(_, _, _, _, _, _)
MatchFromFirstStar(pattern, text, p, t, star_p, star_t) ==
  IF p = 0 THEN star_p # 0 /\ MatchFromFirstStar(pattern, text, star_p + 1, star_t + 1, star_p, star_t + 1)
  ELSE IF t > Len(text)
       THEN OnlyStars(pattern, p)
  ELSE IF At(pattern, p) = "*"
       THEN MatchFromFirstStar(pattern, text, p + 1, t, IF star_p = 0 THEN p ELSE star_p, IF star_p = 0 THEN t ELSE star_t)
  ELSE MatchFromFirstStar(pattern, text, Step(pattern, p, text[t]), t + 1, star_p, star_t)
RECURSIVE MatchFrom(_, _, _, _, _, _)
MatchFrom(pattern, text, p, t, star_p, star_t) ==
  IF p = 0 THEN star_p # 0 /\ MatchFrom(pattern, text, star_p + 1, star_t + 1, star_p, star_t + 1)
  ELSE IF t > Len(text) THEN OnlyStars(pattern, p)
  ELSE IF At(pattern, p) = "*" THEN MatchFrom(pattern, text, p + 1, t, p, t)
  ELSE MatchFrom(pattern, text, Step(pattern, p, text[t]), t + 1, star_p, star_t)

\* A leading period of a file's name is matched by a period only.
HiddenFrom(pattern, text) == At(text, 1) = "." /\ At(pattern, 1) \notin {".", "\\"}
pattern_match(pattern, text, period_is_special) ==
  ~(period_is_special /\ HiddenFrom(pattern, text)) /\ MatchFrom(pattern, text, 1, 1, 0, 0)

-----------------------------------------------------------------------------
(* What is a pattern, and what a pattern without its escapes says.             *)

\* Not escaped by a backslash before it.
Live(text, k) ==
  LET run == {j \in 1..(k - 1) : \A i \in j..(k - 1) : text[i] = "\\"} IN Cardinality(run) % 2 = 0
has_pattern_characters(text) == \E k \in DOMAIN text : text[k] \in {"*", "?", "["} /\ Live(text, k)

is_pattern(word) ==
  \E k \in DOMAIN word :
    /\ Live(word, k)
    /\ \/ word[k] \in {"*", "?"}
       \/ /\ word[k] = "["
          /\ \E close \in (k + 1)..Len(word) : word[close] \in {"]", Class} /\ Live(word, close)
          /\ match_bracket(word, k, "end").formed

remove_pattern_escapes(pattern) ==
  FlattenSeq([k \in DOMAIN pattern |->
                IF pattern[k] = "\\" /\ k < Len(pattern) /\ Live(pattern, k) THEN <<>> ELSE <<pattern[k]>>])

\* Trims: the length taken from one end, Nowhere if none is.
NoMatch == -1
Ends(pattern, text, prefix) ==
  {n \in 0..Len(text) : pattern_match(pattern, IF prefix THEN SubSeq(text, 1, n)
                                               ELSE SubSeq(text, Len(text) - n + 1, Len(text)), FALSE)}
Extreme(ends, longest) ==
  IF ends = {} THEN NoMatch ELSE CHOOSE n \in ends : \A m \in ends : IF longest THEN m <= n ELSE n <= m
match_end(pattern, text, prefix, longest) == Extreme(Ends(pattern, text, prefix), longest)

-----------------------------------------------------------------------------
(* Pathname expansion: a walk over the components of a word, each given as a   *)
(* sequence of symbols; an empty last one is a trailing slash.                 *)

Listed(tree, dir) == {one \in tree : Len(one.path) = Len(dir) + 1 /\ SubSeq(one.path, 1, Len(dir)) = dir}
IsDirectory(tree, dir) == dir = <<>> \/ \E one \in tree : one.path = dir /\ one.kind = "dir"

\* A directory that cannot be opened yields nothing; what is not the last
\* component must look like a directory, and a link does.
expand_component(tree, dir, component, is_last) ==
  IF ~IsDirectory(tree, dir) THEN {}
  ELSE {one.path : one \in {entry \in Listed(tree, dir) :
                              /\ pattern_match(component, Last(entry.path), TRUE)
                              /\ is_last \/ entry.kind # "file"}}

\* A literal component is looked for when it is the last: the next one's
\* directory would not open.
Extended(tree, dir, component, is_last) ==
  LET full == Append(dir, remove_pattern_escapes(component)) IN
  IF is_last /\ ~\E one \in tree : one.path = full THEN {} ELSE {full}

Component(tree, dirs, component, is_last) ==
  IF component = <<>> THEN dirs
  ELSE UNION {IF is_pattern(component) THEN expand_component(tree, dir, component, is_last)
              ELSE Extended(tree, dir, component, is_last) : dir \in dirs}

\* Nothing is read for a word that is no pattern.  A bracket of the whole word
\* may span a slash; one of a component does not.
WholeWord(components) ==
  FlattenSeq([k \in DOMAIN components |-> IF k = 1 THEN components[k] ELSE <<"/">> \o components[k]])

\* The paths found; the word itself stands when there are none.
expand_pathnames(tree, components) ==
  IF ~is_pattern(WholeWord(components)) THEN {}
  ELSE FoldLeft(LAMBDA dirs, k : Component(tree, dirs, components[k], k = Len(components)),
                {<<>>}, [k \in DOMAIN components |-> k])
=============================================================================
