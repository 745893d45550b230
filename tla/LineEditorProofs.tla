------------------------- MODULE LineEditorProofs -------------------------
(***************************************************************************)
(* That the modes of the editor agree, that what was chosen or killed is   *)
(* to be had again, and that its history of edits is a stack of texts.     *)
(*                                                                         *)
(* First the operators on texts and what an action stages, kind by kind;   *)
(* then which actions the keymaps can ask for in each combination of       *)
(* layers, operator and pager (InStep); then the history (Sound), and what *)
(* dispatching a key, with an operator closed or not, does of both         *)
(* (Event). SoundInv is the inductive invariant; the theorems are last.    *)
(***************************************************************************)
EXTENDS LineEditor, FiniteSetTheorems, SequenceTheorems, WellFoundedInduction, TLAPS

-----------------------------------------------------------------------------
(* Sets of positions, and what is computed step by step.                   *)

(* A set of numbers that is not empty has a least.                         *)
LEMMA HasLeast ==
  ASSUME NEW T, T \subseteq Nat, T # {}
  PROVE  \E x \in T : \A y \in T : x <= y
<1> DEFINE R == OpToRel(<, Nat)
<1>1. IsWellFoundedOn(R, Nat)
  BY NatLessThanWellFounded
<1>2. \A x, y \in Nat : <<x, y>> \in R <=> x < y
  BY DEF OpToRel
<1> HIDE DEF R
<1>3. PICK x \in T : \A y \in T : ~ (<<y, x>> \in R)
  BY <1>1, WFMin
<1>4. \A y \in T : x <= y
  <2> TAKE y \in T
  <2>1. x \in Nat /\ y \in Nat /\ ~(y < x)
    BY <1>2, <1>3
  <2> QED BY <2>1
<1> QED BY <1>4

(* A set of numbers up to a bound that is not empty has a greatest.        *)
LEMMA HasGreatest ==
  ASSUME NEW n \in Nat, NEW T, T \subseteq 0 .. n, T # {}
  PROVE  \E x \in T : \A y \in T : y <= x
<1> DEFINE D == {d \in 0 .. n : n - d \in T}
<1>1. D \subseteq Nat
  OBVIOUS
<1>2. D # {}
  <2>1. PICK x \in T : TRUE
    OBVIOUS
  <2>2. n - x \in 0 .. n /\ n - (n - x) = x
    BY <2>1
  <2> QED BY <2>1, <2>2
<1>3. PICK d \in D : \A e \in D : d <= e
  <2> HIDE DEF D
  <2> QED BY <1>1, <1>2, HasLeast
<1>4. n - d \in T /\ d \in 0 .. n
  BY <1>3
<1>5. ASSUME NEW y \in T PROVE y <= n - d
  <2>1. n - y \in 0 .. n /\ n - (n - y) = y
    BY <1>5
  <2>2. d <= n - y
    BY <1>3, <1>5, <2>1
  <2> QED BY <1>4, <2>1, <2>2
<1> QED BY <1>4, <1>5

(* The first and the last of some positions.                               *)
LEMMA FirstIs ==
  ASSUME NEW T, T \subseteq Nat, NEW other
  PROVE  /\ T = {} => FirstOf(T, other) = other
         /\ T # {} => FirstOf(T, other) \in T /\ \A y \in T : FirstOf(T, other) <= y
<1>1. T # {} => \E x \in T : \A y \in T : x <= y
  BY HasLeast
<1> QED BY <1>1 DEF FirstOf, Min

LEMMA LastIs ==
  ASSUME NEW n \in Nat, NEW T, T \subseteq 0 .. n, NEW other
  PROVE  /\ T = {} => LastOf(T, other) = other
         /\ T # {} => LastOf(T, other) \in T /\ \A y \in T : LastOf(T, other) >= y
<1>1. T # {} => \E x \in T : \A y \in T : x >= y
  <2> SUFFICES ASSUME T # {} PROVE \E x \in T : \A y \in T : x >= y
    OBVIOUS
  <2>1. PICK x \in T : \A y \in T : y <= x
    BY HasGreatest
  <2> QED BY <2>1
<1> QED BY <1>1 DEF LastOf, Max

LEMMA GreatestIs ==
  ASSUME NEW n \in Nat, NEW T, T \subseteq 0 .. n, T # {}
  PROVE  Max(T) \in T /\ \A y \in T : Max(T) >= y
<1>1. PICK x \in T : \A y \in T : y <= x
  BY HasGreatest
<1>2. \E x_1 \in T : \A y \in T : x_1 >= y
  BY <1>1
<1> QED BY <1>2 DEF Max

(* What every step keeps is so at the end.                                 *)
LEMMA StaysIn ==
  ASSUME NEW n \in Nat, NEW f, NEW S, f[0] \in S,
         \A i \in 1 .. n : f[i - 1] \in S => f[i] \in S
  PROVE  \A i \in 0 .. n : f[i] \in S
<1> DEFINE bad == {i \in 0 .. n : f[i] \notin S}
<1> SUFFICES ASSUME bad # {} PROVE FALSE
  OBVIOUS
<1>1. PICK i \in bad : \A j \in bad : i <= j
  <2>1. bad \subseteq Nat
    OBVIOUS
  <2> HIDE DEF bad
  <2> QED BY <2>1, HasLeast
<1>2. i # 0 /\ i \in 0 .. n
  BY <1>1
<1>3. i \in 1 .. n /\ i - 1 \in 0 .. n /\ ~(i <= i - 1)
  BY <1>2
<1>4. f[i - 1] \in S
  BY <1>1, <1>3
<1> QED BY <1>1, <1>3, <1>4

Iterates(f, n, S, first, step) ==
  f \in [0 .. n -> S] /\ f[0] = first /\ \A i \in 1 .. n : f[i] = step[i][f[i - 1]]
Stepping(n, S, first, step) == n \in Nat /\ first \in S /\ step \in [1 .. n -> [S -> S]]

(* A function that is given step by step from its first value exists.      *)
LEMMA StepByStep ==
  ASSUME NEW n, NEW S, NEW first, NEW step, Stepping(n, S, first, step)
  PROVE  \E f : Iterates(f, n, S, first, step)
<1> DEFINE good(f, m) == /\ f \in [0 .. m -> S]
                         /\ f[0] = first
                         /\ \A i \in 1 .. m : f[i] = step[i][f[i - 1]]
           bad == {m \in 0 .. n : ~ \E f : good(f, m)}
<1>0. n \in Nat /\ first \in S /\ step \in [1 .. n -> [S -> S]]
  BY DEF Stepping
<1>1. bad = {}
  <2> SUFFICES ASSUME bad # {} PROVE FALSE
    OBVIOUS
  <2>1. PICK m \in bad : \A k \in bad : m <= k
    <3>1. bad \subseteq Nat
      BY <1>0
    <3> HIDE DEF bad
    <3> QED BY <3>1, HasLeast
  <2>2. m # 0
    <3>1. good([i \in 0 .. 0 |-> first], 0)
      BY <1>0
    <3> QED BY <3>1, <2>1
  <2>3. m - 1 \in 0 .. n /\ m \in Nat /\ m >= 1 /\ ~(m <= m - 1)
    BY <1>0, <2>1, <2>2
  <2>4. PICK g : good(g, m - 1)
    <3> HIDE DEF good
    <3> QED BY <2>1, <2>3
  <2> DEFINE f == [i \in 0 .. m |-> IF i < m THEN g[i] ELSE step[m][g[m - 1]]]
  <2>5. ASSUME NEW i \in 0 .. m PROVE f[i] \in S
    <3>1. CASE i < m
      BY <2>3, <2>4, <3>1
    <3>2. CASE i = m
      <4>1. g[m - 1] \in S
        BY <2>3, <2>4
      <4> QED BY <1>0, <2>3, <3>2, <4>1
    <3> QED BY <2>3, <3>1, <3>2
  <2>6. ASSUME NEW i \in 1 .. m PROVE f[i] = step[i][f[i - 1]]
    <3>1. CASE i < m
      <4>1. i \in 1 .. (m - 1) /\ i - 1 \in 0 .. m /\ i - 1 < m /\ i \in 0 .. m
        BY <2>3, <3>1
      <4> QED BY <2>4, <3>1, <4>1
    <3>2. CASE i = m
      <4>1. i - 1 \in 0 .. m /\ i - 1 < m /\ i \in 0 .. m
        BY <2>3, <3>2
      <4> QED BY <3>2, <4>1
    <3> QED BY <2>3, <3>1, <3>2
  <2>7. f[0] = first
    BY <2>3, <2>4
  <2>8. good(f, m)
    <3>1. f \in [0 .. m -> S]
      BY <2>5
    <3> HIDE DEF f
    <3> QED BY <2>6, <2>7, <3>1
  <2> HIDE DEF f, good
  <2> QED BY <2>1, <2>8
<1>2. PICK f : good(f, n)
  <2>1. n \in 0 .. n
    BY <1>0
  <2> HIDE DEF good
  <2> QED BY <1>1, <2>1
<1> QED BY <1>2 DEF Iterates

(* What is kept of a sequence is a sequence of the same things.            *)
LEMMA AmongIs ==
  ASSUME NEW S, NEW s \in Seq(S), NEW wanted
  PROVE  /\ Among(s, wanted) \in Seq(S)
         /\ s = <<>> => Among(s, wanted) = <<>>
         /\ Len(s) = 1 /\ s[1] \in wanted => Among(s, wanted) = <<s[1]>>
<1> DEFINE n0 == Len(s)
           Given(f) == [n \in 0 .. n0 |->
             IF n = 0 THEN <<>> ELSE IF s[n] \in wanted THEN Append(f[n - 1], s[n]) ELSE f[n - 1]]
           step == [i \in 1 .. n0 |-> [x \in Seq(S) |->
             IF s[i] \in wanted THEN Append(x, s[i]) ELSE x]]
<1>1. n0 \in Nat /\ \A i \in 1 .. n0 : s[i] \in S
  OBVIOUS
<1>2. step \in [1 .. n0 -> [Seq(S) -> Seq(S)]]
  BY <1>1
<1>3. PICK f \in [0 .. n0 -> Seq(S)] :
        f[0] = <<>> /\ \A i \in 1 .. n0 : f[i] = step[i][f[i - 1]]
  <2> DEFINE first == <<>>
             Q == Seq(S)
  <2>1. first \in Q /\ n0 \in Nat /\ step \in [1 .. n0 -> [Q -> Q]]
    BY <1>1, <1>2
  <2> HIDE DEF step, n0, first, Q
  <2>2. \E f : Iterates(f, n0, Q, first, step)
    BY <2>1, StepByStep DEF Stepping
  <2> QED BY <2>2 DEF first, Q, Iterates
<1>4. f = Given(f)
  <2>1. \A i \in 1 .. n0 : f[i] = IF s[i] \in wanted THEN Append(f[i - 1], s[i]) ELSE f[i - 1]
    <3> TAKE i \in 1 .. n0
    <3>1. i - 1 \in 0 .. n0
      BY <1>1
    <3> QED BY <1>1, <1>3, <3>1
  <2>2. \A i \in 0 .. n0 : i # 0 => i \in 1 .. n0
    BY <1>1
  <2>3. f = [n \in 0 .. n0 |-> f[n]]
    BY <1>3
  <2> HIDE DEF step
  <2> QED BY <1>3, <2>1, <2>2, <2>3
<1> DEFINE g == CHOOSE g : g = Given(g)
<1>5. g = Given(g)
  <2> HIDE DEF Given
  <2> QED BY <1>4
<1>6. Among(s, wanted) = g[n0]
  BY DEF Among
<1> HIDE DEF g
<1>7. /\ g[0] = <<>>
      /\ \A i \in 1 .. n0 :
           g[i] = IF s[i] \in wanted THEN Append(g[i - 1], s[i]) ELSE g[i - 1]
  <2>1. 0 \in 0 .. n0
    BY <1>1
  <2>2. g[0] = <<>>
    BY <1>5, <2>1
  <2>3. ASSUME NEW i \in 1 .. n0
        PROVE  g[i] = IF s[i] \in wanted THEN Append(g[i - 1], s[i]) ELSE g[i - 1]
    <3>1. i \in 0 .. n0 /\ i # 0
      BY <1>1
    <3> QED BY <1>5, <3>1
  <2> QED BY <2>2, <2>3
<1>8. \A i \in 0 .. n0 : g[i] \in Seq(S)
  <2>1. \A i \in 1 .. n0 : g[i - 1] \in Seq(S) => g[i] \in Seq(S)
    <3> TAKE i \in 1 .. n0
    <3>1. s[i] \in S
      BY <1>1
    <3>2. g[i] = IF s[i] \in wanted THEN Append(g[i - 1], s[i]) ELSE g[i - 1]
      BY <1>7
    <3> HIDE DEF n0
    <3> QED BY <3>1, <3>2
  <2>2. g[0] \in Seq(S)
    BY <1>7
  <2> HIDE DEF n0
  <2> QED BY <1>1, <2>1, <2>2, StaysIn
<1>9. ASSUME n0 = 1, s[1] \in wanted PROVE g[n0] = <<s[1]>>
  <2>1. 1 \in 1 .. n0 /\ 1 - 1 = 0
    BY <1>9
  <2>2. g[1] = Append(g[0], s[1])
    BY <1>7, <1>9, <2>1
  <2> QED BY <1>7, <1>9, <2>2
<1>10. Among(s, wanted) \in Seq(S)
  BY <1>1, <1>6, <1>8
<1>11. ASSUME s = <<>> PROVE Among(s, wanted) = <<>>
  BY <1>6, <1>7, <1>11
<1> QED BY <1>6, <1>9, <1>10, <1>11

-----------------------------------------------------------------------------
(* The positions that the motions go to are in the text.                   *)

(* Strings, the ones that the editor writes itself among them *)
Token == STRING \cup {NL, "a", "A", "/", " ", "none"}

LEMMA LineEnds ==
  ASSUME NEW text \in Seq(Token), NEW at \in Offsets(text)
  PROVE  /\ line_start_of(text, at) \in 0 .. at
         /\ line_end_of(text, at) \in at .. Len(text)
<1>1. line_start_of(text, at) \in 0 .. at
  <2> DEFINE T == {p \in 1 .. at : text[p] = NL}
  <2>1. T \subseteq 0 .. at /\ T \subseteq 1 .. at /\ at \in Nat
    BY DEF Offsets
  <2> HIDE DEF T
  <2>2. LastOf(T, 0) = 0 \/ LastOf(T, 0) \in 1 .. at
    BY <2>1, LastIs
  <2> QED BY <2>1, <2>2 DEF line_start_of, T
<1>2. line_end_of(text, at) \in at .. Len(text)
  <2> DEFINE T == {p \in at .. Len(text) - 1 : text[p + 1] = NL}
  <2>1. T \subseteq Nat /\ T \subseteq at .. Len(text) /\ at \in Nat /\ at <= Len(text)
    BY DEF Offsets
  <2> HIDE DEF T
  <2>2. FirstOf(T, Len(text)) = Len(text) \/ FirstOf(T, Len(text)) \in T
    BY <2>1, FirstIs
  <2> QED BY <2>1, <2>2 DEF line_end_of, T
<1> QED BY <1>1, <1>2

LEMMA FirstOfStays ==
  ASSUME NEW text \in Seq(Token), NEW low \in Nat, NEW T, T \subseteq low .. Len(text),
         NEW other \in low .. Len(text)
  PROVE  FirstOf(T, other) \in low .. Len(text)
<1>1. T \subseteq Nat
  OBVIOUS
<1>2. FirstOf(T, other) = other \/ FirstOf(T, other) \in T
  BY <1>1, FirstIs
<1> QED BY <1>2

Motions == {"prev", "next", "start", "end", "nonblank", "up", "down", "word", "back", "last",
            "WORD", "BACK", "LAST", "next_word"}

LEMMA WordsAreInside ==
  ASSUME NEW text \in Seq(Token), NEW at \in Offsets(text), NEW big
  PROVE  /\ word_start_next(text, at, big) \in Offsets(text)
         /\ word_start_prev(text, at, big) \in 0 .. at
         /\ word_end_next(text, at, big) \in Offsets(text)
<1>0. at \in Nat /\ at <= Len(text) /\ Len(text) \in Nat
  BY DEF Offsets
<1>00. Len(text) \in 0 .. Len(text) /\ 0 \in Nat
  BY <1>0
<1>1. word_start_next(text, at, big) \in Offsets(text)
  <2> DEFINE T == {p \in After(text, at) : Begins(text, p, big)}
  <2>1. T \subseteq 0 .. Len(text)
    BY <1>0 DEF After
  <2> HIDE DEF T
  <2>2. FirstOf(T, Len(text)) \in 0 .. Len(text)
    BY <1>00, <2>1, FirstOfStays
  <2> QED BY <2>2 DEF word_start_next, T, Offsets
<1>2. word_end_next(text, at, big) \in Offsets(text)
  <2> DEFINE T == {p \in After(text, at) : Ends(text, p, big)}
  <2>1. T \subseteq 0 .. Len(text)
    BY <1>0 DEF After
  <2> HIDE DEF T
  <2>2. FirstOf(T, Len(text)) \in 0 .. Len(text)
    BY <1>00, <2>1, FirstOfStays
  <2> QED BY <2>2 DEF word_end_next, T, Offsets
<1>3. word_start_prev(text, at, big) \in 0 .. at
  <2> DEFINE T == {p \in Before(at) : Begins(text, p, big)}
  <2>1. T \subseteq 0 .. at
    BY <1>0 DEF Before
  <2> HIDE DEF T
  <2>2. LastOf(T, 0) = 0 \/ LastOf(T, 0) \in T
    BY <1>0, <2>1, LastIs
  <2>3. 0 \in 0 .. at
    BY <1>0
  <2>4. LastOf(T, 0) \in 0 .. at
    BY <2>1, <2>2, <2>3, Zenon
  <2> QED BY <2>4 DEF word_start_prev, T
<1> QED BY <1>1, <1>2, <1>3

LEMMA MotionsStayInside ==
  ASSUME NEW text \in Seq(Token), NEW at \in Offsets(text), NEW motion \in Motions
  PROVE  Move(text, at, motion) \in Offsets(text)
<1>0. at \in Nat /\ at <= Len(text) /\ Len(text) \in Nat /\ Offsets(text) = 0 .. Len(text)
  BY DEF Offsets
<1>1. line_start_of(text, at) \in 0 .. at /\ line_end_of(text, at) \in at .. Len(text)
  BY LineEnds
<1>2. prev_boundary(text, at) \in Offsets(text) /\ next_boundary(text, at) \in Offsets(text)
  BY <1>0 DEF prev_boundary, next_boundary
<1>3. first_nonblank_of(text, at) \in Offsets(text)
  <2> DEFINE end == line_end_of(text, at)
             T == {p \in line_start_of(text, at) .. end - 1 : text[p + 1] \notin Blank}
  <2>1. T \subseteq 0 .. Len(text) /\ end \in 0 .. Len(text)
    BY <1>0, <1>1
  <2>2. first_nonblank_of(text, at) = FirstOf(T, end)
    BY DEF first_nonblank_of
  <2> HIDE DEF T, end
  <2> QED BY <1>0, <2>1, <2>2, FirstOfStays
<1>4. line_up_of(text, at) \in Offsets(text)
  <2>1. CASE line_start_of(text, at) = 0
    BY <1>0, <2>1 DEF line_up_of
  <2>2. CASE line_start_of(text, at) # 0
    <3> DEFINE start == line_start_of(text, at)
    <3>1. start \in Nat /\ start <= at /\ start - 1 \in Offsets(text) /\ start - 1 \in Nat
      BY <1>0, <1>1, <2>2
    <3>2. line_start_of(text, start - 1) \in 0 .. start - 1
      BY <3>1, LineEnds
    <3> DEFINE up == line_start_of(text, start - 1) + (at - start)
    <3>3. up \in Nat
      BY <1>0, <3>1, <3>2
    <3>4. line_up_of(text, at) = Least(up, start - 1)
      BY <2>2 DEF line_up_of
    <3> HIDE DEF up, start
    <3> QED BY <1>0, <3>1, <3>3, <3>4 DEF Least
  <2> QED BY <2>1, <2>2
<1>5. line_down_of(text, at) \in Offsets(text)
  <2>1. CASE line_end_of(text, at) = Len(text)
    BY <1>0, <2>1 DEF line_down_of
  <2>2. CASE line_end_of(text, at) # Len(text)
    <3> DEFINE end == line_end_of(text, at)
    <3>1. end + 1 \in Offsets(text) /\ end + 1 \in Nat
      BY <1>0, <1>1, <2>2
    <3>2. line_end_of(text, end + 1) \in end + 1 .. Len(text)
      BY <3>1, LineEnds
    <3> DEFINE below == end + 1 + (at - line_start_of(text, at))
    <3>3. below \in Nat
      BY <1>0, <1>1, <3>1
    <3>4. line_down_of(text, at) = Least(below, line_end_of(text, end + 1))
      BY <2>2 DEF line_down_of
    <3> HIDE DEF below, end
    <3> QED BY <1>0, <3>1, <3>2, <3>3, <3>4 DEF Least
  <2> QED BY <2>1, <2>2
<1>6. \A big \in BOOLEAN : /\ word_start_next(text, at, big) \in Offsets(text)
                           /\ word_start_prev(text, at, big) \in Offsets(text)
                           /\ word_end_next(text, at, big) \in Offsets(text)
  <2> TAKE big \in BOOLEAN
  <2>1. /\ word_start_next(text, at, big) \in Offsets(text)
        /\ word_start_prev(text, at, big) \in 0 .. at
        /\ word_end_next(text, at, big) \in Offsets(text)
    BY WordsAreInside
  <2> QED BY <1>0, <2>1
<1>7. next_word_of(text, at) \in Offsets(text)
  <2> DEFINE E(p) == Ends(text, p, TRUE)
             T == {p \in at .. Len(text) - 1 : E(p)}
  <2> HIDE DEF E
  <2>1. T \subseteq Nat /\ T \subseteq 0 .. Len(text) - 1
    BY <1>0
  <2>2. next_word_of(text, at) = FirstOf(T, Len(text) - 1) + 1
    BY Zenon DEF next_word_of, E
  <2> HIDE DEF T
  <2>3. FirstOf(T, Len(text) - 1) = Len(text) - 1 \/ FirstOf(T, Len(text) - 1) \in T
    BY <2>1, FirstIs
  <2>4. CASE FirstOf(T, Len(text) - 1) = Len(text) - 1
    BY <1>0, <2>2, <2>4
  <2>5. CASE FirstOf(T, Len(text) - 1) \in T
    <3>1. FirstOf(T, Len(text) - 1) \in 0 .. Len(text) - 1
      BY <2>1, <2>5, Zenon
    <3> QED BY <1>0, <2>2, <3>1
  <2> QED BY <2>3, <2>4, <2>5
<1>8. CASE motion \in {"prev", "next", "start", "end", "nonblank", "up", "down", "next_word"}
  <2>1. line_start_of(text, at) \in Offsets(text) /\ line_end_of(text, at) \in Offsets(text)
    BY <1>0, <1>1
  <2> QED BY <1>2, <1>3, <1>4, <1>5, <1>7, <1>8, <2>1, ZenonT(40) DEF Move
<1>9. CASE motion \in {"word", "back", "last"}
  BY <1>6, <1>9, Zenon DEF Move
<1>10. CASE motion \in {"WORD", "BACK", "LAST"}
  BY <1>6, <1>10, Zenon DEF Move
<1> QED BY <1>8, <1>9, <1>10 DEF Motions

-----------------------------------------------------------------------------
(* What a replacement leaves, and what takes it back.                      *)

LEMMA SliceIs ==
  ASSUME NEW s \in Seq(Token), NEW a \in Nat, NEW b \in Nat, b <= Len(s)
  PROVE  /\ slice(s, a, b) \in Seq(Token)
         /\ Len(slice(s, a, b)) = IF a <= b THEN b - a ELSE 0
         /\ \A i \in 1 .. b - a : slice(s, a, b)[i] = s[a + i]
<1>1. \A i \in a + 1 .. b : s[i] \in Token
  OBVIOUS
<1>2. a + 1 \in Int /\ b \in Int
  OBVIOUS
<1>3. /\ SubSeq(s, a + 1, b) \in Seq(Token)
      /\ Len(SubSeq(s, a + 1, b)) = IF a + 1 <= b THEN b - (a + 1) + 1 ELSE 0
      /\ \A i \in 1 .. b - (a + 1) + 1 : SubSeq(s, a + 1, b)[i] = s[a + 1 + i - 1]
  BY <1>1, <1>2, SubSeqProperties
<1>4. \A i \in 1 .. b - a : i \in 1 .. b - (a + 1) + 1 /\ a + 1 + i - 1 = a + i
  OBVIOUS
<1> QED BY <1>3, <1>4 DEF slice

Within(s, a, b, w) ==
  /\ s \in Seq(Token) /\ w \in Seq(Token)
  /\ a \in Nat /\ b \in Nat /\ a <= b /\ b <= Len(s)

LEMMA ReplaceIs ==
  ASSUME NEW s, NEW a, NEW b, NEW w, Within(s, a, b, w)
  PROVE  /\ replace(s, a, b, w) \in Seq(Token)
         /\ Len(replace(s, a, b, w)) = a + Len(w) + (Len(s) - b)
         /\ \A i \in 1 .. a + Len(w) + (Len(s) - b) :
              replace(s, a, b, w)[i] = IF i <= a THEN s[i]
                                       ELSE IF i <= a + Len(w) THEN w[i - a]
                                       ELSE s[i - a - Len(w) + b]
<1>0. /\ s \in Seq(Token) /\ w \in Seq(Token) /\ Len(s) \in Nat /\ Len(w) \in Nat
      /\ a \in Nat /\ b \in Nat /\ a <= b /\ b <= Len(s) /\ 0 \in Nat /\ Len(s) <= Len(s)
      /\ a <= Len(s)
  BY DEF Within
<1> DEFINE x == slice(s, 0, a)
           y == slice(s, b, Len(s))
           z == x \o w
<1>1. x \in Seq(Token) /\ Len(x) = a /\ \A i \in 1 .. a : x[i] = s[i]
  <2>1. /\ x \in Seq(Token) /\ Len(x) = IF 0 <= a THEN a - 0 ELSE 0
        /\ \A i \in 1 .. a - 0 : x[i] = s[0 + i]
    BY <1>0, SliceIs
  <2> HIDE DEF x
  <2> QED BY <1>0, <2>1
<1>2. y \in Seq(Token) /\ Len(y) = Len(s) - b /\ \A i \in 1 .. Len(s) - b : y[i] = s[b + i]
  <2>1. /\ y \in Seq(Token) /\ Len(y) = IF b <= Len(s) THEN Len(s) - b ELSE 0
        /\ \A i \in 1 .. Len(s) - b : y[i] = s[b + i]
    BY <1>0, SliceIs
  <2> HIDE DEF y
  <2> QED BY <1>0, <2>1
<1> HIDE DEF x, y
<1>3. /\ z \in Seq(Token) /\ Len(z) = Len(x) + Len(w)
      /\ \A i \in 1 .. Len(x) + Len(w) : z[i] = IF i <= Len(x) THEN x[i] ELSE w[i - Len(x)]
  BY <1>0, <1>1, ConcatProperties
<1> HIDE DEF z
<1>4. /\ z \o y \in Seq(Token) /\ Len(z \o y) = Len(z) + Len(y)
      /\ \A i \in 1 .. Len(z) + Len(y) : (z \o y)[i] = IF i <= Len(z) THEN z[i] ELSE y[i - Len(z)]
  BY <1>2, <1>3, ConcatProperties
<1> DEFINE r == z \o y
<1>5. replace(s, a, b, w) = r
  BY DEF replace, x, y, z
<1> HIDE DEF r
<1>6. Len(r) = a + Len(w) + (Len(s) - b) /\ r \in Seq(Token)
  BY <1>0, <1>1, <1>2, <1>3, <1>4 DEF r
<1>7. ASSUME NEW i \in 1 .. a + Len(w) + (Len(s) - b)
      PROVE  r[i] = IF i <= a THEN s[i] ELSE IF i <= a + Len(w) THEN w[i - a]
                                        ELSE s[i - a - Len(w) + b]
  <2>1. r[i] = IF i <= a + Len(w) THEN z[i] ELSE y[i - (a + Len(w))]
    BY <1>0, <1>1, <1>2, <1>3, <1>4 DEF r
  <2>2. CASE i <= a
    <3>1. i \in 1 .. a /\ i \in 1 .. Len(x) + Len(w) /\ i <= a + Len(w)
      BY <1>0, <1>1, <2>2
    <3> QED BY <1>0, <1>1, <1>3, <2>1, <2>2, <3>1
  <2>3. CASE i > a /\ i <= a + Len(w)
    <3>1. i \in 1 .. Len(x) + Len(w) /\ ~(i <= a)
      BY <1>0, <1>1, <2>3
    <3> QED BY <1>0, <1>1, <1>3, <2>1, <2>3, <3>1
  <2>4. CASE i > a + Len(w)
    <3>1. i - (a + Len(w)) \in 1 .. Len(s) - b /\ b + (i - (a + Len(w))) = i - a - Len(w) + b
      BY <1>0, <2>4
    <3>2. y[i - (a + Len(w))] = s[b + (i - (a + Len(w)))]
      BY <1>2, <3>1
    <3>3. ~(i <= a) /\ ~(i <= a + Len(w))
      BY <1>0, <2>4
    <3> QED BY <2>1, <3>1, <3>2, <3>3
  <2> QED BY <1>0, <2>2, <2>3, <2>4
<1> QED BY <1>5, <1>6, <1>7

LEMMA ReplaceBack ==
  ASSUME NEW s, NEW a, NEW b, NEW w, Within(s, a, b, w)
  PROVE  /\ Within(replace(s, a, b, w), a, a + Len(w), slice(s, a, b))
         /\ replace(replace(s, a, b, w), a, a + Len(w), slice(s, a, b)) = s
<1>0. /\ s \in Seq(Token) /\ w \in Seq(Token) /\ Len(s) \in Nat /\ Len(w) \in Nat
      /\ a \in Nat /\ b \in Nat /\ a <= b /\ b <= Len(s)
  BY DEF Within
<1> DEFINE r == replace(s, a, b, w)
           c == slice(s, a, b)
           n == Len(w)
           m == Len(s)
<1>1. /\ r \in Seq(Token) /\ Len(r) = a + n + (m - b)
      /\ \A i \in 1 .. a + n + (m - b) :
           r[i] = IF i <= a THEN s[i] ELSE IF i <= a + n THEN w[i - a] ELSE s[i - a - n + b]
  BY ReplaceIs
<1>2. c \in Seq(Token) /\ Len(c) = b - a /\ \A i \in 1 .. b - a : c[i] = s[a + i]
  <2>1. /\ c \in Seq(Token) /\ Len(c) = IF a <= b THEN b - a ELSE 0
        /\ \A i \in 1 .. b - a : c[i] = s[a + i]
    BY <1>0, SliceIs
  <2> HIDE DEF c
  <2> QED BY <1>0, <2>1
<1> HIDE DEF r, c
<1>3. Within(r, a, a + n, c)
  BY <1>0, <1>1, <1>2 DEF Within
<1> DEFINE u == replace(r, a, a + n, c)
<1>4. /\ u \in Seq(Token) /\ Len(u) = a + Len(c) + (Len(r) - (a + n))
      /\ \A i \in 1 .. a + Len(c) + (Len(r) - (a + n)) :
           u[i] = IF i <= a THEN r[i] ELSE IF i <= a + Len(c) THEN c[i - a]
                                      ELSE r[i - a - Len(c) + (a + n)]
  BY <1>3, ReplaceIs
<1> HIDE DEF u
<1>5. Len(u) = m /\ m \in Nat /\ n \in Nat /\ a + Len(c) + (Len(r) - (a + n)) = m
  BY <1>0, <1>1, <1>2, <1>4
<1> HIDE DEF n
<1>6. ASSUME NEW i \in 1 .. m PROVE u[i] = s[i]
  <2>1. CASE i <= a
    <3>1. i \in 1 .. a + n + (m - b)
      BY <1>0, <1>5, <2>1
    <3> QED BY <1>1, <1>4, <1>5, <2>1, <3>1
  <2>2. CASE i > a /\ i <= b
    <3>1. ~(i <= a) /\ i <= a + Len(c) /\ i - a \in 1 .. b - a /\ a + (i - a) = i
      BY <1>0, <1>2, <1>5, <2>2
    <3> QED BY <1>2, <1>4, <1>5, <3>1
  <2>3. CASE i > b
    <3> DEFINE j == i - a - Len(c) + (a + n)
    <3>1. ~(i <= a) /\ ~(i <= a + Len(c)) /\ j \in 1 .. a + n + (m - b)
          /\ ~(j <= a) /\ ~(j <= a + n) /\ j - a - n + b = i
      BY <1>0, <1>2, <1>5, <2>3
    <3>2. u[i] = r[j]
      BY <1>4, <1>5, <3>1
    <3> HIDE DEF j
    <3> QED BY <1>1, <3>1, <3>2
  <2> QED BY <1>0, <1>5, <2>1, <2>2, <2>3
<1>7. u = s
  <2>1. Len(u) = Len(s) /\ \A i \in 1 .. Len(u) : u[i] = s[i]
    BY <1>5, <1>6
  <2> HIDE DEF m
  <2> QED BY <1>0, <1>4, <2>1, SeqEqual
<1> QED BY <1>3, <1>7 DEF u, r, c, n

LEMMA ReplaceMore ==
  ASSUME NEW s, NEW a, NEW w, NEW v, Within(s, a, a, w), v \in Seq(Token)
  PROVE  /\ Within(s, a, a, w \o v)
         /\ replace(replace(s, a, a, w), a + Len(w), a + Len(w), v) = replace(s, a, a, w \o v)
<1>0. /\ s \in Seq(Token) /\ w \in Seq(Token) /\ Len(s) \in Nat /\ Len(w) \in Nat
      /\ a \in Nat /\ a <= Len(s) /\ v \in Seq(Token) /\ Len(v) \in Nat
  BY DEF Within
<1> DEFINE r == replace(s, a, a, w)
           n == Len(w)
           m == Len(s)
           k == Len(v)
           x == w \o v
<1>1. /\ r \in Seq(Token) /\ Len(r) = a + n + (m - a)
      /\ \A i \in 1 .. a + n + (m - a) :
           r[i] = IF i <= a THEN s[i] ELSE IF i <= a + n THEN w[i - a] ELSE s[i - a - n + a]
  BY ReplaceIs
<1>2. /\ x \in Seq(Token) /\ Len(x) = n + k
      /\ \A i \in 1 .. n + k : x[i] = IF i <= n THEN w[i] ELSE v[i - n]
  BY <1>0, ConcatProperties
<1> HIDE DEF r, x
<1>3. Within(s, a, a, x)
  BY <1>0, <1>2 DEF Within
<1>4. Within(r, a + n, a + n, v)
  BY <1>0, <1>1 DEF Within
<1> DEFINE p == replace(r, a + n, a + n, v)
           q == replace(s, a, a, x)
<1>5. /\ p \in Seq(Token) /\ Len(p) = a + n + Len(v) + (Len(r) - (a + n))
      /\ \A i \in 1 .. a + n + Len(v) + (Len(r) - (a + n)) :
           p[i] = IF i <= a + n THEN r[i] ELSE IF i <= a + n + Len(v) THEN v[i - (a + n)]
                                          ELSE r[i - (a + n) - Len(v) + (a + n)]
  BY <1>4, ReplaceIs
<1>6. /\ q \in Seq(Token) /\ Len(q) = a + Len(x) + (Len(s) - a)
      /\ \A i \in 1 .. a + Len(x) + (Len(s) - a) :
           q[i] = IF i <= a THEN s[i] ELSE IF i <= a + Len(x) THEN x[i - a]
                                      ELSE s[i - a - Len(x) + a]
  BY <1>3, ReplaceIs
<1> HIDE DEF p, q
<1>7. /\ Len(p) = m + n + k /\ Len(q) = m + n + k /\ m \in Nat /\ n \in Nat /\ k \in Nat
      /\ a + n + Len(v) + (Len(r) - (a + n)) = m + n + k
      /\ a + Len(x) + (Len(s) - a) = m + n + k /\ a + n + (m - a) = m + n
      /\ Len(x) = n + k /\ Len(v) = k /\ a <= m
  BY <1>0, <1>1, <1>2, <1>5, <1>6
<1> HIDE DEF n, m, k
<1>8. ASSUME NEW i \in 1 .. m + n + k PROVE p[i] = q[i]
  <2>1. CASE i <= a
    <3>1. i \in 1 .. m + n /\ i <= a + n
      BY <1>0, <1>7, <2>1
    <3> QED BY <1>1, <1>5, <1>6, <1>7, <2>1, <3>1
  <2>2. CASE i > a /\ i <= a + n
    <3>1. ~(i <= a) /\ i \in 1 .. m + n /\ i <= a + (n + k) /\ i - a \in 1 .. n + k /\ i - a <= n
      BY <1>0, <1>7, <2>2
    <3>2. p[i] = w[i - a]
      BY <1>1, <1>5, <1>7, <2>2, <3>1
    <3>3. q[i] = x[i - a]
      BY <1>6, <1>7, <3>1
    <3> QED BY <1>2, <1>7, <3>1, <3>2, <3>3
  <2>3. CASE i > a + n /\ i <= a + n + k
    <3>1. /\ ~(i <= a) /\ ~(i <= a + n) /\ i <= a + (n + k) /\ i - a \in 1 .. n + k
          /\ ~(i - a <= n) /\ i - a - n = i - (a + n)
      BY <1>0, <1>7, <2>3
    <3>2. p[i] = v[i - (a + n)]
      BY <1>5, <1>7, <2>3, <3>1
    <3>3. q[i] = x[i - a]
      BY <1>6, <1>7, <3>1
    <3> QED BY <1>2, <1>7, <3>1, <3>2, <3>3
  <2>4. CASE i > a + n + k
    <3> DEFINE j == i - (a + n) - k + (a + n)
    <3>1. /\ ~(i <= a) /\ ~(i <= a + n) /\ ~(i <= a + n + k) /\ ~(i <= a + (n + k))
          /\ j \in 1 .. m + n /\ ~(j <= a) /\ ~(j <= a + n)
          /\ j - a - n + a = i - a - (n + k) + a
      BY <1>0, <1>7, <2>4
    <3>2. p[i] = r[j]
      BY <1>5, <1>7, <3>1
    <3>3. q[i] = s[i - a - (n + k) + a]
      BY <1>6, <1>7, <3>1
    <3>4. r[j] = s[j - a - n + a]
      <4> HIDE DEF j
      <4> QED BY <1>1, <1>7, <3>1
    <3> QED BY <3>1, <3>2, <3>3, <3>4
  <2> QED BY <1>0, <1>7, <2>1, <2>2, <2>3, <2>4
<1>9. p = q
  <2>1. Len(p) = Len(q) /\ \A i \in 1 .. Len(p) : p[i] = q[i]
    BY <1>7, <1>8
  <2> QED BY <1>5, <1>6, <2>1, SeqEqual
<1> QED BY <1>3, <1>9 DEF p, q, r, n, x

(* What an action has staged is one replacement of what was there.         *)
LEMMA DiffIs ==
  ASSUME NEW was \in Seq(Token), NEW now \in Seq(Token)
  PROVE  /\ Within(was, diff_of(was, now).from, diff_of(was, now).to, diff_of(was, now).with)
         /\ replace(was, diff_of(was, now).from, diff_of(was, now).to, diff_of(was, now).with) = now
<1> DEFINE shortest == Least(Len(was), Len(now))
           P == {n \in 0 .. shortest : Agree(was, now, n)}
           prefix == Max(P)
           Q == {n \in 0 .. shortest - prefix : AgreeAtEnd(was, now, n)}
           suffix == Max(Q)
           d == diff_of(was, now)
           m == Len(was)
           k == Len(now)
<1>1. /\ shortest \in Nat /\ shortest <= m /\ shortest <= k /\ m \in Nat /\ k \in Nat
  BY DEF Least
<1> HIDE DEF shortest
<1>2. prefix \in 0 .. shortest /\ Agree(was, now, prefix)
  <2>1. 0 \in P
    BY <1>1 DEF Agree
  <2>2. P \subseteq 0 .. shortest /\ P # {}
    BY <2>1
  <2> HIDE DEF P
  <2>3. prefix \in P
    BY <1>1, <2>2, GreatestIs
  <2> QED BY <2>3 DEF P
<1> HIDE DEF prefix
<1>3. suffix \in 0 .. shortest - prefix /\ AgreeAtEnd(was, now, suffix)
  <2>1. 0 \in Q
    BY <1>1, <1>2 DEF AgreeAtEnd
  <2>2. Q \subseteq 0 .. shortest - prefix /\ Q # {} /\ shortest - prefix \in Nat
    BY <1>1, <1>2, <2>1
  <2> HIDE DEF Q
  <2>3. suffix \in Q
    BY <2>2, GreatestIs
  <2> QED BY <2>3 DEF Q
<1> HIDE DEF suffix
<1>4. d = [from |-> prefix, to |-> m - suffix, with |-> slice(now, prefix, k - suffix)]
  BY DEF diff_of, prefix, suffix, shortest
<1> DEFINE w == slice(now, prefix, k - suffix)
<1>5. /\ prefix \in Nat /\ m - suffix \in Nat /\ k - suffix \in Nat /\ suffix \in Nat
      /\ prefix <= m - suffix /\ prefix <= k - suffix /\ m - suffix <= m /\ k - suffix <= k
  BY <1>1, <1>2, <1>3
<1>6. w \in Seq(Token) /\ Len(w) = k - suffix - prefix
      /\ \A i \in 1 .. k - suffix - prefix : w[i] = now[prefix + i]
  <2>1. /\ w \in Seq(Token) /\ Len(w) = IF prefix <= k - suffix THEN k - suffix - prefix ELSE 0
        /\ \A i \in 1 .. k - suffix - prefix : w[i] = now[prefix + i]
    BY <1>5, SliceIs
  <2> HIDE DEF w
  <2> QED BY <1>5, <2>1
<1> HIDE DEF w
<1>7. Within(was, prefix, m - suffix, w)
  BY <1>5, <1>6 DEF Within
<1> DEFINE r == replace(was, prefix, m - suffix, w)
<1>8. /\ r \in Seq(Token) /\ Len(r) = prefix + Len(w) + (m - (m - suffix))
      /\ \A i \in 1 .. prefix + Len(w) + (m - (m - suffix)) :
           r[i] = IF i <= prefix THEN was[i] ELSE IF i <= prefix + Len(w) THEN w[i - prefix]
                  ELSE was[i - prefix - Len(w) + (m - suffix)]
  BY <1>7, ReplaceIs
<1> HIDE DEF r
<1>9. Len(r) = k /\ prefix + Len(w) + (m - (m - suffix)) = k
  BY <1>1, <1>5, <1>6, <1>8
<1> HIDE DEF m, k
<1>10. ASSUME NEW i \in 1 .. k PROVE r[i] = now[i]
  <2>1. CASE i <= prefix
    <3>1. i \in 1 .. prefix
      BY <1>1, <1>5, <2>1
    <3> QED BY <1>2, <1>8, <1>9, <2>1, <3>1 DEF Agree
  <2>2. CASE i > prefix /\ i <= prefix + Len(w)
    <3>1. ~(i <= prefix) /\ i - prefix \in 1 .. k - suffix - prefix /\ prefix + (i - prefix) = i
      BY <1>1, <1>5, <1>6, <2>2
    <3> QED BY <1>6, <1>8, <1>9, <2>2, <3>1
  <2>3. CASE i > prefix + Len(w)
    <3>1. /\ ~(i <= prefix) /\ ~(i <= prefix + Len(w)) /\ k - i \in 0 .. suffix - 1
          /\ k - (k - i) = i /\ m - (k - i) = i - prefix - Len(w) + (m - suffix)
      BY <1>1, <1>5, <1>6, <2>3
    <3>2. was[m - (k - i)] = now[k - (k - i)]
      BY <1>3, <3>1 DEF AgreeAtEnd, m, k
    <3> QED BY <1>8, <1>9, <3>1, <3>2
  <2> QED BY <1>1, <1>5, <1>6, <2>1, <2>2, <2>3
<1>11. r = now
  <2>1. Len(r) = Len(now) /\ \A i \in 1 .. Len(r) : r[i] = now[i]
    BY <1>9, <1>10 DEF k
  <2> QED BY <1>8, <2>1, SeqEqual
<1> QED BY <1>4, <1>7, <1>11 DEF r, w, m, k

-----------------------------------------------------------------------------
(* The spans of words, pairs and lines lie in the text.                    *)

LEMMA SpansAreInside ==
  ASSUME NEW text \in Seq(Token), NEW at \in Nat, NEW big
  PROVE  /\ span_at(text, at, big).from \in Offsets(text)
         /\ span_at(text, at, big).to \in Offsets(text)
<1> DEFINE n == Len(text)
           Alike(p) == class_of(text[p + 1], big) = class_of(text[at + 1], big)
           B == {p \in Before(at) : ~Alike(p)}
           F == {p \in After(text, at) : ~Alike(p)}
<1>0. n \in Nat /\ Offsets(text) = 0 .. n
  BY DEF Offsets
<1>1. CASE at >= n
  <2>1. span_at(text, at, big) = [from |-> n, to |-> n]
    BY <1>1 DEF span_at
  <2> QED BY <1>0, <2>1
<1>2. CASE at < n
  <2>1. span_at(text, at, big) = [from |-> LastOf(B, -1) + 1, to |-> FirstOf(F, n)]
    BY <1>0, <1>2 DEF span_at
  <2>2. B \subseteq 0 .. at /\ B \subseteq 0 .. at - 1
    BY DEF Before
  <2>3. F \subseteq Nat /\ F \subseteq 0 .. n
    BY <1>0, <1>2 DEF After
  <2> HIDE DEF B, F, Alike
  <2>4. LastOf(B, -1) = -1 \/ LastOf(B, -1) \in B
    BY <2>2, LastIs
  <2>5. LastOf(B, -1) + 1 \in 0 .. n
    <3>1. CASE LastOf(B, -1) = -1
      BY <1>0, <3>1
    <3>2. CASE LastOf(B, -1) \in B
      <4>1. LastOf(B, -1) \in 0 .. at - 1
        BY <2>2, <3>2, Zenon
      <4> QED BY <1>0, <1>2, <4>1
    <3> QED BY <2>4, <3>1, <3>2
  <2>6. FirstOf(F, n) = n \/ FirstOf(F, n) \in F
    BY <2>3, FirstIs
  <2>7. FirstOf(F, n) \in 0 .. n
    <3>1. n \in 0 .. n
      BY <1>0
    <3> QED BY <2>3, <2>6, <3>1, Zenon
  <2> QED BY <1>0, <2>1, <2>5, <2>7
<1> QED BY <1>0, <1>1, <1>2

LEMMA PairsAreSpans ==
  ASSUME NEW text \in Seq(Token), NEW at \in Offsets(text), NEW open, NEW close,
         NEW s \in match_pair_in(text, at, open, close)
  PROVE  s.from \in Nat /\ s.to \in Nat /\ s.to - 1 \in Nat /\ s.from + 1 \in Nat
<1>0. at \in Nat /\ at <= Len(text) /\ Len(text) \in Nat
  BY DEF Offsets
<1>1. CASE open = close
  <2>1. s \in HoldsIt(text, at, open)
    BY <1>1 DEF match_pair_in
  <2>2. s \in PairedQuotes(text, at, open)
    BY <2>1 DEF HoldsIt
  <2> DEFINE Q == {p \in line_start_of(text, at) .. line_end_of(text, at) - 1 : text[p + 1] = open}
             Opens(p) == Cardinality({q \in Q : q < p}) % 2 = 0
  <2>3. PairedQuotes(text, at, open) =
          {[from |-> p, to |-> q + 1] : p \in {r \in Q : Opens(r)}, q \in {r \in Q : ~Opens(r)}}
    BY DEF PairedQuotes
  <2>4. Q \subseteq Nat
    <3>1. line_start_of(text, at) \in 0 .. at /\ line_end_of(text, at) \in at .. Len(text)
      BY LineEnds
    <3> QED BY <1>0, <3>1
  <2> HIDE DEF Q, Opens
  <2>5. PICK p \in Q, q \in Q : s = [from |-> p, to |-> q + 1]
    BY <2>2, <2>3
  <2>6. p \in Nat /\ q \in Nat
    BY <2>4
  <2> QED BY <2>5, <2>6
<1>2. CASE open # close
  <2>1. s \in PairedBrackets(text, at, open, close)
    BY <1>2 DEF match_pair_in
  <2> DEFINE Depth(from, to) == Cardinality({p \in from .. to - 1 : text[p + 1] = open})
                                  - Cardinality({p \in from .. to - 1 : text[p + 1] = close})
             B == {p \in Before(at) : Depth(p, at) = 1}
             opener == IF at < Len(text) /\ text[at + 1] = open THEN at ELSE LastOf(B, -1)
             F == {p \in opener + 1 .. Len(text) - 1 : Depth(opener, p + 1) = 0}
             closer == FirstOf(F, -1)
  <2>2. PairedBrackets(text, at, open, close) =
          IF opener = -1 \/ closer = -1 THEN {} ELSE {[from |-> opener, to |-> closer + 1]}
    BY DEF PairedBrackets
  <2>3. B \subseteq 0 .. at
    BY <1>0 DEF Before
  <2>4. opener = at \/ opener = -1 \/ opener \in B
    <3> HIDE DEF B
    <3>1. LastOf(B, -1) = -1 \/ LastOf(B, -1) \in B
      BY <1>0, <2>3, LastIs
    <3> QED BY <3>1
  <2>5. opener = -1 \/ opener \in Nat
    <3>1. B \subseteq Nat
      BY <2>3
    <3> HIDE DEF B, opener
    <3> QED BY <1>0, <2>4, <3>1
  <2> HIDE DEF opener, B
  <2>6. opener \in Nat => F \subseteq Nat
    OBVIOUS
  <2> HIDE DEF F, Depth
  <2>7. opener # -1 /\ closer # -1 /\ s = [from |-> opener, to |-> closer + 1]
    <3> HIDE DEF closer
    <3> QED BY <2>1, <2>2
  <2>8. closer \in Nat
    <3>1. F \subseteq Nat
      BY <2>5, <2>6, <2>7
    <3>2. closer \in F
      BY <2>7, <3>1, FirstIs
    <3> QED BY <3>1, <3>2
  <2> HIDE DEF closer
  <2> QED BY <2>5, <2>7, <2>8
<1> QED BY <1>1, <1>2

LEMMA TimesIs ==
  ASSUME NEW text \in Seq(Token), NEW count \in Nat
  PROVE  Times(text, count) \in Seq(Token)
<1> DEFINE n == Len(text)
           m == count * n
<1>1. n \in Nat
  OBVIOUS
<1>2. m \in Nat
  BY <1>1
<1>3. \A i \in 1 .. m : text[((i - 1) % n) + 1] \in Token
  <2>1. CASE n = 0
    <3>1. m = 0
      BY <2>1
    <3> QED BY <3>1
  <2>2. CASE n # 0
    <3> TAKE i \in 1 .. m
    <3>1. i - 1 \in Int /\ n > 0
      BY <1>1, <1>2, <2>2
    <3> HIDE DEF n, m
    <3>2. (i - 1) % n \in 0 .. n - 1
      BY <1>1, <3>1
    <3>3. ((i - 1) % n) + 1 \in 1 .. n
      BY <1>1, <3>2
    <3> QED BY <3>3 DEF n
  <2> QED BY <2>1, <2>2
<1> HIDE DEF m
<1>4. [i \in 1 .. m |-> text[((i - 1) % n) + 1]] \in Seq(Token)
  BY <1>2, <1>3, IsASeq
<1> QED BY <1>4 DEF Times, m

-----------------------------------------------------------------------------
(* What the state and a handle hold.                                       *)

Layers == {"emacs", "vi_insert", "vi_command", "vi_operator_pending", "vi_visual",
           "vi_find_char", "vi_replace_char", "pager"}
Verbs == {"vi_delete", "vi_change", "vi_yank"}
Finds == {"vi_find_forward", "vi_find_backward", "vi_till_forward", "vi_till_backward"}
Asks == {"accept_line", "cancel_line", "end_of_file"}

StateFields ==
  {"text", "cursor", "anchor", "live", "layers", "held", "operator", "count", "steps",
   "redoable", "coalescing", "bumped", "kills", "progress", "record", "pager", "offered",
   "arming", "last_find", "target", "span_is_line"}
HandleFields == {"t", "text", "cursor", "anchor", "live", "wrote", "moved", "chose", "pushed",
                 "outcome"}
PagerFields == {"open", "candidates", "matching", "filter", "selected", "scroll_row", "from", "to"}

IsCandidate(one) == one.text \in Seq(Token)

IsPager(p) ==
  /\ DOMAIN p = PagerFields
  /\ p.open \in BOOLEAN
  /\ DOMAIN p.candidates = 1 .. Len(p.candidates) /\ Len(p.candidates) \in Nat
  /\ \A i \in DOMAIN p.candidates : IsCandidate(p.candidates[i])
  /\ p.matching \in Seq(DOMAIN p.candidates)
  /\ p.filter \in Seq(Token)
  /\ p.selected \in Nat /\ p.scroll_row \in Nat
  /\ p.from \in Nat /\ p.to \in Nat /\ p.from <= p.to

IsKill(k) == k.text \in Seq(Token) /\ k.linewise \in BOOLEAN

(* What there is beside the text and its history.                          *)
IsKept(t) ==
  /\ DOMAIN t = StateFields
  /\ t.layers \in Seq(Layers) /\ t.held \in Seq(Token)
  /\ t.operator \in Verbs \cup {""}
  /\ t.count \in Nat
  /\ IsKill(t.kills)
  /\ DOMAIN t.progress = DOMAIN Idle /\ t.progress.in_progress \in Seq(Token)
  /\ t.record.keys \in Seq(Token)
  /\ IsPager(t.pager)
  /\ t.offered \in Seq(Token) /\ t.target \in Seq(Token)
  /\ t.arming \in Finds \cup {""} /\ t.last_find \in Finds \cup {""}
  /\ t.span_is_line \in BOOLEAN

IsHandle(h) ==
  /\ DOMAIN h = HandleFields
  /\ IsKept(h.t)
  /\ h.text \in Seq(Token) /\ h.cursor \in Offsets(h.text) /\ h.anchor \in Nat
  /\ h.live \in BOOLEAN /\ h.wrote \in BOOLEAN /\ h.moved \in BOOLEAN /\ h.chose \in BOOLEAN
  /\ h.pushed \in Seq(Token)
  /\ h.outcome \in Asks \cup {"none"}

IsHow(how) == how.keys \in Seq(Token) /\ how.count \in Nat

(* What an action leaves of the state as it was.                           *)
TextKept(u, t) ==
  /\ u.text = t.text /\ u.cursor = t.cursor /\ u.anchor = t.anchor /\ u.live = t.live
  /\ u.steps = t.steps /\ u.redoable = t.redoable /\ u.coalescing = t.coalescing
  /\ u.bumped = t.bumped
ModesKept(u, t) ==
  u.layers = t.layers /\ u.operator = t.operator /\ u.pager = t.pager /\ u.held = t.held
Calm(h, g) == IsHandle(g) /\ TextKept(g.t, h.t) /\ ModesKept(g.t, h.t)
Looks(h, g) == Calm(h, g) /\ g.text = h.text /\ g.t.kills = h.t.kills

-----------------------------------------------------------------------------
(* What is staged is still a handle.                                       *)

LEMMA OffsetsAre ==
  ASSUME NEW text \in Seq(Token)
  PROVE  /\ Len(text) \in Nat /\ Offsets(text) = 0 .. Len(text)
         /\ 0 \in Offsets(text) /\ Len(text) \in Offsets(text)
BY DEF Offsets

LEMMA CursorSet ==
  ASSUME NEW h, IsHandle(h), NEW at \in Offsets(h.text)
  PROVE  /\ Looks(h, cursor_set(h, at)) /\ cursor_set(h, at).cursor = at
         /\ cursor_set(h, at).t = h.t /\ cursor_set(h, at).live = h.live
         /\ cursor_set(h, at).anchor = h.anchor
<1> DEFINE g == cursor_set(h, at)
<1>1. /\ DOMAIN g = HandleFields /\ g.t = h.t /\ g.text = h.text /\ g.cursor = at
      /\ g.anchor = h.anchor /\ g.live = h.live /\ g.wrote = h.wrote /\ g.moved = TRUE
      /\ g.chose = h.chose /\ g.pushed = h.pushed /\ g.outcome = h.outcome
  BY DEF cursor_set, IsHandle, HandleFields
<1> HIDE DEF g
<1> QED BY <1>1 DEF IsHandle, Calm, Looks, TextKept, ModesKept, g

LEMMA BufferReplaced ==
  ASSUME NEW h, IsHandle(h), NEW from, NEW to, NEW with, Within(h.text, from, to, with)
  PROVE  /\ Calm(h, buffer_replace(h, from, to, with))
         /\ buffer_replace(h, from, to, with).t = h.t
         /\ buffer_replace(h, from, to, with).text = replace(h.text, from, to, with)
         /\ buffer_replace(h, from, to, with).cursor = from + Len(with)
         /\ Len(buffer_replace(h, from, to, with).text) = from + Len(with) + (Len(h.text) - to)
         /\ buffer_replace(h, from, to, with).live = h.live
         /\ buffer_replace(h, from, to, with).anchor = h.anchor
<1> DEFINE g == buffer_replace(h, from, to, with)
           r == replace(h.text, from, to, with)
<1>1. /\ DOMAIN g = HandleFields /\ g.t = h.t /\ g.text = r /\ g.cursor = from + Len(with)
      /\ g.anchor = h.anchor /\ g.live = h.live /\ g.wrote = TRUE /\ g.moved = TRUE
      /\ g.chose = h.chose /\ g.pushed = h.pushed /\ g.outcome = h.outcome
  BY DEF buffer_replace, IsHandle, HandleFields
<1>2. r \in Seq(Token) /\ Len(r) = from + Len(with) + (Len(h.text) - to)
  BY ReplaceIs
<1>3. from + Len(with) \in Offsets(r)
  <2>1. Len(h.text) \in Nat /\ Len(with) \in Nat /\ from \in Nat /\ to \in Nat /\ to <= Len(h.text)
    BY DEF Within
  <2> HIDE DEF r
  <2> QED BY <1>2, <2>1 DEF Offsets
<1> HIDE DEF g, r
<1>4. IsHandle(g)
  BY <1>1, <1>2, <1>3 DEF IsHandle
<1> QED BY <1>1, <1>2, <1>4 DEF Calm, TextKept, ModesKept, g, r

LEMMA ClampIs ==
  ASSUME NEW text \in Seq(Token), NEW at \in Nat
  PROVE  /\ clamp_into(text, at) \in Offsets(text)
         /\ at \in Offsets(text) => clamp_into(text, at) = at
BY DEF clamp_into, Offsets

LEMMA SelectionSet ==
  ASSUME NEW h, IsHandle(h), NEW from \in Nat, NEW to \in Nat
  PROVE  /\ Looks(h, selection_set(h, from, to)) /\ selection_set(h, from, to).t = h.t
<1> DEFINE g == selection_set(h, from, to)
<1>1. /\ DOMAIN g = HandleFields /\ g.t = h.t /\ g.text = h.text
      /\ g.cursor = clamp_into(h.text, to) /\ g.anchor = clamp_into(h.text, from)
      /\ g.live = TRUE /\ g.wrote = h.wrote /\ g.moved = TRUE
      /\ g.chose = TRUE /\ g.pushed = h.pushed /\ g.outcome = h.outcome
  BY DEF selection_set, IsHandle, HandleFields
<1>2. h.text \in Seq(Token)
  BY DEF IsHandle
<1>3. clamp_into(h.text, to) \in Offsets(h.text) /\ clamp_into(h.text, from) \in Nat
  <2>1. clamp_into(h.text, to) \in Offsets(h.text) /\ clamp_into(h.text, from) \in Offsets(h.text)
    BY <1>2, ClampIs
  <2> QED BY <2>1 DEF Offsets
<1> HIDE DEF g
<1>4. IsHandle(g)
  BY <1>1, <1>3 DEF IsHandle
<1> QED BY <1>1, <1>4 DEF Calm, Looks, TextKept, ModesKept, g

LEMMA SelectionCleared ==
  ASSUME NEW h, IsHandle(h)
  PROVE  /\ Looks(h, selection_clear(h)) /\ selection_clear(h).t = h.t
         /\ selection_clear(h).cursor = h.cursor
<1> DEFINE g == selection_clear(h)
<1>1. /\ DOMAIN g = HandleFields /\ g.t = h.t /\ g.text = h.text /\ g.cursor = h.cursor
      /\ g.anchor = h.anchor /\ g.live = FALSE /\ g.wrote = h.wrote /\ g.moved = h.moved
      /\ g.chose = TRUE /\ g.pushed = h.pushed /\ g.outcome = h.outcome
  BY DEF selection_clear, IsHandle, HandleFields
<1> HIDE DEF g
<1>2. IsHandle(g)
  BY <1>1 DEF IsHandle
<1> QED BY <1>1, <1>2 DEF Calm, Looks, TextKept, ModesKept, g

LEMMA SelectionIs ==
  ASSUME NEW h, IsHandle(h)
  PROVE  /\ selection_get(h).from \in Offsets(h.text) /\ selection_get(h).to \in Offsets(h.text)
         /\ selection_get(h).from <= selection_get(h).to
<1> DEFINE head == clamp_into(h.text, h.cursor)
           anchor == clamp_into(h.text, h.anchor)
<1>0. h.text \in Seq(Token) /\ h.cursor \in Nat /\ h.anchor \in Nat
  BY DEF IsHandle, Offsets
<1>1. head \in Offsets(h.text) /\ anchor \in Offsets(h.text)
  BY <1>0, ClampIs
<1>2. selection_get(h) = [from |-> Least(anchor, head), to |-> anchor + head - Least(anchor, head)]
  BY DEF selection_get
<1> HIDE DEF head, anchor
<1>3. Offsets(h.text) = 0 .. Len(h.text) /\ Len(h.text) \in Nat
  BY <1>0 DEF Offsets
<1> QED BY <1>1, <1>2, <1>3 DEF Least

-----------------------------------------------------------------------------
(* What is staged in the state is kept there, beside the text.             *)

SameStage(h, g) ==
  /\ g.text = h.text /\ g.cursor = h.cursor /\ g.anchor = h.anchor /\ g.live = h.live
  /\ g.wrote = h.wrote /\ g.moved = h.moved /\ g.chose = h.chose /\ g.pushed = h.pushed
  /\ g.outcome = h.outcome

LEMMA FrontIs ==
  ASSUME NEW S, NEW s \in Seq(S), s # <<>>
  PROVE  /\ Front(s) \in Seq(S) /\ Len(Front(s)) = Len(s) - 1
         /\ \A i \in 1 .. Len(s) - 1 : Front(s)[i] = s[i]
         /\ Last(s) \in S
<1>1. Len(s) \in Nat /\ Len(s) > 0 /\ \A i \in 1 .. Len(s) - 1 : s[i] \in S
  BY EmptySeq
<1>2. /\ SubSeq(s, 1, Len(s) - 1) \in Seq(S)
      /\ Len(SubSeq(s, 1, Len(s) - 1)) = IF 1 <= Len(s) - 1 THEN Len(s) - 1 - 1 + 1 ELSE 0
      /\ \A i \in 1 .. Len(s) - 1 - 1 + 1 : SubSeq(s, 1, Len(s) - 1)[i] = s[1 + i - 1]
  <2>1. 1 \in Int /\ Len(s) - 1 \in Int
    BY <1>1
  <2> QED BY <1>1, <2>1, SubSeqProperties
<1>3. \A i \in 1 .. Len(s) - 1 : i \in 1 .. Len(s) - 1 - 1 + 1 /\ 1 + i - 1 = i
  BY <1>1
<1>4. Last(s) \in S
  BY <1>1 DEF Last
<1> DEFINE f == SubSeq(s, 1, Len(s) - 1)
<1>7. \A i \in 1 .. Len(s) - 1 - 1 + 1 : f[i] = s[1 + i - 1]
  BY <1>2
<1>8. Len(f) = IF 1 <= Len(s) - 1 THEN Len(s) - 1 - 1 + 1 ELSE 0
  BY <1>2
<1> HIDE DEF f
<1>5. Len(f) = Len(s) - 1
  <2> DEFINE n == Len(s)
             m == Len(f)
  <2>1. n \in Nat /\ n > 0 /\ m = IF 1 <= n - 1 THEN n - 1 - 1 + 1 ELSE 0
    BY <1>1, <1>8
  <2> HIDE DEF n, m
  <2>2. m = n - 1
    <3>1. CASE n = 1
      BY <2>1, <3>1
    <3>2. CASE n > 1
      BY <2>1, <3>2
    <3> QED BY <2>1, <3>1, <3>2
  <2> QED BY <2>2 DEF n, m
<1>6. \A i \in 1 .. Len(s) - 1 : f[i] = s[i]
  BY <1>1, <1>3, <1>7
<1> QED BY <1>2, <1>4, <1>5, <1>6, Zenon DEF Front, f

LEMMA OneIs ==
  ASSUME NEW S, NEW x \in S
  PROVE  <<x>> \in Seq(S)
OBVIOUS

LEMMA StateStaged ==
  ASSUME NEW h, IsHandle(h), NEW u, IsKept(u), NEW g, g = [h EXCEPT !.t = u]
  PROVE  IsHandle(g) /\ SameStage(h, g) /\ g.t = u
<1>1. /\ DOMAIN g = HandleFields /\ g.t = u /\ SameStage(h, g)
  BY DEF IsHandle, HandleFields, SameStage
<1> QED BY <1>1 DEF IsHandle, SameStage

LEMMA CountSet ==
  ASSUME NEW h, IsHandle(h), NEW value \in Nat
  PROVE  /\ IsHandle(count_set(h, value)) /\ SameStage(h, count_set(h, value))
         /\ TextKept(count_set(h, value).t, h.t)
         /\ count_set(h, value).t.layers = h.t.layers
         /\ count_set(h, value).t.operator = h.t.operator
         /\ count_set(h, value).t.pager = h.t.pager
         /\ count_set(h, value).t.held = h.t.held
         /\ count_set(h, value).t.kills = h.t.kills
         /\ count_set(h, value).t.span_is_line = h.t.span_is_line
         /\ count_set(h, value).t.count = value
<1> DEFINE u == [h.t EXCEPT !.count = value]
           g == count_set(h, value)
<1>1. DOMAIN u = StateFields /\ u.count = value /\ u.text = h.t.text /\ u.cursor = h.t.cursor
      /\ u.anchor = h.t.anchor /\ u.live = h.t.live /\ u.layers = h.t.layers /\ u.held =
      h.t.held /\ u.operator = h.t.operator /\ u.steps = h.t.steps /\ u.redoable =
      h.t.redoable /\ u.coalescing = h.t.coalescing /\ u.bumped = h.t.bumped /\ u.kills
      = h.t.kills /\ u.progress = h.t.progress /\ u.record = h.t.record /\ u.pager =
      h.t.pager /\ u.offered = h.t.offered /\ u.arming = h.t.arming /\ u.last_find =
      h.t.last_find /\ u.target = h.t.target /\ u.span_is_line = h.t.span_is_line
  BY DEF IsHandle, IsKept, StateFields
<1>2. g = [h EXCEPT !.t = u]
  BY DEF IsHandle, HandleFields, count_set
<1> HIDE DEF u, g
<1>3. IsKept(u)
  BY <1>1 DEF IsHandle, IsKept
<1>4. IsHandle(g) /\ SameStage(h, g) /\ g.t = u
  BY <1>2, <1>3, StateStaged
<1> QED BY <1>1, <1>4 DEF TextKept, g

LEMMA KillKept ==
  ASSUME NEW h, IsHandle(h), NEW k, IsKill(k)
  PROVE  /\ IsHandle([h EXCEPT !.t.kills = k]) /\ SameStage(h, [h EXCEPT !.t.kills = k])
         /\ TextKept([h EXCEPT !.t.kills = k].t, h.t)
         /\ [h EXCEPT !.t.kills = k].t.layers = h.t.layers
         /\ [h EXCEPT !.t.kills = k].t.operator = h.t.operator
         /\ [h EXCEPT !.t.kills = k].t.pager = h.t.pager
         /\ [h EXCEPT !.t.kills = k].t.held = h.t.held
         /\ [h EXCEPT !.t.kills = k].t.kills = k
         /\ [h EXCEPT !.t.kills = k].t.span_is_line = h.t.span_is_line
<1> DEFINE u == [h.t EXCEPT !.kills = k]
           g == [h EXCEPT !.t.kills = k]
<1>1. DOMAIN u = StateFields /\ u.kills = k /\ u.text = h.t.text /\ u.cursor = h.t.cursor /\
      u.anchor = h.t.anchor /\ u.live = h.t.live /\ u.layers = h.t.layers /\ u.held =
      h.t.held /\ u.operator = h.t.operator /\ u.count = h.t.count /\ u.steps =
      h.t.steps /\ u.redoable = h.t.redoable /\ u.coalescing = h.t.coalescing /\
      u.bumped = h.t.bumped /\ u.progress = h.t.progress /\ u.record = h.t.record /\
      u.pager = h.t.pager /\ u.offered = h.t.offered /\ u.arming = h.t.arming /\
      u.last_find = h.t.last_find /\ u.target = h.t.target /\ u.span_is_line =
      h.t.span_is_line
  BY DEF IsHandle, IsKept, StateFields
<1>2. g = [h EXCEPT !.t = u]
  BY DEF IsHandle, HandleFields
<1> HIDE DEF u, g
<1>3. IsKept(u)
  BY <1>1 DEF IsHandle, IsKept
<1>4. IsHandle(g) /\ SameStage(h, g) /\ g.t = u
  BY <1>2, <1>3, StateStaged
<1> QED BY <1>1, <1>4 DEF TextKept, g

LEMMA KillIs ==
  ASSUME NEW text \in Seq(Token), NEW linewise \in BOOLEAN
  PROVE  /\ IsKill([text |-> text, linewise |-> linewise, there |-> TRUE])
         /\ [text |-> text, linewise |-> linewise, there |-> TRUE].text = text
<1> DEFINE k == [text |-> text, linewise |-> linewise, there |-> TRUE]
<1>1. k.text = text /\ k.linewise = linewise
  OBVIOUS
<1> HIDE DEF k
<1> QED BY <1>1 DEF IsKill, k

LEMMA KillSet ==
  ASSUME NEW h, IsHandle(h), NEW text \in Seq(Token), NEW linewise \in BOOLEAN
  PROVE  /\ IsHandle(kill_set(h, text, linewise)) /\ SameStage(h, kill_set(h, text, linewise))
         /\ TextKept(kill_set(h, text, linewise).t, h.t)
         /\ ModesKept(kill_set(h, text, linewise).t, h.t)
         /\ kill_set(h, text, linewise).t.kills.text = text
         /\ kill_set(h, text, linewise).t.span_is_line = h.t.span_is_line
<1> DEFINE k == [text |-> text, linewise |-> linewise, there |-> TRUE]
           g == [h EXCEPT !.t.kills = k]
<1>1. IsKill(k) /\ k.text = text
  BY KillIs
<1>2. kill_set(h, text, linewise) = g
  BY DEF kill_set
<1> HIDE DEF k
<1>3. /\ IsHandle(g) /\ SameStage(h, g) /\ TextKept(g.t, h.t)
      /\ g.t.layers = h.t.layers /\ g.t.operator = h.t.operator /\ g.t.pager = h.t.pager
      /\ g.t.held = h.t.held /\ g.t.kills = k /\ g.t.span_is_line = h.t.span_is_line
  BY <1>1, KillKept
<1> HIDE DEF g
<1> QED BY <1>1, <1>2, <1>3 DEF ModesKept

LEMMA LineSet ==
  ASSUME NEW h, IsHandle(h), NEW value \in BOOLEAN
  PROVE  /\ IsHandle([h EXCEPT !.t.span_is_line = value]) /\ SameStage(h, [h EXCEPT !.t.span_is_line = value])
         /\ TextKept([h EXCEPT !.t.span_is_line = value].t, h.t)
         /\ [h EXCEPT !.t.span_is_line = value].t.layers = h.t.layers
         /\ [h EXCEPT !.t.span_is_line = value].t.operator = h.t.operator
         /\ [h EXCEPT !.t.span_is_line = value].t.pager = h.t.pager
         /\ [h EXCEPT !.t.span_is_line = value].t.held = h.t.held
         /\ [h EXCEPT !.t.span_is_line = value].t.kills = h.t.kills
         /\ [h EXCEPT !.t.span_is_line = value].t.span_is_line = value
<1> DEFINE u == [h.t EXCEPT !.span_is_line = value]
           g == [h EXCEPT !.t.span_is_line = value]
<1>1. DOMAIN u = StateFields /\ u.span_is_line = value /\ u.text = h.t.text /\ u.cursor =
      h.t.cursor /\ u.anchor = h.t.anchor /\ u.live = h.t.live /\ u.layers = h.t.layers
      /\ u.held = h.t.held /\ u.operator = h.t.operator /\ u.count = h.t.count /\
      u.steps = h.t.steps /\ u.redoable = h.t.redoable /\ u.coalescing = h.t.coalescing
      /\ u.bumped = h.t.bumped /\ u.kills = h.t.kills /\ u.progress = h.t.progress /\
      u.record = h.t.record /\ u.pager = h.t.pager /\ u.offered = h.t.offered /\
      u.arming = h.t.arming /\ u.last_find = h.t.last_find /\ u.target = h.t.target
  BY DEF IsHandle, IsKept, StateFields
<1>2. g = [h EXCEPT !.t = u]
  BY DEF IsHandle, HandleFields
<1> HIDE DEF u, g
<1>3. IsKept(u)
  BY <1>1 DEF IsHandle, IsKept
<1>4. IsHandle(g) /\ SameStage(h, g) /\ g.t = u
  BY <1>2, <1>3, StateStaged
<1> QED BY <1>1, <1>4 DEF TextKept, g

LEMMA ArmingSet ==
  ASSUME NEW h, IsHandle(h), NEW kind \in Finds \cup {""}
  PROVE  /\ IsHandle([h EXCEPT !.t.arming = kind]) /\ SameStage(h, [h EXCEPT !.t.arming = kind])
         /\ TextKept([h EXCEPT !.t.arming = kind].t, h.t)
         /\ [h EXCEPT !.t.arming = kind].t.layers = h.t.layers
         /\ [h EXCEPT !.t.arming = kind].t.operator = h.t.operator
         /\ [h EXCEPT !.t.arming = kind].t.pager = h.t.pager
         /\ [h EXCEPT !.t.arming = kind].t.held = h.t.held
         /\ [h EXCEPT !.t.arming = kind].t.kills = h.t.kills
         /\ [h EXCEPT !.t.arming = kind].t.span_is_line = h.t.span_is_line
         /\ [h EXCEPT !.t.arming = kind].t.arming = kind
<1> DEFINE u == [h.t EXCEPT !.arming = kind]
           g == [h EXCEPT !.t.arming = kind]
<1>1. DOMAIN u = StateFields /\ u.arming = kind /\ u.text = h.t.text /\ u.cursor = h.t.cursor
      /\ u.anchor = h.t.anchor /\ u.live = h.t.live /\ u.layers = h.t.layers /\ u.held =
      h.t.held /\ u.operator = h.t.operator /\ u.count = h.t.count /\ u.steps =
      h.t.steps /\ u.redoable = h.t.redoable /\ u.coalescing = h.t.coalescing /\
      u.bumped = h.t.bumped /\ u.kills = h.t.kills /\ u.progress = h.t.progress /\
      u.record = h.t.record /\ u.pager = h.t.pager /\ u.offered = h.t.offered /\
      u.last_find = h.t.last_find /\ u.target = h.t.target /\ u.span_is_line =
      h.t.span_is_line
  BY DEF IsHandle, IsKept, StateFields
<1>2. g = [h EXCEPT !.t = u]
  BY DEF IsHandle, HandleFields
<1> HIDE DEF u, g
<1>3. IsKept(u)
  BY <1>1 DEF IsHandle, IsKept
<1>4. IsHandle(g) /\ SameStage(h, g) /\ g.t = u
  BY <1>2, <1>3, StateStaged
<1> QED BY <1>1, <1>4 DEF TextKept, g

(* A find that is given what to look for                                   *)
Aimed(h, what, kind) == [h EXCEPT !.t.target = what, !.t.last_find = kind]

LEMMA TargetSet ==
  ASSUME NEW h, IsHandle(h), NEW what \in Seq(Token), NEW kind \in Finds, NEW g,
         g = Aimed(h, what, kind)
  PROVE  /\ IsHandle(g) /\ SameStage(h, g)
         /\ TextKept(g.t, h.t)
         /\ g.t.layers = h.t.layers
         /\ g.t.operator = h.t.operator
         /\ g.t.pager = h.t.pager
         /\ g.t.held = h.t.held
         /\ g.t.kills = h.t.kills
         /\ g.t.span_is_line = h.t.span_is_line
         /\ g.t.target = what
         /\ g.t.last_find = kind
<1> DEFINE u == [h.t EXCEPT !.target = what, !.last_find = kind]
<1>1. DOMAIN u = StateFields /\ u.target = what /\ u.last_find = kind /\ u.text = h.t.text /\
      u.cursor = h.t.cursor /\ u.anchor = h.t.anchor /\ u.live = h.t.live /\ u.layers =
      h.t.layers /\ u.held = h.t.held /\ u.operator = h.t.operator /\ u.count =
      h.t.count /\ u.steps = h.t.steps /\ u.redoable = h.t.redoable /\ u.coalescing =
      h.t.coalescing /\ u.bumped = h.t.bumped /\ u.kills = h.t.kills /\ u.progress =
      h.t.progress /\ u.record = h.t.record /\ u.pager = h.t.pager /\ u.offered =
      h.t.offered /\ u.arming = h.t.arming /\ u.span_is_line = h.t.span_is_line
  BY DEF IsHandle, IsKept, StateFields
<1>2. g = [h EXCEPT !.t = u]
  BY DEF Aimed, IsHandle, HandleFields
<1> HIDE DEF u
<1>3. IsKept(u)
  BY <1>1 DEF IsHandle, IsKept
<1>4. IsHandle(g) /\ SameStage(h, g) /\ g.t = u
  BY <1>2, <1>3, StateStaged
<1> QED BY <1>1, <1>4 DEF TextKept

LEMMA OperatorSet ==
  ASSUME NEW h, IsHandle(h), NEW verb \in Verbs \cup {""}
  PROVE  /\ IsHandle([h EXCEPT !.t.operator = verb]) /\ SameStage(h, [h EXCEPT !.t.operator = verb])
         /\ TextKept([h EXCEPT !.t.operator = verb].t, h.t)
         /\ [h EXCEPT !.t.operator = verb].t.layers = h.t.layers
         /\ [h EXCEPT !.t.operator = verb].t.operator = verb
         /\ [h EXCEPT !.t.operator = verb].t.pager = h.t.pager
         /\ [h EXCEPT !.t.operator = verb].t.held = h.t.held
         /\ [h EXCEPT !.t.operator = verb].t.kills = h.t.kills
         /\ [h EXCEPT !.t.operator = verb].t.span_is_line = h.t.span_is_line
<1> DEFINE u == [h.t EXCEPT !.operator = verb]
           g == [h EXCEPT !.t.operator = verb]
<1>1. DOMAIN u = StateFields /\ u.operator = verb /\ u.text = h.t.text /\ u.cursor =
      h.t.cursor /\ u.anchor = h.t.anchor /\ u.live = h.t.live /\ u.layers = h.t.layers
      /\ u.held = h.t.held /\ u.count = h.t.count /\ u.steps = h.t.steps /\ u.redoable =
      h.t.redoable /\ u.coalescing = h.t.coalescing /\ u.bumped = h.t.bumped /\ u.kills
      = h.t.kills /\ u.progress = h.t.progress /\ u.record = h.t.record /\ u.pager =
      h.t.pager /\ u.offered = h.t.offered /\ u.arming = h.t.arming /\ u.last_find =
      h.t.last_find /\ u.target = h.t.target /\ u.span_is_line = h.t.span_is_line
  BY DEF IsHandle, IsKept, StateFields
<1>2. g = [h EXCEPT !.t = u]
  BY DEF IsHandle, HandleFields
<1> HIDE DEF u, g
<1>3. IsKept(u)
  BY <1>1 DEF IsHandle, IsKept
<1>4. IsHandle(g) /\ SameStage(h, g) /\ g.t = u
  BY <1>2, <1>3, StateStaged
<1> QED BY <1>1, <1>4 DEF TextKept, g

LEMMA PagerSet ==
  ASSUME NEW h, IsHandle(h), NEW p, IsPager(p)
  PROVE  /\ IsHandle([h EXCEPT !.t.pager = p]) /\ SameStage(h, [h EXCEPT !.t.pager = p])
         /\ TextKept([h EXCEPT !.t.pager = p].t, h.t)
         /\ [h EXCEPT !.t.pager = p].t.layers = h.t.layers
         /\ [h EXCEPT !.t.pager = p].t.operator = h.t.operator
         /\ [h EXCEPT !.t.pager = p].t.pager = p
         /\ [h EXCEPT !.t.pager = p].t.held = h.t.held
         /\ [h EXCEPT !.t.pager = p].t.kills = h.t.kills
         /\ [h EXCEPT !.t.pager = p].t.span_is_line = h.t.span_is_line
<1> DEFINE u == [h.t EXCEPT !.pager = p]
           g == [h EXCEPT !.t.pager = p]
<1>1. DOMAIN u = StateFields /\ u.pager = p /\ u.text = h.t.text /\ u.cursor = h.t.cursor /\
      u.anchor = h.t.anchor /\ u.live = h.t.live /\ u.layers = h.t.layers /\ u.held =
      h.t.held /\ u.operator = h.t.operator /\ u.count = h.t.count /\ u.steps =
      h.t.steps /\ u.redoable = h.t.redoable /\ u.coalescing = h.t.coalescing /\
      u.bumped = h.t.bumped /\ u.kills = h.t.kills /\ u.progress = h.t.progress /\
      u.record = h.t.record /\ u.offered = h.t.offered /\ u.arming = h.t.arming /\
      u.last_find = h.t.last_find /\ u.target = h.t.target /\ u.span_is_line =
      h.t.span_is_line
  BY DEF IsHandle, IsKept, StateFields
<1>2. g = [h EXCEPT !.t = u]
  BY DEF IsHandle, HandleFields
<1> HIDE DEF u, g
<1>3. IsKept(u)
  BY <1>1 DEF IsHandle, IsKept
<1>4. IsHandle(g) /\ SameStage(h, g) /\ g.t = u
  BY <1>2, <1>3, StateStaged
<1> QED BY <1>1, <1>4 DEF TextKept, g

LEMMA ModeSet ==
  ASSUME NEW h, IsHandle(h), NEW name \in Layers
  PROVE  /\ IsHandle(mode_set(h, name)) /\ SameStage(h, mode_set(h, name))
         /\ TextKept(mode_set(h, name).t, h.t)
         /\ mode_set(h, name).t.layers = <<name>>
         /\ mode_set(h, name).t.operator = ""
         /\ mode_set(h, name).t.pager = h.t.pager
         /\ mode_set(h, name).t.held = <<>>
         /\ mode_set(h, name).t.kills = h.t.kills
         /\ mode_set(h, name).t.span_is_line = h.t.span_is_line
         /\ mode_set(h, name).t.count = 0
<1> DEFINE u == set_mode(h.t, name)
           g == mode_set(h, name)
<1>0. <<name>> \in Seq(Layers) /\ <<>> \in Seq(Token) /\ 0 \in Nat
  <2>1. <<name>> \in Seq(Layers)
    BY OneIs, Zenon
  <2>2. <<>> \in Seq(Token) /\ 0 \in Nat
    OBVIOUS
  <2> QED BY <2>1, <2>2, Zenon
<1>1. DOMAIN u = StateFields /\ u.layers = <<name>> /\ u.held = <<>> /\ u.operator = "" /\
      u.count = 0 /\ u.text = h.t.text /\ u.cursor = h.t.cursor /\ u.anchor = h.t.anchor
      /\ u.live = h.t.live /\ u.steps = h.t.steps /\ u.redoable = h.t.redoable /\
      u.coalescing = h.t.coalescing /\ u.bumped = h.t.bumped /\ u.kills = h.t.kills /\
      u.progress = h.t.progress /\ u.record = h.t.record /\ u.pager = h.t.pager /\
      u.offered = h.t.offered /\ u.arming = h.t.arming /\ u.last_find = h.t.last_find /\
      u.target = h.t.target /\ u.span_is_line = h.t.span_is_line
  BY DEF IsHandle, IsKept, StateFields, set_mode
<1>2. g = [h EXCEPT !.t = u]
  BY DEF IsHandle, HandleFields, mode_set
<1> HIDE DEF u, g
<1>3. IsKept(u)
  BY <1>1, <1>0 DEF IsHandle, IsKept
<1>4. IsHandle(g) /\ SameStage(h, g) /\ g.t = u
  BY <1>2, <1>3, StateStaged
<1> QED BY <1>1, <1>4 DEF TextKept, g

LEMMA Pushed ==
  ASSUME NEW h, IsHandle(h), NEW name \in Layers
  PROVE  /\ IsHandle(keymap_push(h, name)) /\ SameStage(h, keymap_push(h, name))
         /\ TextKept(keymap_push(h, name).t, h.t)
         /\ keymap_push(h, name).t.layers = Append(h.t.layers, name)
         /\ keymap_push(h, name).t.operator = h.t.operator
         /\ keymap_push(h, name).t.pager = h.t.pager
         /\ keymap_push(h, name).t.held = <<>>
         /\ keymap_push(h, name).t.kills = h.t.kills
         /\ keymap_push(h, name).t.span_is_line = h.t.span_is_line
<1> DEFINE u == push(h.t, name)
           g == keymap_push(h, name)
<1>0. Append(h.t.layers, name) \in Seq(Layers) /\ <<>> \in Seq(Token)
  <2>1. h.t.layers \in Seq(Layers)
    BY DEF IsHandle, IsKept
  <2> QED BY <2>1, AppendProperties
<1>1. DOMAIN u = StateFields /\ u.layers = Append(h.t.layers, name) /\ u.held = <<>> /\ u.text
      = h.t.text /\ u.cursor = h.t.cursor /\ u.anchor = h.t.anchor /\ u.live = h.t.live
      /\ u.operator = h.t.operator /\ u.count = h.t.count /\ u.steps = h.t.steps /\
      u.redoable = h.t.redoable /\ u.coalescing = h.t.coalescing /\ u.bumped =
      h.t.bumped /\ u.kills = h.t.kills /\ u.progress = h.t.progress /\ u.record =
      h.t.record /\ u.pager = h.t.pager /\ u.offered = h.t.offered /\ u.arming =
      h.t.arming /\ u.last_find = h.t.last_find /\ u.target = h.t.target /\
      u.span_is_line = h.t.span_is_line
  BY DEF IsHandle, IsKept, StateFields, push
<1>2. g = [h EXCEPT !.t = u]
  BY DEF IsHandle, HandleFields, keymap_push
<1> HIDE DEF u, g
<1>3. IsKept(u)
  BY <1>1, <1>0 DEF IsHandle, IsKept
<1>4. IsHandle(g) /\ SameStage(h, g) /\ g.t = u
  BY <1>2, <1>3, StateStaged
<1> QED BY <1>1, <1>4 DEF TextKept, g

LEMMA Popped ==
  ASSUME NEW h, IsHandle(h), Len(h.t.layers) > 1
  PROVE  /\ IsHandle(keymap_pop(h)) /\ SameStage(h, keymap_pop(h))
         /\ TextKept(keymap_pop(h).t, h.t)
         /\ keymap_pop(h).t.layers = Front(h.t.layers)
         /\ keymap_pop(h).t.operator = h.t.operator
         /\ keymap_pop(h).t.pager = h.t.pager
         /\ keymap_pop(h).t.held = <<>>
         /\ keymap_pop(h).t.kills = h.t.kills
         /\ keymap_pop(h).t.span_is_line = h.t.span_is_line
<1> DEFINE u == pop(h.t)
           g == keymap_pop(h)
<1>0. Front(h.t.layers) \in Seq(Layers) /\ <<>> \in Seq(Token) /\ ~(Len(h.t.layers) <= 1)
  <2>1. h.t.layers \in Seq(Layers) /\ h.t.layers # <<>>
    <3>1. h.t.layers \in Seq(Layers)
      BY DEF IsHandle, IsKept
    <3>2. CASE h.t.layers = <<>>
      BY <3>2, EmptySeq
    <3> QED BY <3>1, <3>2
  <2>2. Len(h.t.layers) \in Nat
    BY <2>1
  <2> QED BY <2>1, <2>2, FrontIs
<1>1. DOMAIN u = StateFields /\ u.layers = Front(h.t.layers) /\ u.held = <<>> /\ u.text =
      h.t.text /\ u.cursor = h.t.cursor /\ u.anchor = h.t.anchor /\ u.live = h.t.live /\
      u.operator = h.t.operator /\ u.count = h.t.count /\ u.steps = h.t.steps /\
      u.redoable = h.t.redoable /\ u.coalescing = h.t.coalescing /\ u.bumped =
      h.t.bumped /\ u.kills = h.t.kills /\ u.progress = h.t.progress /\ u.record =
      h.t.record /\ u.pager = h.t.pager /\ u.offered = h.t.offered /\ u.arming =
      h.t.arming /\ u.last_find = h.t.last_find /\ u.target = h.t.target /\
      u.span_is_line = h.t.span_is_line
  BY <1>0 DEF IsHandle, IsKept, StateFields, pop
<1>2. g = [h EXCEPT !.t = u]
  BY DEF IsHandle, HandleFields, keymap_pop
<1> HIDE DEF u, g
<1>3. IsKept(u)
  BY <1>1, <1>0 DEF IsHandle, IsKept
<1>4. IsHandle(g) /\ SameStage(h, g) /\ g.t = u
  BY <1>2, <1>3, StateStaged
<1> QED BY <1>1, <1>4 DEF TextKept, g

-----------------------------------------------------------------------------
(* What looks at the text, and moves over it.                              *)

LEMMA LooksOn ==
  ASSUME NEW h, NEW g, NEW k, Looks(h, g), Looks(g, k)
  PROVE  Looks(h, k)
BY DEF Looks, Calm, TextKept, ModesKept

LEMMA LooksAlone ==
  ASSUME NEW h, IsHandle(h)
  PROVE  Looks(h, h)
BY DEF Looks, Calm, TextKept, ModesKept

LEMMA CursorIs ==
  ASSUME NEW h, IsHandle(h)
  PROVE  /\ h.text \in Seq(Token) /\ h.cursor \in Offsets(h.text)
         /\ h.cursor \in Nat /\ h.cursor <= Len(h.text) /\ Len(h.text) \in Nat
         /\ Offsets(h.text) = 0 .. Len(h.text)
BY DEF IsHandle, Offsets

LEMMA ToIsInside ==
  ASSUME NEW h, IsHandle(h), NEW motion \in Motions
  PROVE  To(h, motion) \in Offsets(h.text)
BY CursorIs, MotionsStayInside DEF To

LEMMA LineAround ==
  ASSUME NEW h, IsHandle(h)
  PROVE  /\ To(h, "start") \in 0 .. h.cursor /\ To(h, "end") \in h.cursor .. Len(h.text)
         /\ To(h, "start") = line_start_of(h.text, h.cursor)
         /\ To(h, "end") = line_end_of(h.text, h.cursor)
<1>1. /\ To(h, "start") = line_start_of(h.text, h.cursor)
      /\ To(h, "end") = line_end_of(h.text, h.cursor)
  BY Zenon DEF To, Move
<1> QED BY <1>1, CursorIs, LineEnds

LEMMA CountIs ==
  ASSUME NEW how, IsHow(how)
  PROVE  count_of(how) \in Nat \ {0}
BY DEF count_of, IsHow

LEMMA MoveRepeatedLooks ==
  ASSUME NEW h, IsHandle(h), NEW motion \in Motions, NEW count \in Nat
  PROVE  Looks(h, move_repeated(h, motion, count))
<1> DEFINE S == Offsets(h.text)
           Given(f) == [n \in 0 .. count |->
             IF n = 0 THEN h.cursor ELSE Move(h.text, f[n - 1], motion)]
           step == [i \in 1 .. count |-> [x \in S |-> Move(h.text, x, motion)]]
           zero == h.cursor
<1>1. zero \in S /\ h.text \in Seq(Token)
  BY CursorIs
<1>2. \A x \in S : Move(h.text, x, motion) \in S
  BY <1>1, MotionsStayInside
<1> HIDE DEF S, zero
<1>3. Stepping(count, S, zero, step)
  BY <1>1, <1>2 DEF Stepping
<1>4. PICK f : Iterates(f, count, S, zero, step)
  <2> HIDE DEF step
  <2> QED BY <1>3, StepByStep
<1>5. f = Given(f)
  <2>1. /\ f \in [0 .. count -> S] /\ f[0] = zero
        /\ \A i \in 1 .. count : f[i] = step[i][f[i - 1]]
    BY <1>4 DEF Iterates
  <2>2. \A i \in 1 .. count : f[i] = Move(h.text, f[i - 1], motion)
    <3> TAKE i \in 1 .. count
    <3>1. i - 1 \in 0 .. count
      OBVIOUS
    <3> QED BY <2>1, <3>1
  <2>3. \A i \in 0 .. count : i # 0 => i \in 1 .. count
    OBVIOUS
  <2>4. f = [n \in 0 .. count |-> f[n]]
    BY <2>1
  <2> HIDE DEF step
  <2> QED BY <2>1, <2>2, <2>3, <2>4 DEF zero
<1> DEFINE g == CHOOSE g : g = Given(g)
<1>6. g = Given(g)
  <2> HIDE DEF Given
  <2> QED BY <1>5
<1>7. move_repeated(h, motion, count) = cursor_set(h, g[count])
  BY DEF move_repeated
<1> HIDE DEF g
<1>8. g[0] = zero /\ \A i \in 1 .. count : g[i] = Move(h.text, g[i - 1], motion)
  <2>1. 0 \in 0 .. count
    OBVIOUS
  <2>2. \A i \in 1 .. count : i \in 0 .. count /\ i # 0
    OBVIOUS
  <2> QED BY <1>6, <2>1, <2>2 DEF zero
<1>9. \A i \in 0 .. count : g[i] \in S
  <2>1. \A i \in 1 .. count : g[i - 1] \in S => g[i] \in S
    BY <1>2, <1>8
  <2>2. g[0] \in S
    BY <1>1, <1>8
  <2> QED BY <2>1, <2>2, StaysIn
<1>10. g[count] \in Offsets(h.text)
  BY <1>9 DEF S
<1> QED BY <1>7, <1>10, CursorSet

LEMMA ExtendLooks ==
  ASSUME NEW h, IsHandle(h)
  PROVE  Looks(h, extend_inclusive(h))
<1>1. next_boundary(h.text, h.cursor) \in Offsets(h.text)
  BY CursorIs DEF next_boundary
<1>2. Looks(h, cursor_set(h, next_boundary(h.text, h.cursor)))
  BY <1>1, CursorSet
<1> QED BY <1>2, LooksAlone DEF extend_inclusive

LEMMA FindLooks ==
  ASSUME NEW h, IsHandle(h), NEW kind, NEW count \in Nat
  PROVE  Looks(h, perform_find(h, kind, count))
<1> DEFINE S == Offsets(h.text) \cup {-1}
           n == Len(h.text)
           there == {p \in line_start_of(h.text, h.cursor) .. line_end_of(h.text, h.cursor) - 1 :
                       <<h.text[p + 1]>> = h.t.target}
           Skip(at, i) == IF kind \in Till /\ i = 1 /\ at + 1 \in there THEN at + 2 ELSE at + 1
           Next_(at, i) ==
             CASE at = -1 -> -1
               [] at # -1 /\ kind \in Forward -> FirstOf({p \in there : p >= Skip(at, i)}, -1)
               [] at # -1 /\ kind \notin Forward -> LastOf({p \in there : p < at}, -1)
           Given(f) == [i \in 0 .. count |-> IF i = 0 THEN h.cursor ELSE Next_(f[i - 1], i)]
           step == [i \in 1 .. count |-> [x \in S |-> Next_(x, i)]]
           zero == h.cursor
<1>0. n \in Nat /\ Offsets(h.text) = 0 .. n /\ h.cursor \in 0 .. n
  BY CursorIs
<1>1. there \subseteq 0 .. n
  <2>1. /\ line_start_of(h.text, h.cursor) \in 0 .. h.cursor
        /\ line_end_of(h.text, h.cursor) \in h.cursor .. Len(h.text)
    BY CursorIs, LineEnds
  <2> QED BY <1>0, <2>1
<1> HIDE DEF there, n, Skip
<1>2. ASSUME NEW x \in S, NEW i \in 1 .. count PROVE Next_(x, i) \in S
  <2> DEFINE A == {p \in there : p >= Skip(x, i)}
             B == {p \in there : p < x}
  <2>1. A \subseteq Nat /\ A \subseteq 0 .. n /\ B \subseteq 0 .. n
    <3>1. A \subseteq there /\ B \subseteq there
      BY Zenon
    <3> HIDE DEF A, B
    <3> QED BY <1>0, <1>1, <3>1
  <2> HIDE DEF A, B
  <2>2. FirstOf(A, -1) = -1 \/ FirstOf(A, -1) \in A
    BY <2>1, FirstIs
  <2>3. LastOf(B, -1) = -1 \/ LastOf(B, -1) \in B
    BY <1>0, <2>1, LastIs
  <2>4. -1 \in S /\ 0 .. n \subseteq S
    BY <1>0
  <2>5. FirstOf(A, -1) \in S
    <3> HIDE DEF S
    <3> QED BY <2>1, <2>2, <2>4
  <2>6. LastOf(B, -1) \in S
    <3> HIDE DEF S
    <3> QED BY <2>1, <2>3, <2>4
  <2>7. CASE x = -1
    BY <2>4, <2>7
  <2>8. CASE x # -1 /\ kind \in Forward
    <3>1. Next_(x, i) = FirstOf(A, -1)
      BY <2>8 DEF A
    <3> QED BY <2>5, <3>1
  <2>9. CASE x # -1 /\ kind \notin Forward
    <3>1. Next_(x, i) = LastOf(B, -1)
      BY <2>9 DEF B
    <3> QED BY <2>6, <3>1
  <2> QED BY <2>7, <2>8, <2>9
<1>3. Stepping(count, S, zero, step)
  <2>1. zero \in S
    BY <1>0
  <2> HIDE DEF S, zero, Next_
  <2> QED BY <1>2, <2>1 DEF Stepping
<1>4. PICK f : Iterates(f, count, S, zero, step)
  <2> HIDE DEF step, S, zero
  <2> QED BY <1>3, StepByStep
<1>5. f = Given(f)
  <2> HIDE DEF Next_, S
  <2>1. /\ f \in [0 .. count -> S] /\ f[0] = zero
        /\ \A i \in 1 .. count : f[i] = step[i][f[i - 1]]
    BY <1>4 DEF Iterates
  <2>2. \A i \in 1 .. count : f[i] = Next_(f[i - 1], i)
    <3> TAKE i \in 1 .. count
    <3>1. i - 1 \in 0 .. count
      OBVIOUS
    <3> QED BY <2>1, <3>1
  <2>3. \A i \in 0 .. count : i # 0 => i \in 1 .. count
    OBVIOUS
  <2>4. f = [i \in 0 .. count |-> f[i]]
    BY <2>1
  <2> HIDE DEF step
  <2> QED BY <2>1, <2>2, <2>3, <2>4
<1> DEFINE g == CHOOSE g : g = Given(g)
<1>6. g = Given(g)
  <2> HIDE DEF Given
  <2> QED BY <1>5
<1> DEFINE landing == IF kind \notin Till THEN g[count]
                      ELSE IF kind \in Forward THEN prev_boundary(h.text, g[count])
                                               ELSE next_boundary(h.text, g[count])
<1>7. perform_find(h, kind, count) =
        IF kind = "" \/ h.t.target = <<>> \/ g[count] = -1 THEN h
        ELSE IF kind \in Forward THEN extend_inclusive(cursor_set(h, landing))
                                 ELSE cursor_set(h, landing)
  BY DEF perform_find, there, Skip
<1> HIDE DEF g
<1>8. g[0] = zero /\ \A i \in 1 .. count : g[i] = Next_(g[i - 1], i)
  <2> HIDE DEF Next_
  <2>1. 0 \in 0 .. count
    OBVIOUS
  <2>2. \A i \in 1 .. count : i \in 0 .. count /\ i # 0
    OBVIOUS
  <2> QED BY <1>6, <2>1, <2>2
<1>9. \A i \in 0 .. count : g[i] \in S
  <2> HIDE DEF Next_
  <2>1. \A i \in 1 .. count : g[i - 1] \in S => g[i] \in S
    <3> HIDE DEF S
    <3> QED BY <1>2, <1>8
  <2>2. g[0] \in S
    BY <1>0, <1>8
  <2> HIDE DEF S
  <2> QED BY <2>1, <2>2, StaysIn
<1>10. CASE kind = "" \/ h.t.target = <<>> \/ g[count] = -1
  BY <1>7, <1>10, LooksAlone
<1>11. CASE ~(kind = "" \/ h.t.target = <<>> \/ g[count] = -1)
  <2>1. g[count] \in Offsets(h.text)
    <3>1. count \in 0 .. count
      OBVIOUS
    <3>2. g[count] \in S
      BY <1>9, <3>1, Zenon
    <3> QED BY <1>11, <3>2
  <2>2. landing \in Offsets(h.text)
    BY <1>0, <2>1 DEF prev_boundary, next_boundary, n
  <2> HIDE DEF landing
  <2>3. Looks(h, cursor_set(h, landing))
    BY <2>2, CursorSet
  <2>4. IsHandle(cursor_set(h, landing))
    BY <2>3 DEF Looks, Calm
  <2>5. Looks(h, extend_inclusive(cursor_set(h, landing)))
    BY <2>3, <2>4, ExtendLooks, LooksOn
  <2> QED BY <1>7, <1>11, <2>3, <2>5
<1> QED BY <1>10, <1>11

-----------------------------------------------------------------------------
(* What is killed is what has gone from the text, with a newline for a     *)
(* line.                                                                   *)

Cut(killed, cut) == killed = cut \/ killed = Append(cut, NL)
KillFits(h, g) ==
  \/ g.t.kills = h.t.kills
  \/ g.text = h.text
  \/ \E from, to : /\ Within(h.text, from, to, <<>>)
                   /\ g.text = replace(h.text, from, to, <<>>)
                   /\ g.cursor = from
                   /\ Cut(g.t.kills.text, slice(h.text, from, to))
Does(h, g) == Calm(h, g) /\ KillFits(h, g)

LEMMA LooksDoes ==
  ASSUME NEW h, NEW g, Looks(h, g)
  PROVE  Does(h, g) /\ IsHandle(g)
BY DEF Looks, Does, Calm, KillFits

LEMMA DoesThenLooks ==
  ASSUME NEW h, NEW g, NEW k, Does(h, g), Looks(g, k), k.cursor = g.cursor
  PROVE  Does(h, k)
<1>1. Calm(h, k)
  BY DEF Looks, Does, Calm, TextKept, ModesKept
<1>2. KillFits(h, k)
  BY DEF Looks, Does, KillFits
<1> QED BY <1>1, <1>2 DEF Does

LEMMA WithinEmpty ==
  ASSUME NEW text \in Seq(Token), NEW from \in Offsets(text), NEW to \in Offsets(text), from <= to
  PROVE  Within(text, from, to, <<>>)
BY DEF Within, Offsets

LEMMA CutIs ==
  ASSUME NEW text \in Seq(Token), NEW from \in Offsets(text), NEW to \in Offsets(text)
  PROVE  /\ slice(text, from, to) \in Seq(Token)
         /\ Append(slice(text, from, to), NL) \in Seq(Token)
<1>1. from \in Nat /\ to \in Nat /\ to <= Len(text)
  BY DEF Offsets
<1>2. slice(text, from, to) \in Seq(Token)
  BY <1>1, SliceIs
<1>3. NL \in Token
  BY DEF Token
<1> QED BY <1>2, <1>3, AppendProperties

LEMMA KillSpan ==
  ASSUME NEW h, IsHandle(h), NEW from \in Offsets(h.text), NEW to \in Offsets(h.text),
         NEW linewise \in BOOLEAN
  PROVE  /\ Calm(h, kill_span(h, from, to, linewise))
         /\ SameStage(h, kill_span(h, from, to, linewise))
         /\ Cut(kill_span(h, from, to, linewise).t.kills.text, slice(h.text, from, to))
<1> DEFINE cut == slice(h.text, from, to)
           all == IF linewise /\ (cut = <<>> \/ Last(cut) # NL) THEN Append(cut, NL) ELSE cut
           g == kill_set(h, all, linewise)
<1>1. cut \in Seq(Token) /\ Append(cut, NL) \in Seq(Token)
  BY CursorIs, CutIs
<1>2. kill_span(h, from, to, linewise) = g
  BY Zenon DEF kill_span
<1>3. all = cut \/ all = Append(cut, NL)
  BY Zenon
<1>4. all \in Seq(Token)
  <2> HIDE DEF all, cut
  <2> QED BY <1>1, <1>3
<1> HIDE DEF all, cut
<1>5. /\ IsHandle(g) /\ SameStage(h, g) /\ TextKept(g.t, h.t) /\ ModesKept(g.t, h.t)
      /\ g.t.kills.text = all
  BY <1>4, KillSet
<1> HIDE DEF g
<1> QED BY <1>2, <1>3, <1>5 DEF Calm, Cut, cut

LEMMA KillAndErase ==
  ASSUME NEW h, IsHandle(h), NEW from \in Offsets(h.text), NEW to \in Offsets(h.text), from <= to,
         NEW k, Calm(h, k), k.text = h.text, Cut(k.t.kills.text, slice(h.text, from, to))
  PROVE  /\ Does(h, buffer_replace(k, from, to, <<>>))
         /\ buffer_replace(k, from, to, <<>>).cursor = from
<1> DEFINE g == buffer_replace(k, from, to, <<>>)
           none == <<>>
<1>0. none \in Seq(Token) /\ Len(none) = 0
  OBVIOUS
<1>1. Within(k.text, from, to, none)
  BY CursorIs, WithinEmpty
<1>2. g = buffer_replace(k, from, to, none)
  OBVIOUS
<1> HIDE DEF none
<1>3. /\ Calm(k, g) /\ g.t = k.t /\ g.text = replace(k.text, from, to, none)
      /\ g.cursor = from + Len(none)
  <2>1. IsHandle(k)
    BY DEF Calm
  <2> HIDE DEF g
  <2> QED BY <1>1, <1>2, <2>1, BufferReplaced
<1> HIDE DEF g
<1>4. g.cursor = from
  BY <1>0, <1>3, CursorIs
<1>5. KillFits(h, g)
  BY <1>1, <1>3, <1>4 DEF KillFits, none
<1>6. Calm(h, g)
  BY <1>3 DEF Calm, TextKept, ModesKept
<1> QED BY <1>4, <1>5, <1>6 DEF Does, g

LEMMA SpannedLooks ==
  ASSUME NEW h, IsHandle(h), NEW from \in Offsets(h.text)
  PROVE  Looks(h, Spanned(h, from)) /\ Spanned(h, from).cursor = from
<1> DEFINE no == FALSE
           k == [h EXCEPT !.t.span_is_line = no]
           m == cursor_set(k, from)
           g == selection_clear(m)
<1>1. no \in BOOLEAN
  OBVIOUS
<1>2. Spanned(h, from) = g
  BY Zenon DEF Spanned
<1> HIDE DEF no
<1>3. Looks(h, k)
  <2>1. /\ IsHandle(k) /\ SameStage(h, k) /\ TextKept(k.t, h.t)
        /\ k.t.layers = h.t.layers /\ k.t.operator = h.t.operator /\ k.t.pager = h.t.pager
        /\ k.t.held = h.t.held /\ k.t.kills = h.t.kills
    BY <1>1, LineSet
  <2> HIDE DEF k
  <2> QED BY <2>1 DEF Looks, Calm, ModesKept, SameStage
<1> HIDE DEF k
<1>4. IsHandle(k) /\ k.text = h.text
  BY <1>3 DEF Looks, Calm
<1>5. Looks(k, m) /\ m.cursor = from
  BY <1>4, CursorSet
<1> HIDE DEF m
<1>6. IsHandle(m)
  BY <1>5 DEF Looks, Calm
<1>7. Looks(m, g) /\ g.cursor = m.cursor
  BY <1>6, SelectionCleared
<1> HIDE DEF g
<1>8. Looks(h, g)
  BY <1>3, <1>5, <1>7, LooksOn
<1> QED BY <1>2, <1>5, <1>7, <1>8

(* The verbs of vi *)
LEMMA VerbDoes ==
  ASSUME NEW h, IsHandle(h), NEW from \in Offsets(h.text), NEW to \in Offsets(h.text), from <= to,
         NEW linewise \in BOOLEAN
  PROVE  /\ Does(h, Spanned(Erased(kill_span(h, from, to, linewise), from, to), from))
         /\ Does(h, Spanned(kill_span(h, from, to, linewise), from))
<1> DEFINE k == kill_span(h, from, to, linewise)
<1>1. Calm(h, k) /\ SameStage(h, k) /\ Cut(k.t.kills.text, slice(h.text, from, to))
  BY KillSpan
<1> HIDE DEF k
<1>2. k.text = h.text /\ IsHandle(k)
  BY <1>1 DEF SameStage, Calm
<1>3. Does(h, k)
  BY <1>1, <1>2 DEF Does, KillFits
<1>4. Looks(k, Spanned(k, from)) /\ Spanned(k, from).cursor = from
  BY <1>2, SpannedLooks
<1>5. Does(h, Spanned(k, from))
  <2> DEFINE g == Spanned(k, from)
  <2> HIDE DEF g
  <2>1. Looks(k, g) /\ g.text = h.text
    BY <1>2, <1>4 DEF g, Looks
  <2>2. Calm(h, g)
    BY <1>1, <2>1 DEF Looks, Calm, TextKept, ModesKept
  <2>3. KillFits(h, g)
    BY <2>1 DEF KillFits
  <2> QED BY <2>2, <2>3 DEF Does, g
<1> DEFINE e == Erased(k, from, to)
<1>6. Does(h, Spanned(e, from))
  <2>1. CASE to > from
    <3>1. e = buffer_replace(k, from, to, <<>>)
      BY <2>1 DEF Erased
    <3>2. Does(h, e) /\ e.cursor = from
      BY <1>1, <1>2, <3>1, KillAndErase
    <3> HIDE DEF e
    <3>3. IsHandle(e) /\ from \in Offsets(e.text)
      <4>1. IsHandle(e)
        BY <3>2 DEF Does, Calm
      <4> QED BY <3>2, <4>1, CursorIs
    <3>4. Looks(e, Spanned(e, from)) /\ Spanned(e, from).cursor = from
      BY <3>3, SpannedLooks
    <3> QED BY <3>2, <3>4, DoesThenLooks
  <2>2. CASE ~(to > from)
    <3>1. e = k
      BY <2>2 DEF Erased
    <3> QED BY <1>5, <3>1
  <2> QED BY <2>1, <2>2
<1> QED BY <1>5, <1>6 DEF k, e

LEMMA SpanForVerb ==
  ASSUME NEW h, IsHandle(h)
  PROVE  /\ span_for_verb(h).from \in Offsets(h.text) /\ span_for_verb(h).to \in Offsets(h.text)
         /\ span_for_verb(h).from <= span_for_verb(h).to
         /\ span_for_verb(h).linewise \in BOOLEAN
<1> DEFINE s == selection_get(h)
<1>1. s.from \in Offsets(h.text) /\ s.to \in Offsets(h.text) /\ s.from <= s.to
  BY SelectionIs
<1>2. span_for_verb(h) =
        [from |-> s.from, to |-> IF h.live THEN s.to ELSE s.from, linewise |-> h.t.span_is_line]
  BY DEF span_for_verb
<1>3. h.t.span_is_line \in BOOLEAN /\ h.live \in BOOLEAN
  BY DEF IsHandle, IsKept
<1> HIDE DEF s
<1>4. s.from <= s.from
  BY <1>1, CursorIs
<1> DEFINE to == IF h.live THEN s.to ELSE s.from
<1>5. to \in Offsets(h.text) /\ s.from <= to
  BY <1>1, <1>4
<1> HIDE DEF to
<1>6. span_for_verb(h) = [from |-> s.from, to |-> to, linewise |-> h.t.span_is_line]
  BY <1>2 DEF to
<1> QED BY <1>1, <1>3, <1>5, <1>6

LEMMA DeleteDoes ==
  ASSUME NEW h, IsHandle(h)
  PROVE  Does(h, vi_delete(h)) /\ Does(h, vi_yank(h))
<1> DEFINE s == span_for_verb(h)
<1>1. s.from \in Offsets(h.text) /\ s.to \in Offsets(h.text) /\ s.from <= s.to /\ s.linewise \in BOOLEAN
  BY SpanForVerb
<1>2. /\ vi_delete(h) = Spanned(Erased(kill_span(h, s.from, s.to, s.linewise), s.from, s.to), s.from)
      /\ vi_yank(h) = Spanned(kill_span(h, s.from, s.to, s.linewise), s.from)
  BY DEF vi_delete, vi_yank
<1> HIDE DEF s
<1> QED BY <1>1, <1>2, VerbDoes

(* A change of mode is one, whatever was done to the text first            *)
Switched(h, g, name) ==
  /\ IsHandle(g) /\ TextKept(g.t, h.t) /\ KillFits(h, g)
  /\ g.t.layers = <<name>> /\ g.t.operator = "" /\ g.t.pager = h.t.pager

LEMMA DoesThenSwitches ==
  ASSUME NEW h, NEW g, Does(h, g), NEW name \in Layers
  PROVE  Switched(h, mode_set(g, name), name)
<1> DEFINE m == mode_set(g, name)
<1>1. IsHandle(g)
  BY DEF Does, Calm
<1>2. /\ IsHandle(m) /\ SameStage(g, m) /\ TextKept(m.t, g.t)
      /\ m.t.layers = <<name>> /\ m.t.operator = "" /\ m.t.pager = g.t.pager
      /\ m.t.kills = g.t.kills
  BY <1>1, ModeSet
<1> HIDE DEF m
<1>3. KillFits(h, m)
  BY <1>2 DEF Does, KillFits, SameStage
<1> QED BY <1>2, <1>3 DEF Switched, Does, Calm, TextKept, ModesKept, m

LEMMA ChangeSwitches ==
  ASSUME NEW h, IsHandle(h)
  PROVE  Switched(h, vi_change(h), "vi_insert")
<1> DEFINE s == span_for_verb(h)
           to == IF s.linewise /\ s.to > s.from /\ h.text[s.to] = NL THEN s.to - 1 ELSE s.to
           d == Spanned(Erased(kill_span(h, s.from, to, s.linewise), s.from, to), s.from)
<1>1. s.from \in Offsets(h.text) /\ s.to \in Offsets(h.text) /\ s.from <= s.to /\ s.linewise \in BOOLEAN
  BY SpanForVerb
<1>2. vi_change(h) = mode_set(d, "vi_insert")
  BY DEF vi_change
<1> HIDE DEF s
<1>3. to \in Offsets(h.text) /\ s.from <= to
  BY <1>1, CursorIs
<1> HIDE DEF to
<1>4. Does(h, d)
  BY <1>1, <1>3, VerbDoes
<1> DEFINE name == "vi_insert"
<1>5. name \in Layers
  BY DEF Layers
<1> HIDE DEF d, name
<1>6. Switched(h, mode_set(d, name), name)
  BY <1>4, <1>5, DoesThenSwitches
<1> QED BY <1>2, <1>6 DEF name

-----------------------------------------------------------------------------
(* Objects and lines, count times.                                         *)

IteratesFromOne(f, n, S, first, next) ==
  /\ f \in [1 .. n -> S] /\ f[1] = first
  /\ \A i \in 1 .. n : i # 1 => f[i] = next[f[i - 1]]

LEMMA StepsFromOne ==
  ASSUME NEW n \in Nat \ {0}, NEW S, NEW first \in S, NEW next \in [S -> S]
  PROVE  \E f : IteratesFromOne(f, n, S, first, next)
<1> DEFINE m == n - 1
           step == [i \in 1 .. m |-> next]
<1>1. m \in Nat
  OBVIOUS
<1>2. Stepping(m, S, first, step)
  <2> HIDE DEF m
  <2> QED BY <1>1 DEF Stepping
<1>3. PICK g : Iterates(g, m, S, first, step)
  <2> HIDE DEF m, step
  <2> QED BY <1>2, StepByStep
<1> DEFINE f == [i \in 1 .. n |-> g[i - 1]]
<1>4. \A i \in 1 .. n : i - 1 \in 0 .. m /\ (i # 1 => i - 1 \in 1 .. m /\ i - 1 \in 1 .. n)
  OBVIOUS
<1>5. /\ g \in [0 .. m -> S] /\ g[0] = first
      /\ \A i \in 1 .. m : g[i] = next[g[i - 1]]
  <2> HIDE DEF m
  <2> QED BY <1>3 DEF Iterates
<1> HIDE DEF m
<1>6. f \in [1 .. n -> S]
  BY <1>4, <1>5
<1>7. f[1] = first
  BY <1>5
<1>8. ASSUME NEW i \in 1 .. n, i # 1 PROVE f[i] = next[f[i - 1]]
  <2>1. f[i] = g[i - 1] /\ f[i - 1] = g[i - 1 - 1]
    BY <1>4, <1>8
  <2>2. g[i - 1] = next[g[i - 1 - 1]]
    BY <1>4, <1>5, <1>8
  <2> QED BY <2>1, <2>2
<1> HIDE DEF f
<1>9. IteratesFromOne(f, n, S, first, next)
  BY <1>6, <1>7, <1>8 DEF IteratesFromOne
<1> QED BY <1>9

LEMMA StaysInFromOne ==
  ASSUME NEW n \in Nat \ {0}, NEW f, NEW S, f[1] \in S,
         \A i \in 1 .. n : i # 1 /\ f[i - 1] \in S => f[i] \in S
  PROVE  f[n] \in S
<1> DEFINE bad == {i \in 1 .. n : f[i] \notin S}
<1>1. bad = {}
  <2> SUFFICES ASSUME bad # {} PROVE FALSE
    OBVIOUS
  <2>1. PICK i \in bad : \A j \in bad : i <= j
    <3>1. bad \subseteq Nat
      OBVIOUS
    <3> HIDE DEF bad
    <3> QED BY <3>1, HasLeast
  <2>2. i # 1 /\ i \in 1 .. n
    BY <2>1
  <2>3. i - 1 \in 1 .. n /\ ~(i <= i - 1)
    BY <2>2
  <2>4. f[i - 1] \in S
    BY <2>1, <2>3
  <2> QED BY <2>1, <2>2, <2>4
<1>2. n \in 1 .. n
  OBVIOUS
<1> QED BY <1>1, <1>2

LEMMA LineSpan ==
  ASSUME NEW h, IsHandle(h), NEW count \in Nat \ {0}
  PROVE  /\ line_span(h, count).from \in Offsets(h.text)
         /\ line_span(h, count).to \in Offsets(h.text)
         /\ line_span(h, count).from <= line_span(h, count).to
<1> DEFINE S == h.cursor .. Len(h.text)
           End_(x) == IF x < Len(h.text) THEN line_end_of(h.text, x + 1) ELSE x
           Given(f) == [n \in 1 .. count |-> IF n = 1 THEN To(h, "end")
             ELSE IF f[n - 1] < Len(h.text) THEN line_end_of(h.text, f[n - 1] + 1) ELSE f[n - 1]]
           next == [x \in S |-> End_(x)]
           first == To(h, "end")
<1>0. /\ h.cursor \in Nat /\ h.cursor <= Len(h.text) /\ Len(h.text) \in Nat
      /\ h.text \in Seq(Token) /\ Offsets(h.text) = 0 .. Len(h.text)
  BY CursorIs
<1>1. first \in S
  BY LineAround
<1>2. \A x \in S : End_(x) \in S
  <2> TAKE x \in S
  <2>1. CASE x < Len(h.text)
    <3>1. x + 1 \in Offsets(h.text)
      BY <1>0, <2>1
    <3>2. line_end_of(h.text, x + 1) \in x + 1 .. Len(h.text)
      BY <1>0, <3>1, LineEnds
    <3> QED BY <1>0, <2>1, <3>2
  <2>2. CASE ~(x < Len(h.text))
    BY <2>2
  <2> QED BY <2>1, <2>2
<1>3. next \in [S -> S]
  <2> HIDE DEF End_, S
  <2> QED BY <1>2
<1>4. PICK f : IteratesFromOne(f, count, S, first, next)
  <2> HIDE DEF next, S, first
  <2> QED BY <1>1, <1>3, StepsFromOne
<1>5. f = Given(f)
  <2>1. /\ f \in [1 .. count -> S] /\ f[1] = first
        /\ \A i \in 1 .. count : i # 1 => f[i] = next[f[i - 1]]
    <3> HIDE DEF S, next, first
    <3> QED BY <1>4 DEF IteratesFromOne
  <2>2. \A i \in 1 .. count : i # 1 => f[i] = End_(f[i - 1])
    <3> TAKE i \in 1 .. count
    <3> HAVE i # 1
    <3>1. i - 1 \in 1 .. count
      OBVIOUS
    <3> HIDE DEF S, End_
    <3> QED BY <2>1, <3>1
  <2>3. f = [n \in 1 .. count |-> f[n]]
    <3> HIDE DEF S
    <3> QED BY <2>1
  <2> HIDE DEF S, next
  <2> QED BY <2>1, <2>2, <2>3
<1> DEFINE g == CHOOSE g : g = Given(g)
<1>6. g = Given(g)
  <2> HIDE DEF Given
  <2> QED BY <1>5
<1>7. line_span(h, count) = [from |-> To(h, "start"), to |-> Least(g[count] + 1, Len(h.text))]
  BY DEF line_span
<1> HIDE DEF g
<1>8. g[1] = first /\ \A i \in 1 .. count : i # 1 => g[i] = End_(g[i - 1])
  <2>1. 1 \in 1 .. count
    OBVIOUS
  <2> QED BY <1>6, <2>1
<1>9. g[count] \in S
  <2>1. \A i \in 1 .. count : i # 1 /\ g[i - 1] \in S => g[i] \in S
    <3> HIDE DEF End_, S
    <3> QED BY <1>2, <1>8
  <2>2. g[1] \in S
    BY <1>1, <1>8
  <2> HIDE DEF S
  <2> QED BY <2>1, <2>2, StaysInFromOne
<1>10. To(h, "start") \in 0 .. h.cursor
  BY LineAround
<1> DEFINE e == g[count]
           b == To(h, "start")
<1>11. e \in Nat /\ h.cursor <= e /\ b \in Nat /\ b <= h.cursor
  BY <1>0, <1>9, <1>10
<1> HIDE DEF e, b
<1>12. /\ Least(e + 1, Len(h.text)) \in 0 .. Len(h.text)
       /\ b <= Least(e + 1, Len(h.text)) /\ b \in 0 .. Len(h.text)
  BY <1>0, <1>11 DEF Least
<1> QED BY <1>0, <1>7, <1>12 DEF e, b

LEMMA ObjectWordLooks ==
  ASSUME NEW h, IsHandle(h), NEW how, IsHow(how), NEW big, NEW around
  PROVE  Looks(h, object_word(h, how, big, around))
<1> DEFINE S == Offsets(h.text)
           count == count_of(how)
           here == span_at(h.text, h.cursor, big)
           End_(x) == span_at(h.text, x, big).to
           Given(f) == [n \in 1 .. count |-> IF n = 1 THEN here.to ELSE End_(f[n - 1])]
           next == [x \in S |-> End_(x)]
           first == here.to
<1>0. h.cursor \in Nat /\ h.text \in Seq(Token) /\ S \subseteq Nat
  BY CursorIs
<1>1. here.from \in S /\ first \in S
  BY <1>0, SpansAreInside
<1>2. \A x \in S : End_(x) \in S
  BY <1>0, SpansAreInside
<1>3. count \in Nat \ {0}
  BY CountIs
<1> HIDE DEF End_, S, here, first, count
<1>4. next \in [S -> S]
  BY <1>2
<1>5. PICK f : IteratesFromOne(f, count, S, first, next)
  <2> HIDE DEF next
  <2> QED BY <1>1, <1>3, <1>4, StepsFromOne
<1>6. f = Given(f)
  <2>1. /\ f \in [1 .. count -> S] /\ f[1] = first
        /\ \A i \in 1 .. count : i # 1 => f[i] = next[f[i - 1]]
    <3> HIDE DEF next
    <3> QED BY <1>5 DEF IteratesFromOne
  <2>2. \A i \in 1 .. count : i # 1 => f[i] = End_(f[i - 1])
    <3> TAKE i \in 1 .. count
    <3> HAVE i # 1
    <3>1. i - 1 \in 1 .. count
      BY <1>3
    <3> QED BY <2>1, <3>1
  <2>3. f = [n \in 1 .. count |-> f[n]]
    BY <2>1
  <2> HIDE DEF next
  <2> QED BY <2>1, <2>2, <2>3 DEF first
<1> DEFINE g == CHOOSE g : g = Given(g)
<1>7. g = Given(g)
  <2> HIDE DEF Given
  <2> QED BY <1>6
<1> DEFINE to == g[count]
           after == span_at(h.text, to, big)
           before == span_at(h.text, here.from - 1, big)
<1>8. object_word(h, how, big, around) =
        CASE around /\ BlankAt(h.text, to) -> selection_set(h, here.from, after.to)
          [] around /\ ~BlankAt(h.text, to) /\ here.from > 0
               /\ BlankAt(h.text, here.from - 1) -> selection_set(h, before.from, to)
          [] OTHER -> selection_set(h, here.from, to)
  BY Zenon DEF object_word, here, End_, count
<1> HIDE DEF g
<1>9. g[1] = first /\ \A i \in 1 .. count : i # 1 => g[i] = End_(g[i - 1])
  <2>1. 1 \in 1 .. count
    BY <1>3
  <2> QED BY <1>7, <2>1 DEF first
<1>10. to \in S
  <2>1. \A i \in 1 .. count : i # 1 /\ g[i - 1] \in S => g[i] \in S
    BY <1>2, <1>9
  <2>2. g[1] \in S
    BY <1>1, <1>9
  <2> QED BY <1>3, <2>1, <2>2, StaysInFromOne
<1> HIDE DEF to
<1>11. after.to \in Nat
  BY <1>0, <1>10, SpansAreInside DEF S
<1>12. here.from > 0 => before.from \in Nat
  <2> SUFFICES ASSUME here.from > 0 PROVE before.from \in Nat
    OBVIOUS
  <2>1. here.from - 1 \in Nat
    <3> DEFINE x == here.from
    <3>1. x \in Nat /\ x > 0
      BY <1>0, <1>1
    <3> HIDE DEF x
    <3>2. x - 1 \in Nat
      BY <3>1
    <3> QED BY <3>2 DEF x
  <2>2. before.from \in Offsets(h.text)
    <3> HIDE DEF S
    <3> QED BY <1>0, <2>1, SpansAreInside
  <2> QED BY <1>0, <2>2 DEF S
<1>13. here.from \in Nat /\ to \in Nat
  BY <1>0, <1>1, <1>10
<1> DEFINE x == here.from
           y == after.to
           z == before.from
           P == around /\ BlankAt(h.text, to)
           Q == around /\ ~BlankAt(h.text, to) /\ here.from > 0 /\ BlankAt(h.text, here.from - 1)
<1>14. \/ object_word(h, how, big, around) = selection_set(h, x, y)
       \/ x > 0 /\ object_word(h, how, big, around) = selection_set(h, z, to)
       \/ object_word(h, how, big, around) = selection_set(h, x, to)
  BY <1>8, Zenon
<1>15. y \in Nat /\ (x > 0 => z \in Nat) /\ x \in Nat
  BY <1>11, <1>12, <1>13
<1> HIDE DEF x, y, z
<1> QED BY <1>13, <1>14, <1>15, SelectionSet

-----------------------------------------------------------------------------
(* What writes: one replacement, and what it has killed.                   *)

LEMMA Writes ==
  ASSUME NEW h, IsHandle(h), NEW from \in Offsets(h.text), NEW to \in Offsets(h.text), from <= to,
         NEW with \in Seq(Token)
  PROVE  /\ Does(h, buffer_replace(h, from, to, with))
         /\ IsHandle(buffer_replace(h, from, to, with))
         /\ buffer_replace(h, from, to, with).t = h.t
         /\ buffer_replace(h, from, to, with).cursor = from + Len(with)
         /\ buffer_replace(h, from, to, with).text = replace(h.text, from, to, with)
         /\ Len(buffer_replace(h, from, to, with).text) = from + Len(with) + (Len(h.text) - to)
<1> DEFINE g == buffer_replace(h, from, to, with)
<1>1. Within(h.text, from, to, with)
  BY CursorIs DEF Within
<1>2. /\ Calm(h, g) /\ g.t = h.t /\ g.cursor = from + Len(with)
      /\ g.text = replace(h.text, from, to, with)
      /\ Len(g.text) = from + Len(with) + (Len(h.text) - to)
  BY <1>1, BufferReplaced
<1> HIDE DEF g
<1>3. KillFits(h, g)
  BY <1>2 DEF KillFits
<1> QED BY <1>2, <1>3 DEF Does, Calm, g

LEMMA EmptyIs == <<>> \in Seq(Token) /\ Len(<<>>) = 0
OBVIOUS

LEMMA ErasedDoes ==
  ASSUME NEW h, IsHandle(h), NEW from \in Offsets(h.text)
  PROVE  Does(h, delete_back_to(h, from))
<1>1. CASE h.cursor > from
  <2> DEFINE none == <<>>
  <2>1. none \in Seq(Token)
    BY EmptyIs
  <2>2. delete_back_to(h, from) = buffer_replace(h, from, h.cursor, none)
    BY <1>1 DEF delete_back_to, Erased
  <2>3. h.cursor \in Offsets(h.text) /\ from <= h.cursor
    BY <1>1, CursorIs
  <2> HIDE DEF none
  <2> QED BY <2>1, <2>2, <2>3, Writes
<1>2. CASE ~(h.cursor > from)
  <2>1. delete_back_to(h, from) = h
    BY <1>2 DEF delete_back_to, Erased
  <2> QED BY <2>1, LooksAlone, LooksDoes
<1> QED BY <1>1, <1>2

LEMMA KillDoes ==
  ASSUME NEW h, IsHandle(h), NEW from \in Offsets(h.text), NEW to \in Offsets(h.text)
  PROVE  Does(h, Kill(h, from, to))
<1>0. from \in Nat /\ to \in Nat
  BY CursorIs
<1>1. CASE from >= to
  <2>1. Kill(h, from, to) = h
    BY <1>1 DEF Kill
  <2> QED BY <2>1, LooksAlone, LooksDoes
<1>2. CASE ~(from >= to)
  <2> DEFINE no == FALSE
             cut == slice(h.text, from, to)
             k == kill_set(h, cut, no)
  <2>1. no \in BOOLEAN
    OBVIOUS
  <2>2. Kill(h, from, to) = buffer_replace(k, from, to, <<>>)
    BY <1>2, Zenon DEF Kill
  <2> HIDE DEF no
  <2>3. cut \in Seq(Token)
    BY CursorIs, CutIs
  <2> HIDE DEF cut
  <2>4. /\ IsHandle(k) /\ SameStage(h, k) /\ TextKept(k.t, h.t) /\ ModesKept(k.t, h.t)
        /\ k.t.kills.text = cut
    BY <2>1, <2>3, KillSet
  <2> HIDE DEF k
  <2>5. Calm(h, k) /\ k.text = h.text /\ Cut(k.t.kills.text, slice(h.text, from, to))
    BY <2>4 DEF Calm, SameStage, Cut, cut
  <2>6. from <= to
    BY <1>0, <1>2
  <2> QED BY <2>2, <2>5, <2>6, KillAndErase
<1> QED BY <1>1, <1>2

LEMMA FewIs ==
  ASSUME NEW h, IsHandle(h), NEW how, IsHow(how)
  PROVE  Few(h, how) \in Offsets(h.text) /\ h.cursor <= Few(h, how)
<1>1. count_of(how) \in Nat
  BY CountIs
<1>2. To(h, "end") \in h.cursor .. Len(h.text)
  BY LineAround
<1> DEFINE e == To(h, "end")
<1>3. e \in h.cursor .. Len(h.text)
  BY <1>2
<1>4. Few(h, how) = Least(h.cursor + count_of(how), e)
  BY DEF Few
<1> HIDE DEF e
<1> QED BY <1>1, <1>3, <1>4, CursorIs DEF Least

LEMMA KilledTo ==
  ASSUME NEW h, IsHandle(h), NEW to \in Offsets(h.text), h.cursor <= to, NEW no \in BOOLEAN
  PROVE  /\ Does(h, buffer_replace(kill_span(h, h.cursor, to, no), h.cursor, to, <<>>))
         /\ Does(h, kill_span(h, h.cursor, to, no))
<1> DEFINE k == kill_span(h, h.cursor, to, no)
<1>1. h.cursor \in Offsets(h.text)
  BY CursorIs
<1>2. Calm(h, k) /\ SameStage(h, k) /\ Cut(k.t.kills.text, slice(h.text, h.cursor, to))
  BY <1>1, KillSpan
<1> HIDE DEF k
<1>3. k.text = h.text
  BY <1>2 DEF SameStage
<1>4. Does(h, k)
  BY <1>2, <1>3 DEF Does, KillFits
<1>5. Does(h, buffer_replace(k, h.cursor, to, <<>>))
  BY <1>1, <1>2, <1>3, KillAndErase
<1> QED BY <1>4, <1>5 DEF k

LEMMA DeleteCharDoes ==
  ASSUME NEW h, IsHandle(h), NEW how, IsHow(how)
  PROVE  Does(h, vi_delete_char(h, how))
<1> DEFINE no == FALSE
           to == Few(h, how)
<1>1. no \in BOOLEAN
  OBVIOUS
<1>2. to \in Offsets(h.text) /\ h.cursor <= to
  BY FewIs
<1>3. vi_delete_char(h, how) =
        IF to = h.cursor THEN h
        ELSE buffer_replace(kill_span(h, h.cursor, to, no), h.cursor, to, <<>>)
  BY Zenon DEF vi_delete_char
<1> HIDE DEF no, to
<1>4. Does(h, buffer_replace(kill_span(h, h.cursor, to, no), h.cursor, to, <<>>))
  BY <1>1, <1>2, KilledTo
<1>5. Does(h, h)
  BY LooksAlone, LooksDoes
<1> QED BY <1>3, <1>4, <1>5, Zenon

LEMMA DeleteToEndDoes ==
  ASSUME NEW h, IsHandle(h)
  PROVE  Does(h, vi_delete_to_line_end(h))
<1> DEFINE no == FALSE
           to == To(h, "end")
<1>1. no \in BOOLEAN
  OBVIOUS
<1>2. to \in Offsets(h.text) /\ h.cursor <= to
  BY LineAround, CursorIs
<1>3. vi_delete_to_line_end(h) =
        IF to <= h.cursor THEN h
        ELSE buffer_replace(kill_span(h, h.cursor, to, no), h.cursor, to, <<>>)
  BY Zenon DEF vi_delete_to_line_end
<1> HIDE DEF no, to
<1>4. Does(h, buffer_replace(kill_span(h, h.cursor, to, no), h.cursor, to, <<>>))
  BY <1>1, <1>2, KilledTo
<1>5. Does(h, h)
  BY LooksAlone, LooksDoes
<1> QED BY <1>3, <1>4, <1>5, Zenon

LEMMA YankLineDoes ==
  ASSUME NEW h, IsHandle(h), NEW how, IsHow(how)
  PROVE  Does(h, vi_yank_line(h, how))
<1> DEFINE yes == TRUE
           s == line_span(h, count_of(how))
           k == kill_span(h, s.from, s.to, yes)
<1>1. yes \in BOOLEAN
  OBVIOUS
<1>2. vi_yank_line(h, how) = k
  BY Zenon DEF vi_yank_line
<1>3. s.from \in Offsets(h.text) /\ s.to \in Offsets(h.text)
  BY CountIs, LineSpan
<1> HIDE DEF yes, s
<1>4. Calm(h, k) /\ SameStage(h, k)
  BY <1>1, <1>3, KillSpan
<1> HIDE DEF k
<1> QED BY <1>2, <1>4 DEF Does, KillFits, SameStage

LEMMA ToggleDoes ==
  ASSUME NEW h, IsHandle(h), NEW how, IsHow(how)
  PROVE  Does(h, vi_toggle_case(h, how))
<1> DEFINE to == Few(h, how)
           cut == slice(h.text, h.cursor, to)
           with == [i \in DOMAIN cut |-> Toggled(cut[i])]
<1>1. to \in Offsets(h.text) /\ h.cursor <= to /\ h.cursor \in Offsets(h.text)
  BY FewIs, CursorIs
<1>2. vi_toggle_case(h, how) = IF cut = <<>> THEN h ELSE buffer_replace(h, h.cursor, to, with)
  BY DEF vi_toggle_case
<1>3. cut \in Seq(Token)
  BY <1>1, CursorIs, CutIs
<1> HIDE DEF cut, to
<1>4. \A token \in Token : Toggled(token) \in Token
  BY DEF Toggled, Token
<1>5. Len(cut) \in Nat /\ DOMAIN cut = 1 .. Len(cut) /\ \A i \in 1 .. Len(cut) : cut[i] \in Token
  BY <1>3
<1>6. [i \in 1 .. Len(cut) |-> Toggled(cut[i])] \in Seq(Token)
  BY <1>4, <1>5, IsASeq
<1>7. with \in Seq(Token)
  BY <1>5, <1>6
<1> HIDE DEF with
<1>8. Does(h, buffer_replace(h, h.cursor, to, with))
  BY <1>1, <1>7, Writes
<1> QED BY <1>2, <1>8, LooksAlone, LooksDoes

LEMMA OneBackLooks ==
  ASSUME NEW h, IsHandle(h)
  PROVE  Looks(h, OneBack(h))
<1>1. prev_boundary(h.text, h.cursor) \in Offsets(h.text)
  BY CursorIs DEF prev_boundary
<1> QED BY <1>1, CursorSet DEF OneBack

(* What was written, and then moved over                                   *)
LEMMA WritesAndLooks ==
  ASSUME NEW h, IsHandle(h), NEW from \in Offsets(h.text), NEW to \in Offsets(h.text), from <= to,
         NEW with \in Seq(Token), NEW g, Looks(buffer_replace(h, from, to, with), g)
  PROVE  Does(h, g)
<1> DEFINE w == buffer_replace(h, from, to, with)
<1>1. Does(h, w) /\ w.t = h.t
  BY Writes
<1> HIDE DEF w
<1>2. Looks(w, g)
  BY DEF w
<1>3. g.t.kills = h.t.kills
  BY <1>1, <1>2 DEF Looks
<1>4. Calm(h, g)
  BY <1>1, <1>2 DEF Does, Looks, Calm, TextKept, ModesKept
<1> QED BY <1>3, <1>4 DEF Does, KillFits

LEMMA YankDoes ==
  ASSUME NEW h, IsHandle(h), NEW how, IsHow(how)
  PROVE  Does(h, yank(h, how)) /\ Does(h, self_insert(h, how))
<1> DEFINE text == Times(h.t.kills.text, count_of(how))
<1>1. h.t.kills.text \in Seq(Token)
  BY DEF IsHandle, IsKept, IsKill
<1>2. text \in Seq(Token)
  BY <1>1, CountIs, TimesIs
<1>3. yank(h, how) = IF text = <<>> THEN h ELSE buffer_replace(h, h.cursor, h.cursor, text)
  BY DEF yank
<1> HIDE DEF text
<1>4. h.cursor \in Offsets(h.text) /\ h.cursor <= h.cursor
  BY CursorIs
<1>5. Does(h, buffer_replace(h, h.cursor, h.cursor, text))
  BY <1>2, <1>4, Writes
<1>6. how.keys \in Seq(Token)
  BY DEF IsHow
<1>7. Does(h, buffer_replace(h, h.cursor, h.cursor, how.keys))
  BY <1>4, <1>6, Writes
<1>8. Does(h, h)
  BY LooksAlone, LooksDoes
<1> QED BY <1>3, <1>5, <1>7, <1>8 DEF self_insert

-----------------------------------------------------------------------------
(* What turns to another keymap: layers and an operator of its own, with   *)
(* the text and the kill as they were (Turns), or as Does says (Turned).   *)

Turned(h, g, layers, operator) ==
  /\ IsHandle(g) /\ TextKept(g.t, h.t) /\ KillFits(h, g)
  /\ g.t.layers = layers /\ g.t.operator = operator /\ g.t.pager = h.t.pager
Turns(h, g, layers, operator) ==
  /\ IsHandle(g) /\ TextKept(g.t, h.t)
  /\ g.t.layers = layers /\ g.t.operator = operator /\ g.t.pager = h.t.pager
  /\ g.text = h.text /\ g.t.kills = h.t.kills

LEMMA LooksTurns ==
  ASSUME NEW h, NEW g, Looks(h, g)
  PROVE  Turns(h, g, h.t.layers, h.t.operator)
BY DEF Looks, Calm, Turns, ModesKept

LEMMA TurnsTurned ==
  ASSUME NEW h, NEW g, NEW layers, NEW operator, Turns(h, g, layers, operator)
  PROVE  Turned(h, g, layers, operator)
BY DEF Turns, Turned, KillFits

LEMMA DoesTurned ==
  ASSUME NEW h, NEW g, Does(h, g)
  PROVE  Turned(h, g, h.t.layers, h.t.operator)
BY DEF Does, Calm, Turned, ModesKept

LEMMA SwitchedTurned ==
  ASSUME NEW h, NEW g, NEW name, Switched(h, g, name)
  PROVE  Turned(h, g, <<name>>, "")
BY DEF Switched, Turned

LEMMA TurnsOn ==
  ASSUME NEW h, NEW g, NEW k, NEW la, NEW oa, NEW lb, NEW ob,
         Turns(h, g, la, oa), Turns(g, k, lb, ob)
  PROVE  Turns(h, k, lb, ob)
BY DEF Turns, TextKept

LEMMA TurnsThenTurned ==
  ASSUME NEW h, NEW g, NEW k, NEW la, NEW oa, NEW lb, NEW ob,
         Turns(h, g, la, oa), Turned(g, k, lb, ob)
  PROVE  Turned(h, k, lb, ob)
<1>1. KillFits(h, k)
  BY DEF Turns, Turned, KillFits
<1> QED BY <1>1 DEF Turns, Turned, TextKept

LEMMA TurnsThenLooks ==
  ASSUME NEW h, NEW g, NEW k, NEW la, NEW oa, Turns(h, g, la, oa), Looks(g, k)
  PROVE  Turns(h, k, la, oa)
<1>1. Turns(g, k, g.t.layers, g.t.operator)
  BY LooksTurns
<1>2. g.t.layers = la /\ g.t.operator = oa
  BY DEF Turns
<1> QED BY <1>1, <1>2, TurnsOn

LEMMA TurnsThenDoes ==
  ASSUME NEW h, NEW g, NEW k, NEW la, NEW oa, Turns(h, g, la, oa), Does(g, k)
  PROVE  Turned(h, k, la, oa)
<1>1. Turned(g, k, g.t.layers, g.t.operator)
  BY DoesTurned
<1>2. g.t.layers = la /\ g.t.operator = oa
  BY DEF Turns
<1> QED BY <1>1, <1>2, TurnsThenTurned

LEMMA PopTurns ==
  ASSUME NEW h, IsHandle(h), Len(h.t.layers) > 1
  PROVE  Turns(h, keymap_pop(h), Front(h.t.layers), h.t.operator)
<1> DEFINE g == keymap_pop(h)
<1>1. /\ IsHandle(g) /\ SameStage(h, g) /\ TextKept(g.t, h.t)
      /\ g.t.layers = Front(h.t.layers) /\ g.t.operator = h.t.operator
      /\ g.t.pager = h.t.pager /\ g.t.kills = h.t.kills
  BY Popped
<1> HIDE DEF g
<1> QED BY <1>1 DEF Turns, SameStage, g

LEMMA PushTurns ==
  ASSUME NEW h, IsHandle(h), NEW name \in Layers
  PROVE  Turns(h, keymap_push(h, name), Append(h.t.layers, name), h.t.operator)
<1> DEFINE g == keymap_push(h, name)
<1>1. /\ IsHandle(g) /\ SameStage(h, g) /\ TextKept(g.t, h.t)
      /\ g.t.layers = Append(h.t.layers, name) /\ g.t.operator = h.t.operator
      /\ g.t.pager = h.t.pager /\ g.t.kills = h.t.kills
  BY Pushed
<1> HIDE DEF g
<1> QED BY <1>1 DEF Turns, SameStage, g

LEMMA CountTurns ==
  ASSUME NEW h, IsHandle(h), NEW value \in Nat
  PROVE  Turns(h, count_set(h, value), h.t.layers, h.t.operator)
<1> DEFINE g == count_set(h, value)
<1>1. /\ IsHandle(g) /\ SameStage(h, g) /\ TextKept(g.t, h.t)
      /\ g.t.layers = h.t.layers /\ g.t.operator = h.t.operator
      /\ g.t.pager = h.t.pager /\ g.t.kills = h.t.kills
  BY CountSet
<1> HIDE DEF g
<1> QED BY <1>1 DEF Turns, SameStage, g

LEMMA ArmTurns ==
  ASSUME NEW h, IsHandle(h), NEW kind \in Finds
  PROVE  Turns(h, arm_find(h, kind), Append(h.t.layers, "vi_find_char"), h.t.operator)
<1> DEFINE k == [h EXCEPT !.t.arming = kind]
           name == "vi_find_char"
<1>1. /\ IsHandle(k) /\ SameStage(h, k) /\ TextKept(k.t, h.t)
      /\ k.t.layers = h.t.layers /\ k.t.operator = h.t.operator
      /\ k.t.pager = h.t.pager /\ k.t.kills = h.t.kills
  BY ArmingSet
<1>2. arm_find(h, kind) = keymap_push(k, name)
  BY Zenon DEF arm_find
<1>3. name \in Layers
  BY DEF Layers
<1> HIDE DEF k, name
<1>4. Turns(h, k, h.t.layers, h.t.operator)
  BY <1>1 DEF Turns, SameStage
<1>5. Turns(k, keymap_push(k, name), Append(h.t.layers, name), h.t.operator)
  BY <1>1, <1>3, PushTurns
<1>6. Turns(h, keymap_push(k, name), Append(h.t.layers, name), h.t.operator)
  BY <1>4, <1>5, TurnsOn
<1> QED BY <1>2, <1>6 DEF name

LEMMA AbortTurns ==
  ASSUME NEW h, IsHandle(h), h.t.operator # "", Len(h.t.layers) > 1
  PROVE  Turns(h, abort_operator(h), Front(h.t.layers), "")
<1> DEFINE none == ""
           k == [h EXCEPT !.t.operator = none]
<1>0. none \in Verbs \cup {""}
  OBVIOUS
<1>1. abort_operator(h) = keymap_pop(k)
  BY DEF abort_operator, operator_is_pending
<1> HIDE DEF none
<1>2. /\ IsHandle(k) /\ SameStage(h, k) /\ TextKept(k.t, h.t)
      /\ k.t.layers = h.t.layers /\ k.t.operator = none
      /\ k.t.pager = h.t.pager /\ k.t.kills = h.t.kills
  BY <1>0, OperatorSet
<1> HIDE DEF k
<1>3. Turns(h, k, h.t.layers, none)
  BY <1>2 DEF Turns, SameStage
<1>4. Turns(k, keymap_pop(k), Front(h.t.layers), none)
  BY <1>2, PopTurns
<1> HIDE DEF none
<1>5. Turns(h, keymap_pop(k), Front(h.t.layers), none)
  BY <1>3, <1>4 DEF Turns, TextKept
<1> QED BY <1>1, <1>5 DEF none

LEMMA AbortOfNone ==
  ASSUME NEW h, h.t.operator = ""
  PROVE  abort_operator(h) = h
BY DEF abort_operator, operator_is_pending

LEMMA TurnsNowhere ==
  ASSUME NEW h, IsHandle(h)
  PROVE  Turns(h, h, h.t.layers, h.t.operator)
BY LooksAlone, LooksTurns

(* The character of a find: its layer is popped, and the operator that     *)
(* waited for it is aborted or goes on                                     *)
(* An operator has its layer below the one that waits for a character      *)
Deeper(h) == h.t.operator # "" => Len(Front(h.t.layers)) > 1

LEMMA TargetTurns ==
  ASSUME NEW h, IsHandle(h), NEW how, IsHow(how), Len(h.t.layers) > 1, Deeper(h)
  PROVE  \/ Turns(h, vi_find_char_target(h, how), Front(h.t.layers), h.t.operator)
         \/ /\ h.t.operator # ""
            /\ Turns(h, vi_find_char_target(h, how), Front(Front(h.t.layers)), "")
<1> DEFINE none == ""
           p == keymap_pop(h)
           popped == [p EXCEPT !.t.arming = none]
           aimed == [popped EXCEPT !.t.target = how.keys, !.t.last_find = h.t.arming]
           found == perform_find(aimed, h.t.arming, count_of(how))
<1>0. none \in Finds \cup {""}
  OBVIOUS
<1>1. vi_find_char_target(h, how) =
        IF how.keys = <<>> \/ h.t.arming = "" THEN abort_operator(popped) ELSE found
  BY DEF vi_find_char_target
<1>2. Turns(h, p, Front(h.t.layers), h.t.operator)
  BY PopTurns
<1> HIDE DEF none, p
<1>3. IsHandle(p)
  BY <1>2 DEF Turns
<1>4. /\ IsHandle(popped) /\ SameStage(p, popped) /\ TextKept(popped.t, p.t)
      /\ popped.t.layers = p.t.layers /\ popped.t.operator = p.t.operator
      /\ popped.t.pager = p.t.pager /\ popped.t.kills = p.t.kills
  BY <1>0, <1>3, ArmingSet
<1> HIDE DEF popped
<1>5. Turns(h, popped, Front(h.t.layers), h.t.operator)
  BY <1>2, <1>4 DEF Turns, SameStage, TextKept
<1>6. CASE how.keys = <<>> \/ h.t.arming = ""
  <2>1. CASE h.t.operator = ""
    <3>1. abort_operator(popped) = popped
      BY <1>5, <2>1, AbortOfNone DEF Turns
    <3> QED BY <1>1, <1>5, <1>6, <3>1
  <2>2. CASE h.t.operator # ""
    <3>1. /\ IsHandle(popped) /\ popped.t.operator # "" /\ popped.t.layers = Front(h.t.layers)
          /\ Len(popped.t.layers) > 1
      BY <1>5, <2>2 DEF Turns, Deeper
    <3>2. Turns(popped, abort_operator(popped), Front(popped.t.layers), "")
      BY <3>1, AbortTurns
    <3>3. Turns(h, abort_operator(popped), Front(Front(h.t.layers)), "")
      <4> DEFINE k == abort_operator(popped)
      <4> HIDE DEF k
      <4> QED BY <1>5, <3>1, <3>2 DEF Turns, TextKept, k
    <3> QED BY <1>1, <1>6, <2>2, <3>3
  <2> QED BY <2>1, <2>2
<1>7. CASE ~(how.keys = <<>> \/ h.t.arming = "")
  <2>1. how.keys \in Seq(Token) /\ h.t.arming \in Finds
    BY <1>7 DEF IsHow, IsHandle, IsKept
  <2> DEFINE what == how.keys
             kind == h.t.arming
  <2>2. /\ IsHandle(aimed) /\ SameStage(popped, aimed) /\ TextKept(aimed.t, popped.t)
        /\ aimed.t.layers = popped.t.layers /\ aimed.t.operator = popped.t.operator
        /\ aimed.t.pager = popped.t.pager /\ aimed.t.kills = popped.t.kills
    <3>1. what \in Seq(Token) /\ kind \in Finds
      BY <2>1
    <3>2. aimed = Aimed(popped, what, kind)
      BY DEF Aimed
    <3> HIDE DEF aimed, what, kind, found
    <3>3. IsHandle(popped)
      BY <1>4
    <3> QED BY <3>1, <3>2, <3>3, TargetSet
  <2> HIDE DEF aimed
  <2>3. Turns(h, aimed, Front(h.t.layers), h.t.operator)
    BY <1>5, <2>2 DEF Turns, SameStage, TextKept
  <2>4. Looks(aimed, found)
    BY <2>2, CountIs, FindLooks
  <2> HIDE DEF found
  <2>5. Turns(h, found, Front(h.t.layers), h.t.operator)
    BY <2>3, <2>4, TurnsThenLooks
  <2> QED BY <1>1, <1>7, <2>5
<1> QED BY <1>6, <1>7

LEMMA DigitTurns ==
  ASSUME NEW h, IsHandle(h), NEW how, IsHow(how),
         \E d \in 0 .. 9 : Digits[d + 1] = last_key_byte(how)
  PROVE  Turns(h, vi_digit_argument(h, how), h.t.layers, h.t.operator)
<1> DEFINE d == CHOOSE d \in 0 .. 9 : Digits[d + 1] = last_key_byte(how)
           value == how.count * 10 + d
           most == IF value > Ceiling THEN Ceiling ELSE value
<1>1. d \in 0 .. 9
  <2> HIDE DEF Digits, last_key_byte
  <2> QED OBVIOUS
<1>2. vi_digit_argument(h, how) = count_set(h, most)
  BY DEF vi_digit_argument
<1> HIDE DEF d
<1>3. most \in Nat
  BY <1>1, EditorAssumption DEF IsHow
<1> HIDE DEF most
<1> QED BY <1>2, <1>3, CountTurns

LEMMA StartTurns ==
  ASSUME NEW h, IsHandle(h), NEW how, IsHow(how), NEW verb \in Verbs
  PROVE  Turns(h, start_operator(h, how, verb), Append(h.t.layers, "vi_operator_pending"), verb)
<1> DEFINE value == how.count
           c == count_set(h, value)
           k == [c EXCEPT !.t.operator = verb]
           name == "vi_operator_pending"
<1>0. value \in Nat /\ name \in Layers /\ verb \in Verbs \cup {""}
  BY DEF IsHow, Layers
<1>1. start_operator(h, how, verb) = keymap_push(k, name)
  BY DEF start_operator, count_set, IsHandle, HandleFields, IsKept, StateFields
<1> HIDE DEF value, name
<1>2. Turns(h, c, h.t.layers, h.t.operator)
  BY <1>0, CountTurns
<1> HIDE DEF c
<1>3. IsHandle(c)
  BY <1>2 DEF Turns
<1>4. /\ IsHandle(k) /\ SameStage(c, k) /\ TextKept(k.t, c.t)
      /\ k.t.layers = c.t.layers /\ k.t.operator = verb
      /\ k.t.pager = c.t.pager /\ k.t.kills = c.t.kills
  BY <1>0, <1>3, OperatorSet
<1> HIDE DEF k
<1>5. Turns(h, k, h.t.layers, verb)
  BY <1>2, <1>4 DEF Turns, SameStage, TextKept
<1>6. Turns(k, keymap_push(k, name), Append(h.t.layers, name), verb)
  BY <1>0, <1>4, <1>5, PushTurns DEF Turns
<1>7. Turns(h, keymap_push(k, name), Append(h.t.layers, name), verb)
  BY <1>5, <1>6 DEF Turns, TextKept
<1> QED BY <1>1, <1>7 DEF name

(* What is chosen for an operator, or aborts it                            *)
Chooses(h, g) ==
  \/ Turns(h, g, h.t.layers, h.t.operator)
  \/ h.t.operator # "" /\ Turns(h, g, Front(h.t.layers), "")

(* An operator has its layer above the mode                                *)
Deep(h) == h.t.operator # "" => Len(h.t.layers) > 1

LEMMA AbortChooses ==
  ASSUME NEW h, IsHandle(h), Deep(h)
  PROVE  Chooses(h, abort_operator(h))
<1>1. CASE h.t.operator = ""
  BY <1>1, AbortOfNone, TurnsNowhere DEF Chooses
<1>2. CASE h.t.operator # ""
  BY <1>2, AbortTurns DEF Chooses, Deep
<1> QED BY <1>1, <1>2

LEMMA LooksChooses ==
  ASSUME NEW h, NEW g, Looks(h, g)
  PROVE  Chooses(h, g)
BY LooksTurns DEF Chooses

LEMMA LineObjectChooses ==
  ASSUME NEW h, IsHandle(h), NEW how, IsHow(how), Deep(h)
  PROVE  Chooses(h, vi_line_object(h, how))
<1> DEFINE doubled == [d |-> "vi_delete", c |-> "vi_change", y |-> "vi_yank"]
           is == h.t.operator # doubled[last_key_byte(how)]
           s == line_span(h, count_of(how))
           yes == TRUE
           k == [h EXCEPT !.t.span_is_line = yes]
           g == selection_set(k, s.from, s.to)
<1>0. yes \in BOOLEAN
  OBVIOUS
<1>1. vi_line_object(h, how) =
        IF h.t.operator = "" THEN h ELSE IF is THEN abort_operator(h) ELSE g
  BY Zenon DEF vi_line_object
<1> HIDE DEF is, yes
<1>2. s.from \in Offsets(h.text) /\ s.to \in Offsets(h.text)
  BY CountIs, LineSpan
<1> HIDE DEF s
<1>3. s.from \in Nat /\ s.to \in Nat
  BY <1>2, CursorIs
<1>4. /\ IsHandle(k) /\ SameStage(h, k) /\ TextKept(k.t, h.t)
      /\ k.t.layers = h.t.layers /\ k.t.operator = h.t.operator
      /\ k.t.pager = h.t.pager /\ k.t.kills = h.t.kills
  BY <1>0, LineSet
<1> HIDE DEF k
<1>5. Turns(h, k, h.t.layers, h.t.operator)
  BY <1>4 DEF Turns, SameStage
<1>6. Looks(k, g)
  BY <1>3, <1>4, SelectionSet
<1> HIDE DEF g
<1>7. Turns(h, g, h.t.layers, h.t.operator)
  BY <1>5, <1>6, TurnsThenLooks
<1>8. Chooses(h, g)
  BY <1>7 DEF Chooses
<1>9. Chooses(h, h)
  BY LooksAlone, LooksChooses
<1> QED BY <1>1, <1>8, <1>9, AbortChooses

LEMMA PairChooses ==
  ASSUME NEW h, IsHandle(h), NEW how, Deep(h), NEW around
  PROVE  Chooses(h, object_pair(h, how, around))
<1> DEFINE pair == pair_for(last_key_byte(how))
           spans == match_pair_in(h.text, h.cursor, pair[1], pair[2])
           s == CHOOSE x \in spans : TRUE
<1>1. object_pair(h, how, around) =
        IF spans = {} THEN abort_operator(h)
        ELSE IF around THEN selection_set(h, s.from, s.to)
                       ELSE selection_set(h, s.from + 1, s.to - 1)
  BY DEF object_pair
<1>2. CASE spans = {}
  BY <1>1, <1>2, AbortChooses
<1>3. CASE spans # {}
  <2>1. s \in spans
    BY <1>3
  <2>2. h.text \in Seq(Token) /\ h.cursor \in Offsets(h.text)
    BY CursorIs
  <2> HIDE DEF pair
  <2> HIDE DEF s
  <2>4. s.from \in Nat /\ s.to \in Nat /\ s.to - 1 \in Nat /\ s.from + 1 \in Nat
    BY <2>1, <2>2, PairsAreSpans
  <2> HIDE DEF spans
  <2>5. Looks(h, selection_set(h, s.from, s.to)) /\ Looks(h, selection_set(h, s.from + 1, s.to - 1))
    BY <2>4, SelectionSet
  <2> QED BY <1>1, <1>3, <2>5, LooksChooses DEF spans
<1> QED BY <1>2, <1>3

LEMMA ReplaceTurned ==
  ASSUME NEW h, IsHandle(h), NEW how, IsHow(how), Len(h.t.layers) > 1
  PROVE  Turned(h, vi_replace_char_with(h, how), Front(h.t.layers), h.t.operator)
<1> DEFINE p == keymap_pop(h)
           n == count_of(how)
           to == h.cursor + n
           with == Times(how.keys, n)
           w == buffer_replace(p, h.cursor, to, with)
<1>1. vi_replace_char_with(h, how) =
        IF how.keys = <<>> \/ to > To(h, "end") THEN p ELSE OneBack(w)
  BY DEF vi_replace_char_with
<1>2. Turns(h, p, Front(h.t.layers), h.t.operator)
  BY PopTurns
<1>3. p.cursor = h.cursor
  BY Popped DEF SameStage
<1> HIDE DEF p
<1>4. IsHandle(p) /\ p.text = h.text
  BY <1>2 DEF Turns
<1>5. n \in Nat \ {0}
  BY CountIs
<1>6. with \in Seq(Token)
  BY <1>5, TimesIs DEF IsHow
<1> HIDE DEF n, with
<1>7. CASE how.keys = <<>> \/ to > To(h, "end")
  BY <1>1, <1>2, <1>7, TurnsTurned
<1>8. CASE ~(how.keys = <<>> \/ to > To(h, "end"))
  <2>1. To(h, "end") \in h.cursor .. Len(h.text)
    BY LineAround
  <2>2. h.cursor \in Offsets(p.text) /\ to \in Offsets(p.text) /\ h.cursor <= to
    BY <1>4, <1>5, <1>8, <2>1, CursorIs
  <2>3. IsHandle(w)
    BY <1>4, <1>6, <2>2, Writes
  <2>4. Looks(w, OneBack(w))
    BY <2>3, OneBackLooks
  <2>5. Does(p, OneBack(w))
    BY <1>4, <1>6, <2>2, <2>4, WritesAndLooks
  <2> HIDE DEF w
  <2>6. Turned(h, OneBack(w), Front(h.t.layers), h.t.operator)
    BY <1>2, <2>5, TurnsThenDoes
  <2> QED BY <1>1, <1>8, <2>6
<1> QED BY <1>7, <1>8

-----------------------------------------------------------------------------
(* Into insert mode and out of it, and the selection of visual mode.       *)

LEMMA NewlineIs == <<NL>> \in Seq(Token) /\ Len(<<NL>>) = 1
<1>1. NL \in Token
  BY DEF Token
<1> QED BY <1>1

LEMMA Longer ==
  ASSUME NEW at \in Nat, NEW more \in Nat, NEW all \in Nat, at <= all,
         NEW long, long = at + more + (all - at), NEW to \in Nat, to <= at + more
  PROVE  long \in Nat /\ to <= long
OBVIOUS

LEMMA OpensDoes ==
  ASSUME NEW h, IsHandle(h), NEW at \in Offsets(h.text)
  PROVE  /\ Does(h, buffer_replace(h, at, at, <<NL>>))
         /\ Does(h, cursor_set(buffer_replace(h, at, at, <<NL>>), at))
<1> DEFINE nl == <<NL>>
           w == buffer_replace(h, at, at, nl)
<1>1. nl \in Seq(Token) /\ Len(nl) = 1
  BY NewlineIs
<1> HIDE DEF nl
<1>2. at <= at /\ at \in 0 .. Len(h.text) /\ Len(h.text) \in Nat
  BY CursorIs
<1>3. Does(h, w) /\ IsHandle(w) /\ Len(w.text) = at + 1 + (Len(h.text) - at)
  BY <1>1, <1>2, Writes
<1>4. at \in Offsets(w.text)
  <2> HIDE DEF w
  <2> DEFINE long == Len(w.text)
             all == Len(h.text)
  <2>0. at \in Nat /\ all \in Nat /\ at <= all /\ 1 \in Nat /\ at <= at + 1
    BY <1>2
  <2>1. long = at + 1 + (all - at)
    BY <1>3
  <2> HIDE DEF long, all
  <2>2. long \in Nat /\ at <= long
    BY <2>0, <2>1, Longer
  <2> QED BY <2>0, <2>2 DEF Offsets, long
<1>5. Looks(w, cursor_set(w, at))
  BY <1>3, <1>4, CursorSet
<1>6. Does(h, cursor_set(w, at))
  BY <1>1, <1>2, <1>5, WritesAndLooks
<1> QED BY <1>3, <1>6 DEF w, nl

InsertModes == {"vi_insert_mode", "vi_insert_at_line_start", "vi_append", "vi_append_at_line_end",
                "vi_open_below", "vi_open_above"}

LEMMA InsertSwitches ==
  ASSUME NEW h, IsHandle(h), NEW name \in InsertModes
  PROVE  Switched(h, vi_insert_at(h, name), "vi_insert")
<1> DEFINE begin == To(h, "start")
           end == To(h, "end")
           there == CASE name = "vi_insert_mode" -> h
                      [] name = "vi_insert_at_line_start" -> cursor_set(h, To(h, "nonblank"))
                      [] name = "vi_append" ->
                           IF h.cursor < end THEN cursor_set(h, To(h, "next")) ELSE h
                      [] name = "vi_append_at_line_end" -> cursor_set(h, end)
                      [] name = "vi_open_below" -> buffer_replace(h, end, end, <<NL>>)
                      [] name = "vi_open_above" ->
                           cursor_set(buffer_replace(h, begin, begin, <<NL>>), begin)
<1>1. /\ begin \in Offsets(h.text) /\ end \in Offsets(h.text)
      /\ To(h, "nonblank") \in Offsets(h.text) /\ To(h, "next") \in Offsets(h.text)
  BY ToIsInside DEF Motions
<1>2. vi_insert_at(h, name) = mode_set(there, "vi_insert")
  BY Zenon DEF vi_insert_at
<1>3. Does(h, h)
  BY LooksAlone, LooksDoes
<1>4. /\ Does(h, cursor_set(h, end)) /\ Does(h, cursor_set(h, To(h, "nonblank")))
      /\ Does(h, cursor_set(h, To(h, "next")))
  BY <1>1, CursorSet, LooksDoes
<1>5. /\ Does(h, buffer_replace(h, end, end, <<NL>>))
      /\ Does(h, cursor_set(buffer_replace(h, begin, begin, <<NL>>), begin))
  BY <1>1, OpensDoes
<1> HIDE DEF begin, end
<1>6. Does(h, there)
  BY <1>3, <1>4, <1>5 DEF InsertModes
<1> DEFINE mode_ == "vi_insert"
<1>7. mode_ \in Layers
  BY DEF Layers
<1> HIDE DEF there, mode_
<1>8. Switched(h, mode_set(there, mode_), mode_)
  BY <1>6, <1>7, DoesThenSwitches
<1> QED BY <1>2, <1>8 DEF mode_

LEMMA CommandSwitches ==
  ASSUME NEW h, IsHandle(h)
  PROVE  Switched(h, vi_command_mode(h), "vi_command")
<1> DEFINE name == "vi_command"
           left == mode_set(h, name)
           is == h.cursor > To(h, "start")
           at == To(h, "prev")
           k == cursor_set(left, at)
<1>1. vi_command_mode(h) = IF is THEN k ELSE left
  BY Zenon DEF vi_command_mode
<1>2. at \in Offsets(h.text)
  BY ToIsInside DEF Motions
<1>3. name \in Layers
  BY DEF Layers
<1>4. Does(h, h)
  BY LooksAlone, LooksDoes
<1> HIDE DEF is, name, at
<1>5. Switched(h, left, name)
  BY <1>3, <1>4, DoesThenSwitches
<1>6. left.text = h.text /\ left.t.kills = h.t.kills /\ IsHandle(left)
  BY <1>3, ModeSet DEF SameStage
<1> HIDE DEF left
<1>7. Looks(left, k)
  BY <1>2, <1>6, CursorSet
<1>8. KillFits(h, k)
  BY <1>6, <1>7 DEF KillFits, Looks
<1>9. Switched(h, k, name)
  BY <1>5, <1>7, <1>8 DEF Switched, Looks, Calm, TextKept, ModesKept
<1> QED BY <1>1, <1>5, <1>9 DEF name

LEMMA VisualTurns ==
  ASSUME NEW h, IsHandle(h)
  PROVE  Turns(h, vi_visual_mode(h), Append(h.t.layers, "vi_visual"), h.t.operator)
<1> DEFINE s == selection_set(h, h.cursor, h.cursor)
           name == "vi_visual"
<1>1. vi_visual_mode(h) = keymap_push(s, name)
  BY Zenon DEF vi_visual_mode
<1>2. name \in Layers
  BY DEF Layers
<1>3. Looks(h, s) /\ s.t = h.t
  BY CursorIs, SelectionSet
<1> HIDE DEF s, name
<1>4. Turns(h, s, h.t.layers, h.t.operator)
  BY <1>3, LooksTurns
<1>5. IsHandle(s) /\ s.t.layers = h.t.layers /\ s.t.operator = h.t.operator
  BY <1>4 DEF Turns
<1>6. Turns(s, keymap_push(s, name), Append(h.t.layers, name), h.t.operator)
  BY <1>2, <1>5, PushTurns
<1>7. Turns(h, keymap_push(s, name), Append(h.t.layers, name), h.t.operator)
  BY <1>4, <1>6, TurnsOn
<1> QED BY <1>1, <1>7 DEF name

LEMMA LooksThenPops ==
  ASSUME NEW h, NEW s, Looks(h, s), Len(h.t.layers) > 1
  PROVE  Turns(h, keymap_pop(s), Front(h.t.layers), h.t.operator)
<1>1. Turns(h, s, h.t.layers, h.t.operator)
  BY LooksTurns
<1>2. IsHandle(s) /\ s.t.layers = h.t.layers /\ s.t.operator = h.t.operator
  BY <1>1 DEF Turns
<1>3. Turns(s, keymap_pop(s), Front(h.t.layers), h.t.operator)
  BY <1>2, PopTurns
<1> QED BY <1>1, <1>3, TurnsOn

LEMMA VisualExitTurns ==
  ASSUME NEW h, IsHandle(h), Len(h.t.layers) > 1
  PROVE  Turns(h, vi_visual_exit(h), Front(h.t.layers), h.t.operator)
<1>1. Looks(h, selection_clear(h))
  BY SelectionCleared
<1> QED BY <1>1, LooksThenPops DEF vi_visual_exit

LEMMA VisualFinishTurns ==
  ASSUME NEW h, IsHandle(h), Len(h.t.layers) > 1
  PROVE  Turns(h, visual_finish(h), Front(h.t.layers), h.t.operator)
<1> DEFINE s == selection_get(h)
           to == next_boundary(h.text, s.to)
           k == IF h.live THEN selection_set(h, s.from, to) ELSE h
<1>1. visual_finish(h) = keymap_pop(k)
  BY Zenon DEF visual_finish
<1>2. s.from \in Offsets(h.text) /\ s.to \in Offsets(h.text)
  BY SelectionIs
<1> HIDE DEF s
<1>3. s.from \in Nat /\ to \in Nat
  BY <1>2, CursorIs DEF next_boundary
<1> HIDE DEF to
<1>4. Looks(h, selection_set(h, s.from, to)) /\ Looks(h, h)
  BY <1>3, SelectionSet, LooksAlone
<1>5. Looks(h, k)
  BY <1>4
<1> HIDE DEF k
<1> QED BY <1>1, <1>5, LooksThenPops

LEMMA SwapLooks ==
  ASSUME NEW h, IsHandle(h)
  PROVE  Looks(h, vi_visual_swap_ends(h))
<1> DEFINE s == selection_get(h)
<1>1. vi_visual_swap_ends(h) =
        IF ~h.live THEN h
        ELSE IF h.cursor = s.to THEN selection_set(h, s.to, s.from)
                                ELSE selection_set(h, s.from, s.to)
  BY DEF vi_visual_swap_ends
<1>2. s.from \in Offsets(h.text) /\ s.to \in Offsets(h.text)
  BY SelectionIs
<1> HIDE DEF s
<1>3. s.from \in Nat /\ s.to \in Nat
  BY <1>2, CursorIs
<1>4. /\ Looks(h, selection_set(h, s.to, s.from)) /\ Looks(h, selection_set(h, s.from, s.to))
      /\ Looks(h, h)
  BY <1>3, SelectionSet, LooksAlone
<1> QED BY <1>1, <1>4, Zenon

LEMMA RepeatLooks ==
  ASSUME NEW h, IsHandle(h)
  PROVE  Looks(h, vi_repeat(h))
<1> DEFINE more == h.pushed \o h.t.record.keys
           g == [h EXCEPT !.pushed = more]
<1>1. more \in Seq(Token)
  BY ConcatProperties DEF IsHandle, IsKept
<1> HIDE DEF more
<1>2. /\ DOMAIN g = HandleFields /\ g.t = h.t /\ g.text = h.text /\ g.cursor = h.cursor
      /\ g.anchor = h.anchor /\ g.live = h.live /\ g.wrote = h.wrote /\ g.moved = h.moved
      /\ g.chose = h.chose /\ g.pushed = more /\ g.outcome = h.outcome
  BY DEF IsHandle, HandleFields
<1>3. vi_repeat(h) = IF replayable(h.t) THEN g ELSE h
  BY DEF vi_repeat, more
<1> HIDE DEF g
<1>4. Looks(h, g)
  BY <1>1, <1>2 DEF IsHandle, Looks, Calm, TextKept, ModesKept
<1> QED BY <1>3, <1>4, LooksAlone

LEMMA OutcomeLooks ==
  ASSUME NEW h, IsHandle(h), NEW outcome \in Asks
  PROVE  Looks(h, [h EXCEPT !.outcome = outcome])
<1> DEFINE g == [h EXCEPT !.outcome = outcome]
<1>1. /\ DOMAIN g = HandleFields /\ g.t = h.t /\ g.text = h.text /\ g.cursor = h.cursor
      /\ g.anchor = h.anchor /\ g.live = h.live /\ g.wrote = h.wrote /\ g.moved = h.moved
      /\ g.chose = h.chose /\ g.pushed = h.pushed /\ g.outcome = outcome
  BY DEF IsHandle, HandleFields
<1> HIDE DEF g
<1>2. Looks(h, g)
  BY <1>1 DEF IsHandle, Looks, Calm, TextKept, ModesKept
<1> QED BY <1>2 DEF g

LEMMA AcceptLineDoes ==
  ASSUME NEW h, IsHandle(h)
  PROVE  Does(h, accept_line(h)) /\ Looks(h, end_of_file(h)) /\ Looks(h, [h EXCEPT !.outcome = "cancel_line"])
<1> DEFINE a == "accept_line"
           e == "end_of_file"
           c == "cancel_line"
<1>1. a \in Asks /\ e \in Asks /\ c \in Asks
  BY DEF Asks
<1>2. /\ accept_line(h) = IF LineIsComplete(h.text) THEN [h EXCEPT !.outcome = a]
                          ELSE buffer_replace(h, h.cursor, h.cursor, <<NL>>)
      /\ end_of_file(h) = IF h.text = <<>> THEN [h EXCEPT !.outcome = e] ELSE h
  BY DEF accept_line, end_of_file
<1>3. Looks(h, [h EXCEPT !.outcome = "cancel_line"])
  <2>1. Looks(h, [h EXCEPT !.outcome = c])
    <3> HIDE DEF c
    <3> QED BY <1>1, OutcomeLooks
  <2> QED BY <2>1
<1> HIDE DEF a, e, c
<1>4. Looks(h, [h EXCEPT !.outcome = a]) /\ Looks(h, [h EXCEPT !.outcome = e])
  BY <1>1, OutcomeLooks
<1>5. Does(h, buffer_replace(h, h.cursor, h.cursor, <<NL>>))
  BY CursorIs, OpensDoes
<1> QED BY <1>2, <1>3, <1>4, <1>5, LooksAlone, LooksDoes

-----------------------------------------------------------------------------
(* What is put back, and what the suggester offered.                       *)

LEMMA WrittenThenAt ==
  ASSUME NEW h, IsHandle(h), NEW at \in Offsets(h.text), NEW with \in Seq(Token),
         NEW to \in Nat, to <= at + Len(with)
  PROVE  Does(h, cursor_set(buffer_replace(h, at, at, with), to))
<1> DEFINE w == buffer_replace(h, at, at, with)
<1>1. at <= at /\ at \in 0 .. Len(h.text) /\ Len(h.text) \in Nat /\ Len(with) \in Nat
  BY CursorIs
<1>2. IsHandle(w) /\ Len(w.text) = at + Len(with) + (Len(h.text) - at)
  BY <1>1, Writes
<1>3. to \in Offsets(w.text)
  <2> HIDE DEF w
  <2> DEFINE long == Len(w.text)
             all == Len(h.text)
             more == Len(with)
  <2>1. at \in Nat /\ all \in Nat /\ more \in Nat /\ at <= all
    BY <1>1
  <2>2. long = at + more + (all - at) /\ to <= at + more
    BY <1>2
  <2> HIDE DEF long, all, more
  <2>3. long \in Nat /\ to <= long
    BY <2>1, <2>2, Longer
  <2> QED BY <2>3 DEF Offsets, long
<1>4. Looks(w, cursor_set(w, to))
  BY <1>2, <1>3, CursorSet
<1> QED BY <1>1, <1>4, WritesAndLooks

LEMMA PutDoes ==
  ASSUME NEW h, IsHandle(h), NEW how, IsHow(how), NEW after
  PROVE  Does(h, put(h, how, after))
<1> DEFINE lines == Times(h.t.kills.text, count_of(how))
           begin == To(h, "start")
           end == To(h, "end")
           at == IF after /\ h.cursor < end THEN h.cursor + 1 ELSE h.cursor
           below == <<NL>> \o (IF Last(lines) = NL THEN Front(lines) ELSE lines)
           above_ == cursor_set(buffer_replace(h, begin, begin, lines), begin)
           under_ == cursor_set(buffer_replace(h, end + 1, end + 1, lines), end + 1)
           last_ == cursor_set(buffer_replace(h, end, end, below), end + 1)
           in_ == OneBack(buffer_replace(h, at, at, lines))
<1>1. put(h, how, after) =
        CASE lines = <<>> -> h
          [] lines # <<>> /\ h.t.kills.linewise /\ ~after -> above_
          [] lines # <<>> /\ h.t.kills.linewise /\ after /\ end < Len(h.text) -> under_
          [] lines # <<>> /\ h.t.kills.linewise /\ after /\ end = Len(h.text) -> last_
          [] OTHER -> in_
  BY DEF put
<1>2. lines \in Seq(Token)
  BY CountIs, TimesIs DEF IsHandle, IsKept, IsKill
<1> HIDE DEF lines
<1>3. begin \in 0 .. h.cursor /\ end \in h.cursor .. Len(h.text) /\ Len(h.text) \in Nat
      /\ h.cursor \in Nat /\ Offsets(h.text) = 0 .. Len(h.text) /\ Len(lines) \in Nat
  BY <1>2, LineAround, CursorIs
<1> HIDE DEF begin, end
<1>4. at \in Offsets(h.text)
  BY <1>3
<1> HIDE DEF at
<1>5. Does(h, in_)
  <2> DEFINE w == buffer_replace(h, at, at, lines)
  <2>1. at <= at
    BY <1>3, <1>4
  <2>2. IsHandle(w)
    BY <1>2, <1>4, <2>1, Writes
  <2>3. Looks(w, OneBack(w))
    BY <2>2, OneBackLooks
  <2> QED BY <1>2, <1>4, <2>1, <2>3, WritesAndLooks
<1>6. begin \in Offsets(h.text) /\ end \in Offsets(h.text) /\ begin \in Nat /\ end + 1 \in Nat
      /\ begin <= begin + Len(lines) /\ end + 1 <= end + 1 + Len(lines)
  BY <1>3
<1>7. Does(h, above_)
  BY <1>2, <1>6, WrittenThenAt
<1>8. lines # <<>> => below \in Seq(Token) /\ end + 1 <= end + Len(below)
  <2>1. HAVE lines # <<>>
  <2>2. Front(lines) \in Seq(Token)
    BY <1>2, <2>1, FrontIs
  <2> DEFINE tail == IF Last(lines) = NL THEN Front(lines) ELSE lines
             nl == <<NL>>
  <2>3. tail \in Seq(Token) /\ nl \in Seq(Token) /\ Len(nl) = 1
    BY <1>2, <2>2, NewlineIs
  <2> HIDE DEF tail, nl
  <2>4. nl \o tail \in Seq(Token) /\ Len(nl \o tail) = Len(nl) + Len(tail)
    BY <2>3, ConcatProperties
  <2>5. Len(tail) \in Nat
    BY <2>3
  <2> DEFINE all == nl \o tail
  <2>6. all \in Seq(Token) /\ Len(all) = 1 + Len(tail)
    BY <2>3, <2>4
  <2> HIDE DEF all
  <2>7. end + 1 <= end + Len(all)
    BY <1>3, <2>5, <2>6
  <2> QED BY <2>6, <2>7 DEF all, nl, tail
<1> HIDE DEF below
<1>9. lines # <<>> => Does(h, last_)
  <2>1. HAVE lines # <<>>
  <2>2. below \in Seq(Token) /\ end + 1 <= end + Len(below)
    BY <1>8, <2>1
  <2> QED BY <1>6, <2>2, WrittenThenAt
<1>10. end < Len(h.text) => Does(h, under_)
  <2>1. HAVE end < Len(h.text)
  <2>2. end + 1 \in Offsets(h.text)
    BY <1>3, <2>1
  <2> QED BY <1>2, <1>6, <2>2, WrittenThenAt
<1>11. Does(h, h)
  BY LooksAlone, LooksDoes
<1> HIDE DEF above_, under_, last_, in_
<1> QED BY <1>1, <1>5, <1>7, <1>9, <1>10, <1>11

LEMMA AcceptedDoes ==
  ASSUME NEW h, IsHandle(h), NEW boundary \in Offsets(h.t.offered)
  PROVE  Does(h, Accepted(h, boundary))
<1> DEFINE text == slice(h.t.offered, 0, boundary)
           yes == TRUE
           w == [h EXCEPT !.text = text, !.wrote = yes]
           g == cursor_set(w, boundary)
<1>0. h.t.offered \in Seq(Token) /\ Len(h.t.offered) \in Nat /\ boundary \in 0 .. Len(h.t.offered)
  <2>1. h.t.offered \in Seq(Token)
    BY DEF IsHandle, IsKept
  <2> QED BY <2>1, OffsetsAre
<1>1. text \in Seq(Token) /\ Len(text) = boundary
  <2>1. 0 \in Nat /\ boundary \in Nat /\ 0 <= boundary /\ boundary <= Len(h.t.offered)
    BY <1>0
  <2>2. text \in Seq(Token) /\ Len(text) = boundary - 0
    BY <1>0, <2>1, SliceIs
  <2> HIDE DEF text
  <2> QED BY <1>0, <2>2
<1> HIDE DEF text
<1>2. Accepted(h, boundary) = g
  BY DEF Accepted, text
<1>3. /\ DOMAIN g = HandleFields /\ g.t = h.t /\ g.text = text /\ g.cursor = boundary
      /\ g.anchor = h.anchor /\ g.live = h.live /\ g.wrote = TRUE /\ g.moved = TRUE
      /\ g.chose = h.chose /\ g.pushed = h.pushed /\ g.outcome = h.outcome
  BY DEF IsHandle, HandleFields, cursor_set
<1> HIDE DEF g
<1>4. g.cursor \in Offsets(g.text)
  BY <1>0, <1>1, <1>3 DEF Offsets
<1>5. IsHandle(g)
  BY <1>1, <1>3, <1>4 DEF IsHandle
<1> QED BY <1>2, <1>3, <1>5 DEF Does, Calm, KillFits, TextKept, ModesKept

LEMMA SuggestionDoes ==
  ASSUME NEW h, IsHandle(h), NEW how, IsHow(how), NEW name \in DOMAIN FallThrough
  PROVE  Does(h, accept_suggestion_or(h, how, FallThrough[name]))
<1> DEFINE which == FallThrough[name]
           count == IF which.motion \in {"word", "last"} THEN count_of(how) ELSE 1
           boundary == next_word_of(h.t.offered, Len(h.text))
           is == suggestion_is_acceptable(h)
<1>1. accept_suggestion_or(h, how, which) =
        CASE is /\ which.word -> Accepted(h, boundary)
          [] is /\ ~which.word -> Accepted(h, Len(h.t.offered))
          [] OTHER -> move_repeated(h, which.motion, count)
  BY Zenon DEF accept_suggestion_or
<1>2. which.motion \in Motions
  BY DEF FallThrough, Motions
<1>3. count \in Nat
  BY CountIs
<1>4. h.t.offered \in Seq(Token)
  BY DEF IsHandle, IsKept
<1>5. Len(h.t.offered) \in Offsets(h.t.offered)
  BY <1>4, OffsetsAre
<1>6. is => boundary \in Offsets(h.t.offered)
  <2>1. HAVE is
  <2>2. Len(h.text) \in Offsets(h.t.offered)
    BY <1>4, <2>1, CursorIs DEF suggestion_is_acceptable, Offsets
  <2> DEFINE motion == "next_word"
  <2>3. motion \in Motions
    BY DEF Motions
  <2>4. Move(h.t.offered, Len(h.text), motion) = boundary
    BY Zenon DEF Move
  <2> HIDE DEF motion, boundary
  <2> QED BY <1>4, <2>2, <2>3, <2>4, MotionsStayInside
<1> HIDE DEF which, count, boundary, is
<1>7. Does(h, move_repeated(h, which.motion, count))
  BY <1>2, <1>3, MoveRepeatedLooks, LooksDoes
<1>8. Does(h, Accepted(h, Len(h.t.offered))) /\ (is => Does(h, Accepted(h, boundary)))
  BY <1>5, <1>6, AcceptedDoes
<1>9. Does(h, accept_suggestion_or(h, how, which))
  BY <1>1, <1>7, <1>8, Zenon
<1> QED BY <1>9 DEF which

-----------------------------------------------------------------------------
(* The pager: its rows and what is selected in it.                         *)

LEMMA DivIs ==
  ASSUME NEW n \in Nat, NEW c \in Nat \ {0}
  PROVE  /\ n \div c \in Nat
         /\ n >= c => n \div c >= 1
         /\ n = 0 => n \div c = 0
OBVIOUS

LEMMA ModIs ==
  ASSUME NEW n \in Int, NEW c \in Nat \ {0}
  PROVE  n % c \in 0 .. c - 1
OBVIOUS

GoodRows(p) ==
  p.matching # <<>> =>
    /\ p.selected < Len(p.matching)
    /\ p.selected \div Columns(p) \in p.scroll_row .. p.scroll_row + Visible(p) - 1

(* What is narrowed still has what was selected in it                      *)
Narrows(p, q) ==
  q.filter # p.filter => Selected(p) \cap ToSet(q.matching) \subseteq Selected(q)

LEMMA MatchingIs ==
  ASSUME NEW p, IsPager(p)
  PROVE  Matching(p) \in Seq(DOMAIN p.candidates)
<1> DEFINE all == DOMAIN p.candidates
           s == [i \in all |-> i]
           wanted == {i \in all : Occurs(p.candidates[i].text, p.filter)}
<1>1. Len(p.candidates) \in Nat /\ all = 1 .. Len(p.candidates)
  BY DEF IsPager
<1>2. [i \in 1 .. Len(p.candidates) |-> i] \in Seq(all)
  <2> HIDE DEF all
  <2> QED BY <1>1, IsASeq
<1>3. s \in Seq(all)
  BY <1>1, <1>2
<1>4. Matching(p) = Among(s, wanted)
  BY DEF Matching
<1> HIDE DEF s, wanted, all
<1>5. Among(s, wanted) \in Seq(all)
  BY <1>3, AmongIs
<1> QED BY <1>4, <1>5 DEF all

LEMMA SizesAre ==
  ASSUME NEW p, IsPager(p)
  PROVE  /\ p.matching \in Seq(DOMAIN p.candidates) /\ Len(p.matching) \in Nat
         /\ p.matching # <<>> => Len(p.matching) >= 1
         /\ DOMAIN p.matching = 1 .. Len(p.matching)
<1>1. p.matching \in Seq(DOMAIN p.candidates)
  BY DEF IsPager
<1> QED BY <1>1, EmptySeq

LEMMA GridIs ==
  ASSUME NEW p, Len(p.matching) \in Nat, Len(p.matching) >= 1
  PROVE  /\ Columns(p) \in Nat \ {0} /\ GridRows(p) \in Nat \ {0}
         /\ Visible(p) \in Nat \ {0} /\ Visible(p) <= GridRows(p)
<1> DEFINE n == Len(p.matching)
           c == Columns(p)
           r == GridRows(p)
<1>1. n \in Nat /\ n >= 1 /\ Fits \in Nat \ {0} /\ Rows \in Nat \ {0}
  BY PagerAssumption
<1>2. c \in Nat \ {0}
  <2>1. c = Least(Fits, n)
    BY DEF Columns
  <2> HIDE DEF c, n
  <2> QED BY <1>1, <2>1 DEF Least
<1>3. r = (n + c - 1) \div c
  BY DEF GridRows
<1>4. r \in Nat /\ r >= 1
  <2> HIDE DEF c, n, r
  <2>1. n + c - 1 \in Nat /\ n + c - 1 >= c
    BY <1>1, <1>2
  <2> QED BY <1>2, <1>3, <2>1, DivIs
<1>5. Visible(p) = Least(r, Rows)
  BY DEF Visible
<1> HIDE DEF c, n, r
<1>6. Visible(p) \in Nat \ {0} /\ Visible(p) <= r
  BY <1>1, <1>4, <1>5 DEF Least
<1> QED BY <1>2, <1>4, <1>6 DEF c, r

LEMMA RefilterIs ==
  ASSUME NEW p, IsPager(p)
  PROVE  LET q == pager_refilter(p) IN
         /\ IsPager(q) /\ q.open = p.open /\ q.filter = p.filter
         /\ q.matching # <<>> => q.selected < Len(q.matching)
         /\ Selected(p) \cap ToSet(q.matching) \subseteq Selected(q)
         /\ p.matching = <<>> => q.selected = 0
         /\ p.scroll_row = 0 => q.scroll_row = 0
<1> DEFINE m == Matching(p)
           still == {at \in DOMAIN m : m[at] \in Selected(p)}
           q == pager_refilter(p)
<1>1. m \in Seq(DOMAIN p.candidates)
  BY MatchingIs
<1>2. /\ DOMAIN q = PagerFields /\ q.open = p.open /\ q.candidates = p.candidates
      /\ q.matching = m /\ q.filter = p.filter /\ q.selected = FirstOf(still, 1) - 1
      /\ q.scroll_row = (IF m = <<>> THEN 0 ELSE p.scroll_row)
      /\ q.from = p.from /\ q.to = p.to
  BY DEF pager_refilter, IsPager, PagerFields
<1> HIDE DEF m, q
<1>3. DOMAIN m = 1 .. Len(m) /\ Len(m) \in Nat
  BY <1>1
<1>4. still \subseteq Nat /\ still \subseteq 1 .. Len(m)
  BY <1>3
<1>5. /\ still = {} => FirstOf(still, 1) = 1
      /\ still # {} => FirstOf(still, 1) \in still
  BY <1>4, FirstIs
<1>6. m # <<>> => Len(m) >= 1
  BY <1>1, EmptySeq
<1>7. q.selected \in Nat /\ (m # <<>> => q.selected < Len(m))
  <2> DEFINE one == FirstOf(still, 1)
  <2>1. one = 1 \/ one \in 1 .. Len(m)
    BY <1>4, <1>5
  <2>2. q.selected = one - 1
    BY <1>2
  <2> HIDE DEF one
  <2> QED BY <1>3, <1>6, <2>1, <2>2
<1>8. q.scroll_row \in Nat
  <2>1. p.scroll_row \in Nat
    BY DEF IsPager
  <2> QED BY <1>2, <2>1
<1>9. IsPager(q)
  BY <1>1, <1>2, <1>7, <1>8 DEF IsPager
<1>10. Selected(p) \cap ToSet(q.matching) \subseteq Selected(q)
  <2> SUFFICES ASSUME NEW x \in Selected(p), x \in ToSet(m) PROVE x \in Selected(q)
    BY <1>2
  <2>1. PICK i \in DOMAIN m : m[i] = x
    BY DEF ToSet
  <2>2. i \in still
    BY <2>1
  <2> DEFINE one == FirstOf(still, 1)
  <2>3. one \in still
    BY <1>5, <2>2
  <2>4. one \in DOMAIN m /\ m[one] \in Selected(p)
    BY <2>3
  <2>5. m[one] = x
    BY <2>4 DEF Selected
  <2>6. q.selected = one - 1
    BY <1>2
  <2> HIDE DEF one
  <2>7. one \in 1 .. Len(m) /\ q.selected < Len(m) /\ q.selected + 1 = one
    BY <1>3, <2>4, <2>6
  <2>8. Selected(q) = {q.matching[q.selected + 1]}
    BY <1>2, <2>7 DEF Selected
  <2> QED BY <1>2, <2>5, <2>7, <2>8
<1>11. p.matching = <<>> => q.selected = 0
  <2>1. HAVE p.matching = <<>>
  <2>2. Selected(p) = {}
    BY <2>1 DEF Selected, IsPager
  <2>3. still = {}
    BY <2>2
  <2> HIDE DEF still
  <2> QED BY <1>2, <1>5, <2>3
<1> QED BY <1>2, <1>7, <1>9, <1>10, <1>11 DEF q

LEMMA RevealIs ==
  ASSUME NEW p, IsPager(p), p.matching # <<>> => p.selected < Len(p.matching)
  PROVE  LET q == pager_reveal(p) IN
         /\ IsPager(q) /\ GoodRows(q) /\ q.open = p.open /\ q.filter = p.filter
         /\ q.matching = p.matching /\ Selected(q) = Selected(p)
<1> DEFINE q == pager_reveal(p)
           v == Visible(p)
           g == GridRows(p)
           c == Columns(p)
           row == p.selected \div c
           first == Least(p.scroll_row, g - v)
           to == IF p.matching = <<>> THEN 0
                 ELSE CASE row < first -> row
                        [] row >= first + v -> row - v + 1
                        [] OTHER -> first
<1>1. /\ DOMAIN q = PagerFields /\ q.open = p.open /\ q.candidates = p.candidates
      /\ q.matching = p.matching /\ q.filter = p.filter /\ q.selected = p.selected
      /\ q.scroll_row = to /\ q.from = p.from /\ q.to = p.to
  BY DEF pager_reveal, IsPager, PagerFields
<1>2. Columns(q) = c /\ GridRows(q) = g /\ Visible(q) = v
  BY <1>1 DEF Columns, GridRows, Visible
<1>3. p.selected \in Nat /\ p.scroll_row \in Nat
  BY DEF IsPager
<1> HIDE DEF q
<1>4. CASE p.matching = <<>>
  <2>1. q.scroll_row = 0
    BY <1>1, <1>4
  <2>2. IsPager(q)
    BY <1>1, <2>1 DEF IsPager
  <2> QED BY <1>1, <1>4, <2>2 DEF GoodRows, Selected, q
<1>5. CASE p.matching # <<>>
  <2>1. c \in Nat \ {0} /\ g \in Nat \ {0} /\ v \in Nat \ {0} /\ v <= g
    BY <1>5, SizesAre, GridIs
  <2>2. row \in Nat
    <3> HIDE DEF c
    <3> QED BY <1>3, <2>1, DivIs
  <2> HIDE DEF v, g, c, row
  <2>3. first \in Nat
    BY <1>3, <2>1 DEF Least
  <2> HIDE DEF first
  <2>4. to \in Nat /\ row \in to .. to + v - 1
    BY <1>5, <2>1, <2>2, <2>3
  <2> HIDE DEF to
  <2>5. IsPager(q)
    BY <1>1, <2>4 DEF IsPager
  <2>6. GoodRows(q)
    BY <1>1, <1>2, <1>5, <2>4 DEF GoodRows, row, c, v
  <2> QED BY <1>1, <2>5, <2>6 DEF Selected, q
<1> QED BY <1>4, <1>5

GoodPager(p) == showing(p) => GoodRows(p)

(* What the pager does to the editor: the layers, and the pager it leaves  *)
Paged(h, g, layers) ==
  /\ IsHandle(g) /\ TextKept(g.t, h.t) /\ g.t.kills = h.t.kills
  /\ g.t.operator = h.t.operator /\ g.t.layers = layers

LEMMA PagerMoved ==
  ASSUME NEW p, IsPager(p), p.matching # <<>>, NEW by \in Int
  PROVE  /\ IsPager(pager_move(p, by)) /\ pager_move(p, by).open = p.open
         /\ pager_move(p, by).filter = p.filter /\ pager_move(p, by).matching = p.matching
         /\ pager_move(p, by).selected < Len(pager_move(p, by).matching)
<1> DEFINE n == Len(p.matching)
           at == (p.selected + by) % n
           q == pager_move(p, by)
<1>1. n \in Nat \ {0}
  BY SizesAre
<1>2. p.selected + by \in Int
  BY DEF IsPager
<1>3. at \in 0 .. n - 1
  <2> HIDE DEF n
  <2> QED BY <1>1, <1>2, ModIs
<1>4. /\ DOMAIN q = PagerFields /\ q.open = p.open /\ q.candidates = p.candidates
      /\ q.matching = p.matching /\ q.filter = p.filter /\ q.selected = at
      /\ q.scroll_row = p.scroll_row /\ q.from = p.from /\ q.to = p.to
  BY <1>1 DEF pager_move, IsPager, PagerFields
<1> HIDE DEF q, at
<1>5. at \in Nat /\ at < n
  <2> HIDE DEF n
  <2> QED BY <1>1, <1>3
<1>6. IsPager(q)
  BY <1>4, <1>5 DEF IsPager
<1> QED BY <1>4, <1>5, <1>6 DEF q

LEMMA PagerTo ==
  ASSUME NEW h, IsHandle(h), NEW p, IsPager(p)
  PROVE  /\ Paged(h, [h EXCEPT !.t.pager = p], h.t.layers)
         /\ [h EXCEPT !.t.pager = p].t.pager = p
         /\ SameStage(h, [h EXCEPT !.t.pager = p])
<1> DEFINE g == [h EXCEPT !.t.pager = p]
<1>1. /\ IsHandle(g) /\ SameStage(h, g) /\ TextKept(g.t, h.t) /\ g.t.layers = h.t.layers
      /\ g.t.operator = h.t.operator /\ g.t.pager = p /\ g.t.kills = h.t.kills
  BY PagerSet
<1> HIDE DEF g
<1> QED BY <1>1 DEF Paged, g

LEMMA ClosedIs == IsPager(Closed) /\ ~Closed.open
<1> DEFINE none == <<>>
           p == [open |-> FALSE, candidates |-> none, matching |-> none, filter |-> none,
                 selected |-> 0, scroll_row |-> 0, from |-> 0, to |-> 0]
<1>1. none \in Seq(Token) /\ DOMAIN none = 1 .. Len(none) /\ Len(none) = 0 /\ DOMAIN none = {}
  OBVIOUS
<1>2. none \in Seq(DOMAIN none)
  OBVIOUS
<1>3. Closed = p
  BY DEF Closed
<1> HIDE DEF none
<1>4. /\ DOMAIN p = PagerFields /\ p.open = FALSE /\ p.candidates = none
      /\ p.matching = none /\ p.filter = none /\ p.selected = 0
      /\ p.scroll_row = 0 /\ p.from = 0 /\ p.to = 0
  BY DEF PagerFields
<1> HIDE DEF p
<1>5. IsPager(p)
  <2>1. \A i \in DOMAIN p.candidates : IsCandidate(p.candidates[i])
    BY <1>1, <1>4
  <2>2. p.matching \in Seq(DOMAIN p.candidates)
    BY <1>2, <1>4
  <2>3. DOMAIN p.candidates = 1 .. Len(p.candidates) /\ Len(p.candidates) \in Nat
    BY <1>1, <1>4
  <2>4. p.filter \in Seq(Token)
    BY <1>1, <1>4
  <2>5. /\ p.selected \in Nat /\ p.scroll_row \in Nat /\ p.from \in Nat /\ p.to \in Nat
        /\ p.from <= p.to /\ p.open \in BOOLEAN
    BY DEF p
  <2> QED BY <1>4, <2>1, <2>2, <2>3, <2>4, <2>5 DEF IsPager
<1> QED BY <1>3, <1>4, <1>5

LEMMA CloseTurns ==
  ASSUME NEW h, IsHandle(h)
  PROVE  /\ ~h.t.pager.open =>
              /\ Paged(h, close_pager(h), h.t.layers) /\ SameStage(h, close_pager(h))
              /\ close_pager(h).t.pager = Closed
         /\ h.t.pager.open /\ Last(h.t.layers) = "pager" /\ Len(h.t.layers) > 1 =>
              /\ Paged(h, close_pager(h), Front(h.t.layers)) /\ SameStage(h, close_pager(h))
              /\ close_pager(h).t.pager = Closed
<1> DEFINE c == Closed
           k == [h EXCEPT !.t.pager = c]
           g == keymap_pop(k)
<1>1. close_pager(h) = IF h.t.pager.open /\ Last(h.t.layers) = "pager" THEN g ELSE k
  BY DEF close_pager
<1>2. IsPager(c)
  BY ClosedIs
<1> HIDE DEF c
<1>3. Paged(h, k, h.t.layers) /\ SameStage(h, k) /\ k.t.pager = c
  BY <1>2, PagerTo
<1> HIDE DEF k
<1>4. Len(h.t.layers) > 1 =>
        Paged(h, g, Front(h.t.layers)) /\ SameStage(h, g) /\ g.t.pager = c
  <2>1. HAVE Len(h.t.layers) > 1
  <2>2. IsHandle(k) /\ Len(k.t.layers) > 1 /\ k.t.layers = h.t.layers
    BY <1>3, <2>1 DEF Paged
  <2>3. /\ IsHandle(g) /\ SameStage(k, g) /\ TextKept(g.t, k.t) /\ g.t.layers = Front(k.t.layers)
        /\ g.t.operator = k.t.operator /\ g.t.pager = k.t.pager /\ g.t.kills = k.t.kills
    BY <2>2, Popped
  <2> HIDE DEF g
  <2> QED BY <1>3, <2>2, <2>3 DEF Paged, SameStage, TextKept
<1> HIDE DEF g
<1> QED BY <1>1, <1>3, <1>4, Zenon DEF c

LEMMA StageDoes ==
  ASSUME NEW h, IsHandle(h), NEW with \in Seq(Token)
  PROVE  /\ IsHandle(stage_insertion(h, with)) /\ stage_insertion(h, with).t = h.t
<1> DEFINE from == clamp_into(h.text, h.t.pager.from)
           to == clamp_into(h.text, h.t.pager.to)
<1>1. h.t.pager.from \in Nat /\ h.t.pager.to \in Nat /\ h.t.pager.from <= h.t.pager.to
  BY DEF IsHandle, IsKept, IsPager
<1>2. from \in Offsets(h.text) /\ to \in Offsets(h.text)
  BY <1>1, CursorIs, ClampIs
<1>3. from <= to
  BY <1>1, CursorIs DEF clamp_into
<1>4. stage_insertion(h, with) = buffer_replace(h, from, to, with)
  BY DEF stage_insertion
<1> HIDE DEF from, to
<1> QED BY <1>2, <1>3, <1>4, Writes

LEMMA InsertionIs ==
  ASSUME NEW one, IsCandidate(one)
  PROVE  pager_insertion(one) \in Seq(Token)
<1>1. "/" \in Token /\ " " \in Token
  BY DEF Token
<1>2. <<"/">> \in Seq(Token) /\ <<" ">> \in Seq(Token) /\ <<>> \in Seq(Token)
  BY <1>1, OneIs, EmptyIs, Zenon
<1>3. Trailer(one.kind) \in Seq(Token)
  BY <1>2 DEF Trailer
<1>4. one.text \in Seq(Token)
  BY DEF IsCandidate
<1> DEFINE a == one.text
           b == Trailer(one.kind)
<1>5. a \in Seq(Token) /\ b \in Seq(Token)
  BY <1>3, <1>4
<1>6. pager_insertion(one) = a \o b
  BY DEF pager_insertion
<1> HIDE DEF a, b
<1> QED BY <1>5, <1>6, ConcatProperties

LEMMA PrefixIs ==
  ASSUME NEW p, IsPager(p), p.matching # <<>>
  PROVE  pager_common_prefix(p) \in Seq(Token)
<1> DEFINE first == p.candidates[p.matching[1]].text
           Shared(n) == \A i \in ToSet(p.matching) :
                          /\ n <= Len(p.candidates[i].text)
                          /\ Agree(first, p.candidates[i].text, n)
           T == {n \in 0 .. Len(first) : Shared(n)}
<1>1. pager_common_prefix(p) = slice(first, 0, Max(T))
  BY DEF pager_common_prefix
<1>2. p.matching[1] \in DOMAIN p.candidates
  BY SizesAre
<1>3. \A i \in DOMAIN p.candidates : p.candidates[i].text \in Seq(Token)
  BY DEF IsPager, IsCandidate
<1>4. first \in Seq(Token)
  BY <1>2, <1>3
<1>5. \A i \in ToSet(p.matching) : i \in DOMAIN p.candidates
  BY SizesAre DEF ToSet
<1>6. Len(first) \in Nat
  BY <1>4
<1>7. Shared(0)
  <2> TAKE i \in ToSet(p.matching)
  <2>1. p.candidates[i].text \in Seq(Token)
    BY <1>3, <1>5
  <2>2. 0 <= Len(p.candidates[i].text)
    BY <2>1
  <2> QED BY <2>2 DEF Agree
<1> HIDE DEF first
<1>8. 0 \in T
  BY <1>6, <1>7
<1>9. T \subseteq 0 .. Len(first) /\ T # {}
  BY <1>8
<1> HIDE DEF T
<1>10. Max(T) \in T
  BY <1>6, <1>9, GreatestIs
<1> DEFINE most == Max(T)
<1>11. most \in 0 .. Len(first)
  BY <1>9, <1>10
<1> HIDE DEF most
<1>12. 0 \in Nat /\ most \in Nat /\ most <= Len(first)
  BY <1>6, <1>11
<1>13. slice(first, 0, most) \in Seq(Token)
  BY <1>4, <1>12, SliceIs
<1> QED BY <1>1, <1>13 DEF most

-----------------------------------------------------------------------------
(* The completer answers of the text it is asked of, with a range in order *)
(* and a sequence of candidates.                                           *)
CompleterAnswers ==
  \A text \in Seq(Token) : \A at \in Offsets(text) :
    LET asked == Completions(text, at) IN
    /\ asked.from \in Nat /\ asked.to \in Nat /\ asked.from <= asked.to
    /\ Len(asked.items) \in Nat /\ DOMAIN asked.items = 1 .. Len(asked.items)
    /\ \A i \in DOMAIN asked.items : IsCandidate(asked.items[i])

LEMMA FilledIs ==
  ASSUME NEW h, IsHandle(h), CompleterAnswers
  PROVE  /\ IsPager(Filled(h)) /\ ~Filled(h).open /\ Filled(h).filter = <<>>
         /\ Filled(h).selected = 0 /\ Filled(h).scroll_row = 0
<1> DEFINE a == Completions(h.text, h.cursor)
           none == <<>>
           e == [Closed EXCEPT !.candidates = a.items, !.from = a.from, !.to = a.to]
           f == pager_refilter(e)
<1>1. Filled(h) = f
  BY DEF Filled, Asked_
<1>2. /\ a.from \in Nat /\ a.to \in Nat /\ a.from <= a.to
      /\ Len(a.items) \in Nat /\ DOMAIN a.items = 1 .. Len(a.items)
      /\ \A i \in DOMAIN a.items : IsCandidate(a.items[i])
  BY CursorIs DEF CompleterAnswers
<1> HIDE DEF a
<1>3. /\ DOMAIN e = PagerFields /\ e.open = Closed.open /\ e.candidates = a.items
      /\ e.matching = none /\ e.filter = none /\ e.selected = 0 /\ e.scroll_row = 0
      /\ e.from = a.from /\ e.to = a.to
  BY DEF Closed, PagerFields
<1>4. none \in Seq(Token) /\ none \in Seq(DOMAIN a.items)
  OBVIOUS
<1>5. Closed.open \in BOOLEAN /\ ~Closed.open
  BY ClosedIs DEF IsPager
<1>6. e.filter = <<>> /\ e.matching = <<>>
  BY <1>3
<1> HIDE DEF e, none
<1>7. IsPager(e)
  <2>1. e.selected \in Nat /\ e.scroll_row \in Nat /\ e.open \in BOOLEAN
    BY <1>3, <1>5
  <2> QED BY <1>2, <1>3, <1>4, <2>1 DEF IsPager
<1>8. /\ IsPager(f) /\ f.open = e.open /\ f.filter = e.filter /\ f.selected = 0
      /\ f.scroll_row = 0
  BY <1>3, <1>6, <1>7, RefilterIs
<1> HIDE DEF f
<1> QED BY <1>1, <1>3, <1>5, <1>6, <1>8

LEMMA DecisionIs ==
  ASSUME NEW p, IsPager(p), NEW typed
  PROVE  /\ decide_pager(p, typed).what \in {"nothing", "insert", "open"}
         /\ decide_pager(p, typed).text \in Seq(Token)
<1>1. CASE p.matching = <<>>
  BY <1>1, EmptyIs DEF decide_pager
<1>2. CASE p.matching # <<>>
  <2> DEFINE one == p.candidates[p.matching[1]]
             shared == pager_common_prefix(p)
             is == Len(shared) > Len(typed) /\ slice(shared, 0, Len(typed)) = typed
             only == Len(p.matching) = 1
  <2>1. p.matching[1] \in DOMAIN p.candidates
    BY <1>2, SizesAre
  <2>2. IsCandidate(one)
    BY <2>1 DEF IsPager
  <2>3. pager_insertion(one) \in Seq(Token)
    BY <2>2, InsertionIs
  <2>4. shared \in Seq(Token)
    BY <1>2, PrefixIs
  <2>5. decide_pager(p, typed) =
          IF only THEN [what |-> "insert", text |-> pager_insertion(one)]
          ELSE IF is THEN [what |-> "insert", text |-> shared]
               ELSE [what |-> "open", text |-> <<>>]
    BY <1>2 DEF decide_pager
  <2> DEFINE ins == pager_insertion(one)
  <2>6. ins \in Seq(Token)
    BY <2>3
  <2> HIDE DEF one, shared, is, only, ins
  <2>7. decide_pager(p, typed) =
          IF only THEN [what |-> "insert", text |-> ins]
          ELSE IF is THEN [what |-> "insert", text |-> shared]
               ELSE [what |-> "open", text |-> <<>>]
    BY <2>5 DEF ins
  <2> QED BY <2>4, <2>6, <2>7, EmptyIs
<1> QED BY <1>1, <1>2

Offers(h, g) ==
  \/ Paged(h, g, h.t.layers) /\ g.t.pager = Closed
  \/ /\ Paged(h, g, Append(h.t.layers, "pager"))
     /\ g.t.pager.open /\ GoodPager(g.t.pager)

LEMMA OpenedIs ==
  ASSUME NEW f, IsPager(f), f.selected = 0, f.scroll_row = 0
  PROVE  /\ IsPager([f EXCEPT !.open = TRUE]) /\ GoodPager([f EXCEPT !.open = TRUE])
         /\ [f EXCEPT !.open = TRUE].open
<1> DEFINE yes == TRUE
           p == [f EXCEPT !.open = yes]
<1>1. /\ DOMAIN p = PagerFields /\ p.open = yes /\ p.candidates = f.candidates
      /\ p.matching = f.matching /\ p.filter = f.filter /\ p.selected = f.selected
      /\ p.scroll_row = f.scroll_row /\ p.from = f.from /\ p.to = f.to
  BY DEF IsPager, PagerFields
<1>2. p.open
  BY <1>1
<1>3. p.open \in BOOLEAN
  BY <1>1
<1> HIDE DEF p, yes
<1>4. IsPager(p)
  BY <1>1, <1>3 DEF IsPager
<1>5. GoodRows(p)
  <2> SUFFICES ASSUME p.matching # <<>>
               PROVE  /\ p.selected < Len(p.matching)
                      /\ p.selected \div Columns(p) \in p.scroll_row .. p.scroll_row + Visible(p) - 1
    BY DEF GoodRows
  <2>1. Len(p.matching) \in Nat /\ Len(p.matching) >= 1
    BY <1>4, SizesAre
  <2>2. Columns(p) \in Nat \ {0} /\ Visible(p) \in Nat \ {0}
    BY <2>1, GridIs
  <2> DEFINE c == Columns(p)
             v == Visible(p)
  <2> HIDE DEF c, v
  <2>3. c \in Nat \ {0} /\ v \in Nat \ {0} /\ p.selected = 0 /\ p.scroll_row = 0 /\ 0 \in Nat
    BY <1>1, <2>2 DEF c, v
  <2>4. 0 \div c = 0
    BY <2>3, DivIs
  <2>5. 0 < Len(p.matching) /\ 0 \in 0 .. 0 + v - 1
    BY <2>1, <2>3
  <2> QED BY <2>3, <2>4, <2>5 DEF c, v
<1> QED BY <1>2, <1>4, <1>5 DEF GoodPager, p, yes

LEMMA OfferDoes ==
  ASSUME NEW h, IsHandle(h), CompleterAnswers, ~h.t.pager.open
  PROVE  /\ Offers(h, offer_completion(h))
         /\ Decision(h).what = "insert" =>
              Paged(h, offer_completion(h), h.t.layers) /\ offer_completion(h).t.pager = Closed
<1> DEFINE f == Filled(h)
           d == Decision(h)
           c == close_pager(h)
           filled == [c EXCEPT !.t.pager = f]
           none_ == close_pager(filled)
           ins == close_pager(stage_insertion(filled, d.text))
           opened == [f EXCEPT !.open = TRUE]
           shown == [filled EXCEPT !.t.pager = opened]
           name == "pager"
           more == keymap_push(shown, name)
<1>1. IsPager(f) /\ ~f.open /\ f.selected = 0 /\ f.scroll_row = 0
  BY FilledIs
<1>2. d.what \in {"nothing", "insert", "open"} /\ d.text \in Seq(Token)
  BY <1>1, DecisionIs DEF Decision
<1>3. Paged(h, c, h.t.layers)
  BY CloseTurns
<1>4. IsHandle(c)
  BY <1>3 DEF Paged
<1>5. offer_completion(h) =
        CASE d.what = "nothing" -> none_
          [] d.what = "insert" -> ins
          [] d.what = "open" -> keymap_push([filled EXCEPT !.t.pager = [filled.t.pager EXCEPT !.open = TRUE]], name)
  BY DEF offer_completion
<1> HIDE DEF f, d, c
<1>6. Paged(c, filled, c.t.layers) /\ filled.t.pager = f
  BY <1>1, <1>4, PagerTo
<1> HIDE DEF filled
<1>7. Paged(h, filled, h.t.layers)
  BY <1>3, <1>6 DEF Paged, TextKept
<1>8. IsHandle(filled) /\ ~filled.t.pager.open /\ filled.t.layers = h.t.layers
  BY <1>1, <1>6, <1>7 DEF Paged
<1>9. Paged(h, none_, h.t.layers) /\ none_.t.pager = Closed
  <2>1. Paged(filled, none_, filled.t.layers) /\ none_.t.pager = Closed
    BY <1>8, CloseTurns
  <2> HIDE DEF none_
  <2> QED BY <1>7, <1>8, <2>1 DEF Paged, TextKept
<1>10. Paged(h, ins, h.t.layers) /\ ins.t.pager = Closed
  <2> DEFINE s == stage_insertion(filled, d.text)
  <2>1. IsHandle(s) /\ s.t = filled.t
    BY <1>2, <1>8, StageDoes
  <2> HIDE DEF s
  <2>2. ins = close_pager(s)
    BY DEF s
  <2>3. Paged(s, close_pager(s), s.t.layers) /\ close_pager(s).t.pager = Closed
    BY <1>8, <2>1, CloseTurns
  <2> HIDE DEF ins
  <2> QED BY <1>7, <1>8, <2>1, <2>2, <2>3 DEF Paged, TextKept
<1>11. IsPager(opened) /\ GoodPager(opened) /\ opened.open
  BY <1>1, OpenedIs
<1>12. Paged(h, more, Append(h.t.layers, name)) /\ more.t.pager = opened
  <2> HIDE DEF opened
  <2>1. Paged(filled, shown, filled.t.layers) /\ shown.t.pager = opened
    BY <1>8, <1>11, PagerTo
  <2> HIDE DEF shown
  <2>2. IsHandle(shown) /\ name \in Layers
    BY <2>1 DEF Paged, Layers
  <2> HIDE DEF name
  <2>3. /\ IsHandle(more) /\ TextKept(more.t, shown.t) /\ more.t.layers = Append(shown.t.layers, name)
        /\ more.t.operator = shown.t.operator /\ more.t.pager = shown.t.pager
        /\ more.t.kills = shown.t.kills
    BY <2>2, Pushed
  <2> HIDE DEF more
  <2> QED BY <1>7, <1>8, <2>1, <2>3 DEF Paged, TextKept
<1>13. [filled EXCEPT !.t.pager = [filled.t.pager EXCEPT !.open = TRUE]] = shown
  BY <1>6, Zenon
<1>14. d.what = "open" => offer_completion(h) = more
  BY <1>5, <1>13
<1> HIDE DEF none_, ins, more, opened
<1>15. d.what = "nothing" => offer_completion(h) = none_
  BY <1>5
<1>16. d.what = "insert" => offer_completion(h) = ins
  BY <1>5
<1> QED BY <1>2, <1>9, <1>10, <1>11, <1>12, <1>14, <1>15, <1>16 DEF Offers, d, name

LEMMA CompleteWordDoes ==
  ASSUME NEW h, IsHandle(h), CompleterAnswers, ~h.t.pager.open
  PROVE  Offers(h, complete_word(h))
<1> DEFINE o == offer_completion(h)
           d == Decision(h)
           is == d.what = "insert" /\ o.cursor > 0 /\ o.text[o.cursor] = "/"
<1>1. Offers(h, o) /\ (d.what = "insert" => Paged(h, o, h.t.layers) /\ o.t.pager = Closed)
  BY OfferDoes
<1>2. complete_word(h) = IF is THEN offer_completion(o) ELSE o
  BY Zenon DEF complete_word, OfferedAgain
<1> HIDE DEF o, d
<1>3. CASE is
  <2>1. Paged(h, o, h.t.layers) /\ o.t.pager = Closed
    BY <1>1, <1>3
  <2>2. IsHandle(o) /\ ~o.t.pager.open /\ o.t.layers = h.t.layers
    BY <2>1, ClosedIs DEF Paged
  <2> DEFINE g == offer_completion(o)
  <2>3. Offers(o, g)
    BY <2>2, OfferDoes
  <2> HIDE DEF g
  <2>4. Offers(h, g)
    BY <2>1, <2>2, <2>3 DEF Offers, Paged, TextKept
  <2> QED BY <1>2, <1>3, <2>4 DEF g
<1>4. CASE ~is
  BY <1>1, <1>2, <1>4
<1> QED BY <1>3, <1>4

(* With the pager open                                                     *)
Browsing(h) ==
  /\ h.t.pager.open /\ Last(h.t.layers) = "pager" /\ Len(h.t.layers) > 1
  /\ GoodPager(h.t.pager)
Browses(h, g) ==
  \/ /\ Paged(h, g, h.t.layers) /\ g.t.pager.open /\ GoodPager(g.t.pager)
     /\ Narrows(h.t.pager, g.t.pager)
  \/ Paged(h, g, Front(h.t.layers)) /\ g.t.pager = Closed

LEMMA StaysBrowsing ==
  ASSUME NEW h, IsHandle(h), Browsing(h)
  PROVE  Browses(h, h)
BY DEF Browses, Browsing, Paged, TextKept, Narrows

LEMMA CloseBrowses ==
  ASSUME NEW h, IsHandle(h), Browsing(h)
  PROVE  Browses(h, close_pager(h))
BY CloseTurns DEF Browses, Browsing

LEMMA AcceptBrowses ==
  ASSUME NEW h, IsHandle(h), Browsing(h)
  PROVE  Browses(h, pager_accept(h))
<1> DEFINE chosen == Selected(h.t.pager)
           one == h.t.pager.candidates[CHOOSE i \in chosen : TRUE]
           ins == pager_insertion(one)
           s == stage_insertion(h, ins)
<1>1. pager_accept(h) = IF chosen = {} THEN h ELSE close_pager(s)
  BY DEF pager_accept
<1>2. chosen # {} => Browses(h, close_pager(s))
  <2>1. HAVE chosen # {}
  <2>2. (CHOOSE i \in chosen : TRUE) \in chosen
    BY <2>1
  <2>3. IsPager(h.t.pager)
    BY DEF IsHandle, IsKept
  <2>4. chosen \subseteq DOMAIN h.t.pager.candidates
    <3> DEFINE p == h.t.pager
    <3>1. p.matching \in Seq(DOMAIN p.candidates) /\ Len(p.matching) \in Nat /\ p.selected \in Nat
      BY <2>3, SizesAre DEF IsPager
    <3> HIDE DEF p
    <3>2. p.selected < Len(p.matching) => p.matching[p.selected + 1] \in DOMAIN p.candidates
      BY <3>1
    <3>3. Selected(p) \subseteq DOMAIN p.candidates
      BY <3>2 DEF Selected
    <3> QED BY <3>3 DEF p
  <2> DEFINE i == CHOOSE i \in chosen : TRUE
  <2>5. i \in DOMAIN h.t.pager.candidates
    BY <2>2, <2>4
  <2>6. IsCandidate(one)
    BY <2>3, <2>5 DEF IsPager
  <2>7. ins \in Seq(Token)
    BY <2>6, InsertionIs
  <2> HIDE DEF ins
  <2>8. IsHandle(s) /\ s.t = h.t
    BY <2>7, StageDoes
  <2> HIDE DEF s
  <2>9. Paged(s, close_pager(s), Front(s.t.layers)) /\ close_pager(s).t.pager = Closed
    BY <2>8, CloseTurns DEF Browsing
  <2> QED BY <2>8, <2>9 DEF Browses, Paged
<1> HIDE DEF chosen, s
<1> QED BY <1>1, <1>2, StaysBrowsing

LEMMA PagerStays ==
  ASSUME NEW h, IsHandle(h), NEW p, IsPager(p), p.open, GoodPager(p), Narrows(h.t.pager, p)
  PROVE  Browses(h, [h EXCEPT !.t.pager = p])
<1> DEFINE g == [h EXCEPT !.t.pager = p]
<1>1. Paged(h, g, h.t.layers) /\ g.t.pager = p
  BY PagerTo
<1> HIDE DEF g
<1> QED BY <1>1 DEF Browses, g

LEMMA MoveBrowses ==
  ASSUME NEW h, IsHandle(h), Browsing(h), NEW by \in Int
  PROVE  Browses(h, move_by(h, by))
<1> DEFINE p == h.t.pager
           m == pager_move(p, by)
           r == pager_reveal(m)
<1>1. move_by(h, by) = IF showing(p) THEN [h EXCEPT !.t.pager = r] ELSE h
  BY DEF move_by
<1>2. IsPager(p)
  BY DEF IsHandle, IsKept
<1>3. showing(p) => Browses(h, [h EXCEPT !.t.pager = r])
  <2>1. HAVE showing(p)
  <2>2. p.open /\ p.matching # <<>>
    BY <2>1 DEF showing
  <2>0. h.t.pager = p
    OBVIOUS
  <2> HIDE DEF p
  <2>3. /\ IsPager(m) /\ m.open = p.open /\ m.filter = p.filter /\ m.matching = p.matching
        /\ m.selected < Len(m.matching)
    BY <1>2, <2>2, PagerMoved
  <2> HIDE DEF m
  <2>4. IsPager(r) /\ GoodRows(r) /\ r.open = m.open /\ r.filter = m.filter
    BY <2>3, RevealIs
  <2> HIDE DEF r
  <2>5. r.open /\ GoodPager(r) /\ Narrows(p, r)
    BY <2>2, <2>3, <2>4 DEF GoodPager, Narrows
  <2> QED BY <2>0, <2>4, <2>5, PagerStays
<1> HIDE DEF p, m, r
<1> QED BY <1>1, <1>3, StaysBrowsing

LEMMA FilteredBrowses ==
  ASSUME NEW h, IsHandle(h), Browsing(h), NEW filter \in Seq(Token)
  PROVE  Browses(h, Filtered(h, filter))
<1> DEFINE p == h.t.pager
           e == [p EXCEPT !.filter = filter]
           f == pager_refilter(e)
           r == pager_reveal(f)
<1>0. h.t.pager = p /\ p.open
  BY DEF Browsing
<1>1. Filtered(h, filter) = [h EXCEPT !.t.pager = r]
  BY DEF Filtered
<1>2. IsPager(p)
  BY DEF IsHandle, IsKept
<1> HIDE DEF p
<1>3. /\ DOMAIN e = PagerFields /\ e.open = p.open /\ e.candidates = p.candidates
      /\ e.matching = p.matching /\ e.filter = filter /\ e.selected = p.selected
      /\ e.scroll_row = p.scroll_row /\ e.from = p.from /\ e.to = p.to
  BY <1>2 DEF IsPager, PagerFields
<1> HIDE DEF e
<1>4. IsPager(e)
  BY <1>2, <1>3 DEF IsPager
<1>5. /\ IsPager(f) /\ f.open = e.open /\ (f.matching # <<>> => f.selected < Len(f.matching))
      /\ Selected(e) \cap ToSet(f.matching) \subseteq Selected(f)
  BY <1>4, RefilterIs
<1> HIDE DEF f
<1>6. /\ IsPager(r) /\ GoodRows(r) /\ r.open = f.open /\ r.matching = f.matching
      /\ Selected(r) = Selected(f)
  BY <1>5, RevealIs
<1> HIDE DEF r
<1>7. Selected(e) = Selected(p)
  BY <1>3 DEF Selected
<1>8. r.open /\ GoodPager(r) /\ Narrows(p, r)
  BY <1>0, <1>3, <1>5, <1>6, <1>7 DEF GoodPager, Narrows
<1>9. Browses(h, [h EXCEPT !.t.pager = r])
  BY <1>0, <1>6, <1>8, PagerStays
<1> QED BY <1>1, <1>9

LEMMA FilterKeyBrowses ==
  ASSUME NEW h, IsHandle(h), NEW how, IsHow(how), Browsing(h)
  PROVE  Browses(h, pager_filter_key(h, how)) /\ Browses(h, pager_filter_backspace(h))
<1> DEFINE p == h.t.pager
<1>1. p.filter \in Seq(Token) /\ how.keys \in Seq(Token) /\ h.t.pager = p
  BY DEF IsHandle, IsKept, IsPager, IsHow
<1>2. pager_filter_key(h, how) =
        IF how.keys = <<>> \/ ~p.open THEN h ELSE Filtered(h, p.filter \o how.keys)
  BY DEF pager_filter_key
<1>3. pager_filter_backspace(h) =
        IF p.open /\ p.filter # <<>> THEN Filtered(h, Front(p.filter)) ELSE close_pager(h)
  BY DEF pager_filter_backspace
<1> DEFINE a == p.filter
           b == how.keys
<1>4. a \in Seq(Token) /\ b \in Seq(Token)
  BY <1>1
<1> HIDE DEF p, a, b
<1>5. Browses(h, Filtered(h, a \o b))
  BY <1>4, ConcatProperties, FilteredBrowses
<1>6. a # <<>> => Browses(h, Filtered(h, Front(a)))
  BY <1>4, FrontIs, FilteredBrowses
<1> QED BY <1>2, <1>3, <1>5, <1>6, StaysBrowsing, CloseBrowses DEF a, b

LEMMA PlainActsAre ==
  ASSUME NEW h, NEW how
  PROVE  /\ Act("backward_char", h, how) =
              cursor_set(h, To(h, "prev"))
         /\ Act("beginning_of_line", h, how) =
              cursor_set(h, To(h, "start"))
         /\ Act("end_of_line", h, how) =
              cursor_set(h, To(h, "end"))
         /\ Act("vi_first_nonblank", h, how) =
              cursor_set(h, To(h, "nonblank"))
         /\ Act("self_insert", h, how) =
              self_insert(h, how)
         /\ Act("delete_backward_char", h, how) =
              delete_back_to(h, To(h, "prev"))
         /\ Act("delete_backward_word", h, how) =
              Kill(h, prev_word_of(h.text, h.cursor), h.cursor)
         /\ Act("unix_line_discard", h, how) =
              Kill(h, To(h, "start"), h.cursor)
         /\ Act("kill_line", h, how) =
              Kill(h, h.cursor, To(h, "end"))
         /\ Act("yank", h, how) =
              yank(h, how)
         /\ Act("undo", h, how) =
              Again(h, undo_one(h.t))
         /\ Act("redo", h, how) =
              Again(h, redo_one(h.t))
         /\ Act("complete_word", h, how) =
              complete_word(h)
         /\ Act("pager_next", h, how) =
              move_by(h, 1)
         /\ Act("pager_previous", h, how) =
              move_by(h, -1)
         /\ Act("pager_next_row", h, how) =
              move_by(h, Columns(h.t.pager))
         /\ Act("pager_previous_row", h, how) =
              move_by(h, -Columns(h.t.pager))
         /\ Act("pager_accept", h, how) =
              pager_accept(h)
         /\ Act("pager_close", h, how) =
              close_pager(h)
         /\ Act("pager_filter_key", h, how) =
              pager_filter_key(h, how)
         /\ Act("pager_filter_backspace", h, how) =
              pager_filter_backspace(h)
         /\ Act("accept_line", h, how) =
              accept_line(h)
         /\ Act("cancel_line", h, how) =
              [h EXCEPT !.outcome = "cancel_line"]
         /\ Act("end_of_file", h, how) =
              end_of_file(h)
<1>1. Act("backward_char", h, how) =
        cursor_set(h, To(h, "prev"))
  BY DEF Act, ViAct, Reaching, InclusiveMotion, Once, Repeated, FallThrough, reversed, Verb
<1>2. Act("beginning_of_line", h, how) =
        cursor_set(h, To(h, "start"))
  BY DEF Act, ViAct, Reaching, InclusiveMotion, Once, Repeated, FallThrough, reversed, Verb
<1>3. Act("end_of_line", h, how) =
        cursor_set(h, To(h, "end"))
  BY DEF Act, ViAct, Reaching, InclusiveMotion, Once, Repeated, FallThrough, reversed, Verb
<1>4. Act("vi_first_nonblank", h, how) =
        cursor_set(h, To(h, "nonblank"))
  BY DEF Act, ViAct, Reaching, InclusiveMotion, Once, Repeated, FallThrough, reversed, Verb
<1>5. Act("self_insert", h, how) =
        self_insert(h, how)
  BY DEF Act, ViAct, Reaching, InclusiveMotion, Once, Repeated, FallThrough, reversed, Verb
<1>6. Act("delete_backward_char", h, how) =
        delete_back_to(h, To(h, "prev"))
  BY DEF Act, ViAct, Reaching, InclusiveMotion, Once, Repeated, FallThrough, reversed, Verb
<1>7. Act("delete_backward_word", h, how) =
        Kill(h, prev_word_of(h.text, h.cursor), h.cursor)
  BY DEF Act, ViAct, Reaching, InclusiveMotion, Once, Repeated, FallThrough, reversed, Verb
<1>8. Act("unix_line_discard", h, how) =
        Kill(h, To(h, "start"), h.cursor)
  BY DEF Act, ViAct, Reaching, InclusiveMotion, Once, Repeated, FallThrough, reversed, Verb
<1>9. Act("kill_line", h, how) =
        Kill(h, h.cursor, To(h, "end"))
  BY DEF Act, ViAct, Reaching, InclusiveMotion, Once, Repeated, FallThrough, reversed, Verb
<1>10. Act("yank", h, how) =
        yank(h, how)
  BY DEF Act, ViAct, Reaching, InclusiveMotion, Once, Repeated, FallThrough, reversed, Verb
<1>11. Act("undo", h, how) =
        Again(h, undo_one(h.t))
  BY DEF Act, ViAct, Reaching, InclusiveMotion, Once, Repeated, FallThrough, reversed, Verb
<1>12. Act("redo", h, how) =
        Again(h, redo_one(h.t))
  BY DEF Act, ViAct, Reaching, InclusiveMotion, Once, Repeated, FallThrough, reversed, Verb
<1>13. Act("complete_word", h, how) =
        complete_word(h)
  BY DEF Act, ViAct, Reaching, InclusiveMotion, Once, Repeated, FallThrough, reversed, Verb
<1>14. Act("pager_next", h, how) =
        move_by(h, 1)
  BY DEF Act, ViAct, Reaching, InclusiveMotion, Once, Repeated, FallThrough, reversed, Verb
<1>15. Act("pager_previous", h, how) =
        move_by(h, -1)
  BY DEF Act, ViAct, Reaching, InclusiveMotion, Once, Repeated, FallThrough, reversed, Verb
<1>16. Act("pager_next_row", h, how) =
        move_by(h, Columns(h.t.pager))
  BY DEF Act, ViAct, Reaching, InclusiveMotion, Once, Repeated, FallThrough, reversed, Verb
<1>17. Act("pager_previous_row", h, how) =
        move_by(h, -Columns(h.t.pager))
  BY DEF Act, ViAct, Reaching, InclusiveMotion, Once, Repeated, FallThrough, reversed, Verb
<1>18. Act("pager_accept", h, how) =
        pager_accept(h)
  BY DEF Act, ViAct, Reaching, InclusiveMotion, Once, Repeated, FallThrough, reversed, Verb
<1>19. Act("pager_close", h, how) =
        close_pager(h)
  BY DEF Act, ViAct, Reaching, InclusiveMotion, Once, Repeated, FallThrough, reversed, Verb
<1>20. Act("pager_filter_key", h, how) =
        pager_filter_key(h, how)
  BY DEF Act, ViAct, Reaching, InclusiveMotion, Once, Repeated, FallThrough, reversed, Verb
<1>21. Act("pager_filter_backspace", h, how) =
        pager_filter_backspace(h)
  BY DEF Act, ViAct, Reaching, InclusiveMotion, Once, Repeated, FallThrough, reversed, Verb
<1>22. Act("accept_line", h, how) =
        accept_line(h)
  BY DEF Act, ViAct, Reaching, InclusiveMotion, Once, Repeated, FallThrough, reversed, Verb
<1>23. Act("cancel_line", h, how) =
        [h EXCEPT !.outcome = "cancel_line"]
  BY DEF Act, ViAct, Reaching, InclusiveMotion, Once, Repeated, FallThrough, reversed, Verb
<1>24. Act("end_of_file", h, how) =
        end_of_file(h)
  BY DEF Act, ViAct, Reaching, InclusiveMotion, Once, Repeated, FallThrough, reversed, Verb
<1> QED BY <1>1, <1>2, <1>3, <1>4, <1>5, <1>6, <1>7, <1>8, <1>9, <1>10, <1>11, <1>12, <1>13, <1>14, <1>15, <1>16, <1>17, <1>18, <1>19, <1>20, <1>21, <1>22, <1>23, <1>24, Zenon

LEMMA ViActsAre ==
  ASSUME NEW h, NEW how
  PROVE  /\ Act("vi_find_char_target", h, how) =
              vi_find_char_target(h, how)
         /\ Act("vi_find_repeat", h, how) =
              perform_find(h, h.t.last_find, count_of(how))
         /\ Act("vi_digit_argument", h, how) =
              vi_digit_argument(h, how)
         /\ Act("vi_delete_operator", h, how) =
              start_operator(h, how, "vi_delete")
         /\ Act("vi_change_operator", h, how) =
              start_operator(h, how, "vi_change")
         /\ Act("vi_yank_operator", h, how) =
              start_operator(h, how, "vi_yank")
         /\ Act("vi_operator_abort", h, how) =
              abort_operator(h)
         /\ Act("vi_delete", h, how) =
              vi_delete(h)
         /\ Act("vi_change", h, how) =
              vi_change(h)
         /\ Act("vi_yank", h, how) =
              vi_yank(h)
         /\ Act("vi_line_object", h, how) =
              vi_line_object(h, how)
         /\ Act("vi_delete_char", h, how) =
              vi_delete_char(h, how)
         /\ Act("vi_substitute_char", h, how) =
              mode_set(vi_delete_char(h, how), "vi_insert")
         /\ Act("vi_replace_char", h, how) =
              keymap_push(count_set(h, how.count), "vi_replace_char")
         /\ Act("vi_replace_char_with", h, how) =
              vi_replace_char_with(h, how)
         /\ Act("vi_toggle_case", h, how) =
              vi_toggle_case(h, how)
         /\ Act("vi_delete_to_line_end", h, how) =
              vi_delete_to_line_end(h)
         /\ Act("vi_change_to_line_end", h, how) =
              mode_set(vi_delete_to_line_end(h), "vi_insert")
         /\ Act("vi_yank_line", h, how) =
              vi_yank_line(h, how)
         /\ Act("vi_command_mode", h, how) =
              vi_command_mode(h)
         /\ Act("vi_normal_reset", h, how) =
              abort_operator(count_set(h, 0))
         /\ Act("vi_repeat", h, how) =
              vi_repeat(h)
<1>1. Act("vi_find_char_target", h, how) =
        vi_find_char_target(h, how)
  BY DEF Act, ViAct, Reaching, InclusiveMotion, Once, Repeated, FallThrough, reversed, Verb
<1>2. Act("vi_find_repeat", h, how) =
        perform_find(h, h.t.last_find, count_of(how))
  BY DEF Act, ViAct, Reaching, InclusiveMotion, Once, Repeated, FallThrough, reversed, Verb
<1>3. Act("vi_digit_argument", h, how) =
        vi_digit_argument(h, how)
  BY DEF Act, ViAct, Reaching, InclusiveMotion, Once, Repeated, FallThrough, reversed, Verb
<1>4. Act("vi_delete_operator", h, how) =
        start_operator(h, how, "vi_delete")
  BY DEF Act, ViAct, Reaching, InclusiveMotion, Once, Repeated, FallThrough, reversed, Verb
<1>5. Act("vi_change_operator", h, how) =
        start_operator(h, how, "vi_change")
  BY DEF Act, ViAct, Reaching, InclusiveMotion, Once, Repeated, FallThrough, reversed, Verb
<1>6. Act("vi_yank_operator", h, how) =
        start_operator(h, how, "vi_yank")
  BY DEF Act, ViAct, Reaching, InclusiveMotion, Once, Repeated, FallThrough, reversed, Verb
<1>7. Act("vi_operator_abort", h, how) =
        abort_operator(h)
  BY DEF Act, ViAct, Reaching, InclusiveMotion, Once, Repeated, FallThrough, reversed, Verb
<1>8. Act("vi_delete", h, how) =
        vi_delete(h)
  BY DEF Act, ViAct, Reaching, InclusiveMotion, Once, Repeated, FallThrough, reversed, Verb
<1>9. Act("vi_change", h, how) =
        vi_change(h)
  BY DEF Act, ViAct, Reaching, InclusiveMotion, Once, Repeated, FallThrough, reversed, Verb
<1>10. Act("vi_yank", h, how) =
        vi_yank(h)
  BY DEF Act, ViAct, Reaching, InclusiveMotion, Once, Repeated, FallThrough, reversed, Verb
<1>11. Act("vi_line_object", h, how) =
        vi_line_object(h, how)
  BY DEF Act, ViAct, Reaching, InclusiveMotion, Once, Repeated, FallThrough, reversed, Verb
<1>12. Act("vi_delete_char", h, how) =
        vi_delete_char(h, how)
  BY DEF Act, ViAct, Reaching, InclusiveMotion, Once, Repeated, FallThrough, reversed, Verb
<1>13. Act("vi_substitute_char", h, how) =
        mode_set(vi_delete_char(h, how), "vi_insert")
  BY DEF Act, ViAct, Reaching, InclusiveMotion, Once, Repeated, FallThrough, reversed, Verb
<1>14. Act("vi_replace_char", h, how) =
        keymap_push(count_set(h, how.count), "vi_replace_char")
  BY DEF Act, ViAct, Reaching, InclusiveMotion, Once, Repeated, FallThrough, reversed, Verb
<1>15. Act("vi_replace_char_with", h, how) =
        vi_replace_char_with(h, how)
  BY DEF Act, ViAct, Reaching, InclusiveMotion, Once, Repeated, FallThrough, reversed, Verb
<1>16. Act("vi_toggle_case", h, how) =
        vi_toggle_case(h, how)
  BY DEF Act, ViAct, Reaching, InclusiveMotion, Once, Repeated, FallThrough, reversed, Verb
<1>17. Act("vi_delete_to_line_end", h, how) =
        vi_delete_to_line_end(h)
  BY DEF Act, ViAct, Reaching, InclusiveMotion, Once, Repeated, FallThrough, reversed, Verb
<1>18. Act("vi_change_to_line_end", h, how) =
        mode_set(vi_delete_to_line_end(h), "vi_insert")
  BY DEF Act, ViAct, Reaching, InclusiveMotion, Once, Repeated, FallThrough, reversed, Verb
<1>19. Act("vi_yank_line", h, how) =
        vi_yank_line(h, how)
  BY DEF Act, ViAct, Reaching, InclusiveMotion, Once, Repeated, FallThrough, reversed, Verb
<1>20. Act("vi_command_mode", h, how) =
        vi_command_mode(h)
  BY DEF Act, ViAct, Reaching, InclusiveMotion, Once, Repeated, FallThrough, reversed, Verb
<1>21. Act("vi_normal_reset", h, how) =
        abort_operator(count_set(h, 0))
  BY DEF Act, ViAct, Reaching, InclusiveMotion, Once, Repeated, FallThrough, reversed, Verb
<1>22. Act("vi_repeat", h, how) =
        vi_repeat(h)
  BY DEF Act, ViAct, Reaching, InclusiveMotion, Once, Repeated, FallThrough, reversed, Verb
<1> QED BY <1>1, <1>2, <1>3, <1>4, <1>5, <1>6, <1>7, <1>8, <1>9, <1>10, <1>11, <1>12, <1>13, <1>14, <1>15, <1>16, <1>17, <1>18, <1>19, <1>20, <1>21, <1>22, Zenon

LEMMA VisualActsAre ==
  ASSUME NEW h, NEW how
  PROVE  /\ Act("vi_visual_mode", h, how) =
              vi_visual_mode(h)
         /\ Act("vi_visual_exit", h, how) =
              vi_visual_exit(h)
         /\ Act("vi_visual_swap_ends", h, how) =
              vi_visual_swap_ends(h)
         /\ Act("vi_visual_delete", h, how) =
              vi_delete(visual_finish(h))
         /\ Act("vi_visual_change", h, how) =
              vi_change(visual_finish(h))
         /\ Act("vi_visual_yank", h, how) =
              vi_yank(visual_finish(h))
<1>1. Act("vi_visual_mode", h, how) =
        vi_visual_mode(h)
  BY DEF Act, ViAct, Reaching, InclusiveMotion, Once, Repeated, FallThrough, reversed, Verb
<1>2. Act("vi_visual_exit", h, how) =
        vi_visual_exit(h)
  BY DEF Act, ViAct, Reaching, InclusiveMotion, Once, Repeated, FallThrough, reversed, Verb
<1>3. Act("vi_visual_swap_ends", h, how) =
        vi_visual_swap_ends(h)
  BY DEF Act, ViAct, Reaching, InclusiveMotion, Once, Repeated, FallThrough, reversed, Verb
<1>4. Act("vi_visual_delete", h, how) =
        vi_delete(visual_finish(h))
  BY DEF Act, ViAct, Reaching, InclusiveMotion, Once, Repeated, FallThrough, reversed, Verb
<1>5. Act("vi_visual_change", h, how) =
        vi_change(visual_finish(h))
  BY DEF Act, ViAct, Reaching, InclusiveMotion, Once, Repeated, FallThrough, reversed, Verb
<1>6. Act("vi_visual_yank", h, how) =
        vi_yank(visual_finish(h))
  BY DEF Act, ViAct, Reaching, InclusiveMotion, Once, Repeated, FallThrough, reversed, Verb
<1> QED BY <1>1, <1>2, <1>3, <1>4, <1>5, <1>6, Zenon

LEMMA EitherActsAre ==
  ASSUME NEW h, NEW how
  PROVE  /\ Act("vi_find_repeat_reverse", h, how) =
              IF h.t.last_find = "" THEN h ELSE perform_find(h, reversed[h.t.last_find], count_of(how))
         /\ Act("vi_digit_or_line_start", h, how) =
              IF how.count > 0 THEN vi_digit_argument(h, how) ELSE cursor_set(h, To(h, "start"))
<1>1. Act("vi_find_repeat_reverse", h, how) =
        IF h.t.last_find = "" THEN h ELSE perform_find(h, reversed[h.t.last_find], count_of(how))
  BY DEF Act, ViAct, Reaching, InclusiveMotion, Once, Repeated, FallThrough, reversed, Verb
<1>2. Act("vi_digit_or_line_start", h, how) =
        IF how.count > 0 THEN vi_digit_argument(h, how) ELSE cursor_set(h, To(h, "start"))
  BY DEF Act, ViAct, Reaching, InclusiveMotion, Once, Repeated, FallThrough, reversed, Verb
<1> QED BY <1>1, <1>2, Zenon

(* The actions of one kind                                                 *)
Objects == {"vi_object_inner_word", "vi_object_a_word", "vi_object_inner_blank_word",
            "vi_object_a_blank_word", "vi_object_inner_pair", "vi_object_a_pair"}
Words == {"vi_object_inner_word", "vi_object_a_word", "vi_object_inner_blank_word",
          "vi_object_a_blank_word"}

LEMMA MoveActsAre ==
  ASSUME NEW h, NEW how
  PROVE  /\ Act("vi_backward_char", h, how) = move_repeated(h, "prev", count_of(how))
         /\ Act("vi_forward_char", h, how) = move_repeated(h, "next", count_of(how))
         /\ Act("vi_line_up", h, how) = move_repeated(h, "up", count_of(how))
         /\ Act("vi_line_down", h, how) = move_repeated(h, "down", count_of(how))
         /\ Act("vi_word_next", h, how) = move_repeated(h, "word", count_of(how))
         /\ Act("vi_word_prev", h, how) = move_repeated(h, "back", count_of(how))
         /\ Act("vi_blank_word_next", h, how) = move_repeated(h, "WORD", count_of(how))
         /\ Act("vi_blank_word_prev", h, how) = move_repeated(h, "BACK", count_of(how))
         /\ Act("vi_word_end", h, how) =
              extend_inclusive(move_repeated(h, "last", count_of(how)))
         /\ Act("vi_blank_word_end", h, how) =
              extend_inclusive(move_repeated(h, "LAST", count_of(how)))
         /\ Act("vi_find_forward", h, how) = arm_find(h, "vi_find_forward")
         /\ Act("vi_find_backward", h, how) = arm_find(h, "vi_find_backward")
         /\ Act("vi_till_forward", h, how) = arm_find(h, "vi_till_forward")
         /\ Act("vi_till_backward", h, how) = arm_find(h, "vi_till_backward")
         /\ Act("vi_insert_mode", h, how) = vi_insert_at(h, "vi_insert_mode")
         /\ Act("vi_insert_at_line_start", h, how) = vi_insert_at(h, "vi_insert_at_line_start")
         /\ Act("vi_append", h, how) = vi_insert_at(h, "vi_append")
         /\ Act("vi_append_at_line_end", h, how) = vi_insert_at(h, "vi_append_at_line_end")
         /\ Act("vi_open_below", h, how) = vi_insert_at(h, "vi_open_below")
         /\ Act("vi_open_above", h, how) = vi_insert_at(h, "vi_open_above")
<1>1. Act("vi_backward_char", h, how) = move_repeated(h, "prev", count_of(how))
  BY DEF Act, ViAct, Reaching, InclusiveMotion, Once, Repeated, FallThrough, reversed, Verb
<1>2. Act("vi_forward_char", h, how) = move_repeated(h, "next", count_of(how))
  BY DEF Act, ViAct, Reaching, InclusiveMotion, Once, Repeated, FallThrough, reversed, Verb
<1>3. Act("vi_line_up", h, how) = move_repeated(h, "up", count_of(how))
  BY DEF Act, ViAct, Reaching, InclusiveMotion, Once, Repeated, FallThrough, reversed, Verb
<1>4. Act("vi_line_down", h, how) = move_repeated(h, "down", count_of(how))
  BY DEF Act, ViAct, Reaching, InclusiveMotion, Once, Repeated, FallThrough, reversed, Verb
<1>5. Act("vi_word_next", h, how) = move_repeated(h, "word", count_of(how))
  BY DEF Act, ViAct, Reaching, InclusiveMotion, Once, Repeated, FallThrough, reversed, Verb
<1>6. Act("vi_word_prev", h, how) = move_repeated(h, "back", count_of(how))
  BY DEF Act, ViAct, Reaching, InclusiveMotion, Once, Repeated, FallThrough, reversed, Verb
<1>7. Act("vi_blank_word_next", h, how) = move_repeated(h, "WORD", count_of(how))
  BY DEF Act, ViAct, Reaching, InclusiveMotion, Once, Repeated, FallThrough, reversed, Verb
<1>8. Act("vi_blank_word_prev", h, how) = move_repeated(h, "BACK", count_of(how))
  BY DEF Act, ViAct, Reaching, InclusiveMotion, Once, Repeated, FallThrough, reversed, Verb
<1>9. Act("vi_word_end", h, how) =
          extend_inclusive(move_repeated(h, "last", count_of(how)))
  BY DEF Act, ViAct, Reaching, InclusiveMotion, Once, Repeated, FallThrough, reversed, Verb
<1>10. Act("vi_blank_word_end", h, how) =
          extend_inclusive(move_repeated(h, "LAST", count_of(how)))
  BY DEF Act, ViAct, Reaching, InclusiveMotion, Once, Repeated, FallThrough, reversed, Verb
<1>11. Act("vi_find_forward", h, how) = arm_find(h, "vi_find_forward")
  BY DEF Act, ViAct, Reaching, InclusiveMotion, Once, Repeated, FallThrough, reversed, Verb
<1>12. Act("vi_find_backward", h, how) = arm_find(h, "vi_find_backward")
  BY DEF Act, ViAct, Reaching, InclusiveMotion, Once, Repeated, FallThrough, reversed, Verb
<1>13. Act("vi_till_forward", h, how) = arm_find(h, "vi_till_forward")
  BY DEF Act, ViAct, Reaching, InclusiveMotion, Once, Repeated, FallThrough, reversed, Verb
<1>14. Act("vi_till_backward", h, how) = arm_find(h, "vi_till_backward")
  BY DEF Act, ViAct, Reaching, InclusiveMotion, Once, Repeated, FallThrough, reversed, Verb
<1>15. Act("vi_insert_mode", h, how) = vi_insert_at(h, "vi_insert_mode")
  BY DEF Act, ViAct, Reaching, InclusiveMotion, Once, Repeated, FallThrough, reversed, Verb
<1>16. Act("vi_insert_at_line_start", h, how) = vi_insert_at(h, "vi_insert_at_line_start")
  BY DEF Act, ViAct, Reaching, InclusiveMotion, Once, Repeated, FallThrough, reversed, Verb
<1>17. Act("vi_append", h, how) = vi_insert_at(h, "vi_append")
  BY DEF Act, ViAct, Reaching, InclusiveMotion, Once, Repeated, FallThrough, reversed, Verb
<1>18. Act("vi_append_at_line_end", h, how) = vi_insert_at(h, "vi_append_at_line_end")
  BY DEF Act, ViAct, Reaching, InclusiveMotion, Once, Repeated, FallThrough, reversed, Verb
<1>19. Act("vi_open_below", h, how) = vi_insert_at(h, "vi_open_below")
  BY DEF Act, ViAct, Reaching, InclusiveMotion, Once, Repeated, FallThrough, reversed, Verb
<1>20. Act("vi_open_above", h, how) = vi_insert_at(h, "vi_open_above")
  BY DEF Act, ViAct, Reaching, InclusiveMotion, Once, Repeated, FallThrough, reversed, Verb
<1> QED BY <1>1, <1>2, <1>3, <1>4, <1>5, <1>6, <1>7, <1>8, <1>9, <1>10, <1>11, <1>12, <1>13, <1>14, <1>15, <1>16, <1>17, <1>18, <1>19, <1>20

LEMMA FallThroughActsAre ==
  ASSUME NEW h, NEW how, NEW name \in DOMAIN FallThrough
  PROVE  Act(name, h, how) = accept_suggestion_or(h, how, FallThrough[name])
BY DEF Act, Once, FallThrough

LEMMA ObjectActsAre ==
  ASSUME NEW h, NEW how
  PROVE  /\ \A name \in Words : \E big, around \in BOOLEAN :
              Act(name, h, how) = object_word(h, how, big, around)
         /\ \A name \in Objects \ Words : \E around \in BOOLEAN :
              Act(name, h, how) = object_pair(h, how, around)
         /\ \A name \in {"vi_put_after", "vi_put_before"} : \E after \in BOOLEAN :
              Act(name, h, how) = put(h, how, after)
<1>4. \A name \in Words : \E big, around \in BOOLEAN :
        Act(name, h, how) = object_word(h, how, big, around)
  <2> TAKE name \in Words
  <2>1. Act(name, h, how) = ViAct(name, h, how)
    BY DEF Act, Reaching, InclusiveMotion, Once, FallThrough, Words
  <2> DEFINE big == name \in {"vi_object_inner_blank_word", "vi_object_a_blank_word"}
             around == name \in {"vi_object_a_word", "vi_object_a_blank_word"}
  <2>2. ViAct(name, h, how) = object_word(h, how, big, around)
    BY DEF ViAct, Repeated, reversed, Verb, Words
  <2>3. big \in BOOLEAN
    OBVIOUS
  <2>4. around \in BOOLEAN
    OBVIOUS
  <2> HIDE DEF big, around
  <2> QED BY <2>1, <2>2, <2>3, <2>4, Zenon
<1>5. \A name \in Objects \ Words : \E around \in BOOLEAN :
        Act(name, h, how) = object_pair(h, how, around)
  <2> TAKE name \in Objects \ Words
  <2>1. Act(name, h, how) = ViAct(name, h, how)
    BY DEF Act, Reaching, InclusiveMotion, Once, FallThrough, Words, Objects
  <2> DEFINE around == name = "vi_object_a_pair"
  <2>2. ViAct(name, h, how) = object_pair(h, how, around)
    BY DEF ViAct, Repeated, reversed, Verb, Words, Objects
  <2>3. around \in BOOLEAN
    OBVIOUS
  <2> HIDE DEF around
  <2> QED BY <2>1, <2>2, <2>3, Zenon
<1>6. \A name \in {"vi_put_after", "vi_put_before"} : \E after \in BOOLEAN :
        Act(name, h, how) = put(h, how, after)
  <2> TAKE name \in {"vi_put_after", "vi_put_before"}
  <2>1. Act(name, h, how) = ViAct(name, h, how)
    BY DEF Act, Reaching, InclusiveMotion, Once, FallThrough
  <2> DEFINE after == name = "vi_put_after"
  <2>2. ViAct(name, h, how) = put(h, how, after)
    BY DEF ViAct, Repeated, reversed, Verb
  <2>3. after \in BOOLEAN
    OBVIOUS
  <2> HIDE DEF after
  <2> QED BY <2>1, <2>2, <2>3, Zenon
<1> QED BY <1>4, <1>5, <1>6

-----------------------------------------------------------------------------
(* The keymaps that are on top of one another.                             *)
Modes == {"emacs", "vi_insert", "vi_command"}
Plain(l) ==
  /\ l \in Seq(Layers) /\ Len(l) >= 1 /\ l[1] \in Modes
  /\ \A d \in 2 .. Len(l) : l[d] = "vi_visual"
On(l, x) == l \in Seq(Layers) /\ Len(l) > 1 /\ Last(l) = x /\ Plain(Front(l))

AtMode(t) == Plain(t.layers) /\ t.operator = "" /\ ~t.pager.open
InPager(t) ==
  On(t.layers, "pager") /\ t.operator = "" /\ t.pager.open /\ GoodPager(t.pager)
Awaiting(t) ==
  /\ On(t.layers, "vi_find_char") \/ On(t.layers, "vi_replace_char")
  /\ t.operator = "" /\ ~t.pager.open
Operating(t) ==
  On(t.layers, "vi_operator_pending") /\ t.operator \in Verbs /\ ~t.pager.open
Finding(t) ==
  /\ t.layers \in Seq(Layers) /\ Len(t.layers) > 1 /\ Last(t.layers) = "vi_find_char"
  /\ On(Front(t.layers), "vi_operator_pending") /\ t.operator \in Verbs /\ ~t.pager.open
InStep(t) == AtMode(t) \/ InPager(t) \/ Awaiting(t) \/ Operating(t) \/ Finding(t)

LEMMA AppendedIs ==
  ASSUME NEW S, NEW l \in Seq(S), NEW x \in S
  PROVE  /\ Append(l, x) \in Seq(S) /\ Len(Append(l, x)) = Len(l) + 1
         /\ Last(Append(l, x)) = x /\ Front(Append(l, x)) = l
<1> DEFINE a == Append(l, x)
           n == Len(l)
<1>1. a \in Seq(S) /\ Len(a) = n + 1 /\ a[n + 1] = x /\ \A i \in 1 .. n : a[i] = l[i]
  BY AppendProperties
<1>2. n \in Nat
  OBVIOUS
<1>3. a # <<>>
  <2>1. Len(a) # 0
    BY <1>1, <1>2
  <2> HIDE DEF a
  <2> QED BY <2>1
<1>4. Last(a) = x
  BY <1>1, <1>2 DEF Last
<1> HIDE DEF a
<1>5. Front(a) \in Seq(S) /\ Len(Front(a)) = n /\ \A i \in 1 .. n : Front(a)[i] = l[i]
  BY <1>1, <1>2, <1>3, FrontIs
<1>6. Front(a) = l
  <2> DEFINE f == Front(a)
  <2>1. f \in Seq(S) /\ l \in Seq(S) /\ Len(f) = Len(l) /\ \A i \in 1 .. Len(l) : f[i] = l[i]
    BY <1>5
  <2> HIDE DEF f
  <2>2. f = l
    BY <2>1, SeqEqual
  <2> QED BY <2>2 DEF f
<1> QED BY <1>1, <1>4, <1>6 DEF a

LEMMA PlainHas ==
  ASSUME NEW l, Plain(l)
  PROVE  /\ l \in Seq(Layers) /\ Len(l) \in Nat /\ Len(l) >= 1
         /\ Len(l) > 1 => Plain(Front(l))
<1>1. l \in Seq(Layers) /\ Len(l) \in Nat /\ Len(l) >= 1 /\ l # <<>>
  BY EmptySeq DEF Plain
<1>2. ASSUME Len(l) > 1 PROVE Plain(Front(l))
  <2> DEFINE f == Front(l)
             n == Len(l)
  <2>1. f \in Seq(Layers) /\ Len(f) = n - 1 /\ \A i \in 1 .. n - 1 : f[i] = l[i]
    BY <1>1, FrontIs
  <2>2. n \in Nat /\ n > 1
    BY <1>1, <1>2
  <2>3. l[1] \in Modes /\ \A d \in 2 .. n : l[d] = "vi_visual"
    BY DEF Plain
  <2> HIDE DEF f, n
  <2>4. f[1] = l[1] /\ \A d \in 2 .. n - 1 : f[d] = l[d] /\ d \in 2 .. n
    BY <2>1, <2>2
  <2> QED BY <2>1, <2>2, <2>3, <2>4 DEF Plain, f
<1> QED BY <1>1, <1>2

LEMMA PlainModes ==
  ASSUME NEW name \in Modes
  PROVE  Plain(<<name>>) /\ name \in Layers
<1>1. name \in Layers
  BY DEF Modes, Layers
<1>2. <<name>> \in Seq(Layers)
  BY <1>1, OneIs, Zenon
<1> QED BY <1>1, <1>2 DEF Plain

LEMMA OnTop ==
  ASSUME NEW l, Plain(l), NEW x \in Layers
  PROVE  /\ On(Append(l, x), x) /\ Len(Append(l, x)) > 1
         /\ x = "vi_visual" => Plain(Append(l, x))
<1> DEFINE a == Append(l, x)
<1>1. l \in Seq(Layers) /\ Len(l) \in Nat /\ Len(l) >= 1
  BY PlainHas
<1>2. a \in Seq(Layers) /\ Len(a) = Len(l) + 1 /\ Last(a) = x /\ Front(a) = l
  BY <1>1, AppendedIs
<1>3. a[Len(l) + 1] = x /\ \A i \in 1 .. Len(l) : a[i] = l[i]
  BY <1>1, AppendProperties
<1> HIDE DEF a
<1>4. On(a, x) /\ Len(a) > 1
  BY <1>1, <1>2 DEF On
<1>5. ASSUME x = "vi_visual" PROVE Plain(a)
  <2> DEFINE n == Len(l)
  <2>1. n \in Nat /\ n >= 1 /\ a \in Seq(Layers) /\ Len(a) = n + 1 /\ a[n + 1] = x
    BY <1>1, <1>2, <1>3
  <2>2. \A i \in 1 .. n : a[i] = l[i]
    BY <1>3
  <2>3. l[1] \in Modes /\ \A d \in 2 .. n : l[d] = "vi_visual"
    BY DEF Plain
  <2> HIDE DEF n
  <2>4. a[1] = l[1]
    BY <2>1, <2>2
  <2>5. ASSUME NEW d \in 2 .. n + 1 PROVE a[d] = "vi_visual"
    <3>1. CASE d = n + 1
      BY <1>5, <2>1, <3>1
    <3>2. CASE d # n + 1
      <4>1. d \in 2 .. n /\ d \in 1 .. n
        BY <2>1, <3>2
      <4> QED BY <2>2, <2>3, <4>1
    <3> QED BY <3>1, <3>2
  <2> QED BY <2>1, <2>3, <2>4, <2>5 DEF Plain
<1> QED BY <1>4, <1>5 DEF a

-----------------------------------------------------------------------------
(* What the keys are bound to, layer by layer.                             *)

DigitNames == {"vi_digit_argument", "vi_digit_or_line_start"}
MoveNames ==
  {"vi_backward_char", "vi_forward_char", "vi_line_up", "vi_line_down", "vi_word_next",
   "vi_word_prev", "vi_word_end", "vi_blank_word_next", "vi_blank_word_prev",
   "vi_blank_word_end", "vi_first_nonblank", "end_of_line", "vi_find_repeat",
   "vi_find_repeat_reverse"}
VerbNames == {"vi_delete_operator", "vi_change_operator", "vi_yank_operator"}
WriteNames ==
  {"self_insert", "delete_backward_char", "delete_backward_word", "unix_line_discard",
   "kill_line", "yank", "accept_line", "vi_delete_char", "vi_toggle_case",
   "vi_delete_to_line_end", "vi_yank_line", "vi_put_after", "vi_put_before"}
CalmNames == {"backward_char", "beginning_of_line", "end_of_file", "vi_repeat",
              "vi_visual_swap_ends", "vi_normal_reset"}
SwitchNames == InsertModes \cup {"vi_command_mode", "vi_substitute_char", "vi_change_to_line_end"}
AgainNames == {"undo", "redo"}

ModeNames ==
  DigitNames \cup MoveNames \cup Finds \cup VerbNames \cup WriteNames \cup CalmNames
    \cup SwitchNames \cup AgainNames \cup DOMAIN FallThrough
    \cup {"complete_word", "vi_replace_char", "vi_visual_mode"}
VisualNames == Objects \cup {"vi_visual_delete", "vi_visual_change", "vi_visual_yank",
                             "vi_visual_exit", "vi_visual_swap_ends"}
OperatorNames == DigitNames \cup MoveNames \cup Finds \cup Objects
                   \cup {"vi_line_object", "vi_operator_abort"}
PagerNames == {"pager_next", "pager_previous", "pager_next_row", "pager_previous_row",
               "pager_accept", "pager_close", "pager_filter_key", "pager_filter_backspace"}

ActionsOf(table) ==
  [keys \in {b[1] : b \in table} |-> (CHOOSE b \in table : b[1] = keys)[2]]
DigitKey(key) == \E d \in 0 .. 9 : key = Digits[d + 1]
(* A table has some names, and digits on keys that are digits              *)
Names(table, names) ==
  \A b \in table : b[2] \in names /\ (b[2] \in DigitNames => DigitKey(b[1]))

LEMMA TablesAre ==
  /\ keymaps["emacs"].action_for = ActionsOf(Alone(emacs))
  /\ keymaps["vi_insert"].action_for = ActionsOf(Alone(vi_insert))
  /\ keymaps["vi_command"].action_for = ActionsOf(Alone(vi_command))
  /\ keymaps["vi_operator_pending"].action_for = ActionsOf(Alone(vi_operator_pending) \cup vi_objects)
  /\ keymaps["vi_visual"].action_for = ActionsOf(Alone(vi_visual) \cup vi_objects)
  /\ keymaps["vi_find_char"].action_for = ActionsOf({})
  /\ keymaps["vi_replace_char"].action_for = ActionsOf({})
  /\ keymaps["pager"].action_for = ActionsOf(Alone(pager_keys))
BY DEF keymaps, Keymap, ActionsOf

LEMMA DefaultsAre ==
  /\ \A l \in Layers : keymaps[l].opaque <=>
       l \in {"vi_command", "vi_operator_pending", "vi_find_char", "vi_replace_char", "pager"}
  /\ \A l \in Modes \cup {"vi_operator_pending", "vi_visual"} : keymaps[l].default = ""
  /\ keymaps["vi_find_char"].default = "vi_find_char_target"
  /\ keymaps["vi_replace_char"].default = "vi_replace_char_with"
  /\ keymaps["pager"].default = "pager_filter_key"
<1>1. /\ ~keymaps["emacs"].opaque /\ ~keymaps["vi_insert"].opaque /\ ~keymaps["vi_visual"].opaque
      /\ keymaps["vi_command"].opaque /\ keymaps["vi_operator_pending"].opaque
  BY DEF keymaps, Keymap
<1>2. /\ keymaps["vi_find_char"].opaque /\ keymaps["vi_replace_char"].opaque
      /\ keymaps["pager"].opaque
  BY DEF keymaps, Keymap
<1>3. /\ keymaps["emacs"].default = "" /\ keymaps["vi_insert"].default = ""
      /\ keymaps["vi_command"].default = "" /\ keymaps["vi_operator_pending"].default = ""
      /\ keymaps["vi_visual"].default = ""
  BY DEF keymaps, Keymap
<1>4. /\ keymaps["vi_find_char"].default = "vi_find_char_target"
      /\ keymaps["vi_replace_char"].default = "vi_replace_char_with"
      /\ keymaps["pager"].default = "pager_filter_key"
  BY DEF keymaps, Keymap
<1>5. \A l \in Modes \cup {"vi_operator_pending", "vi_visual"} : keymaps[l].default = ""
  BY <1>3 DEF Modes
<1>6. \A l \in Layers : keymaps[l].opaque <=>
        l \in {"vi_command", "vi_operator_pending", "vi_find_char", "vi_replace_char", "pager"}
  BY <1>1, <1>2 DEF Layers
<1> QED BY <1>4, <1>5, <1>6

LEMMA ActionsAre ==
  ASSUME NEW table, NEW keys \in DOMAIN ActionsOf(table)
  PROVE  \E b \in table : b[1] = keys /\ ActionsOf(table)[keys] = b[2]
<1>1. \E b \in table : b[1] = keys
  BY DEF ActionsOf
<1>2. ActionsOf(table)[keys] = (CHOOSE b \in table : b[1] = keys)[2]
  BY DEF ActionsOf
<1> QED BY <1>1, <1>2

LEMMA InsertingNames ==
  /\ Names(emacs, ModeNames) /\ Names(vi_insert, ModeNames)
<1> USE DEF emacs, vi_insert, inserting, erasing, accepting, accept_by_fallthrough, All
<1>1. Names(emacs, ModeNames)
  BY DEF Names, ModeNames, DigitNames, MoveNames, WriteNames, CalmNames, SwitchNames, AgainNames,
         FallThrough
<1>2. Names(vi_insert, ModeNames)
  BY DEF Names, ModeNames, DigitNames, MoveNames, WriteNames, CalmNames, SwitchNames, AgainNames,
         FallThrough
<1> QED BY <1>1, <1>2

LEMMA MotionNames ==
  Names(vi_motions \cup digits, DigitNames \cup MoveNames \cup Finds)
<1>1. Names(vi_motions, DigitNames \cup MoveNames \cup Finds)
  <2> DEFINE chars == {<<"h", "vi_backward_char">>, <<"l", "vi_forward_char">>, <<"j", "vi_line_down">>, <<"k", "vi_line_up">>,
               <<"<Left>", "vi_backward_char">>, <<"<Right>", "vi_forward_char">>,
               <<"<Up>", "vi_line_up">>, <<"<Down>", "vi_line_down">>}
             words == {<<"^", "vi_first_nonblank">>, <<"$", "end_of_line">>,
               <<"w", "vi_word_next">>, <<"b", "vi_word_prev">>, <<"e", "vi_word_end">>,
               <<"W", "vi_blank_word_next">>, <<"B", "vi_blank_word_prev">>,
               <<"E", "vi_blank_word_end">>}
             finds == {<<"f", "vi_find_forward">>, <<"F", "vi_find_backward">>,
               <<"t", "vi_till_forward">>, <<"T", "vi_till_backward">>}
             signs == {<<" ", "vi_forward_char">>} \cup {<<";", "vi_find_repeat">>}
                        \cup {<<",", "vi_find_repeat_reverse">>}
  <2>1. \A b \in vi_motions : b[2] \in MoveNames \cup Finds
    <3>0. \A x, y : \A b \in {<<x, y>>} : b[2] = y
      OBVIOUS
    <3>1. \A b \in chars : b[2] \in MoveNames
      BY DEF MoveNames
    <3>2. \A b \in words : b[2] \in MoveNames
      BY DEF MoveNames
    <3>3. \A b \in finds : b[2] \in MoveNames \cup Finds
      BY DEF MoveNames, Finds
    <3>4. \A b \in signs : b[2] \in {"vi_forward_char", "vi_find_repeat", "vi_find_repeat_reverse"}
      BY <3>0, Zenon
    <3>5. {"vi_forward_char", "vi_find_repeat", "vi_find_repeat_reverse"} \subseteq MoveNames
      BY DEF MoveNames
    <3>6. vi_motions \subseteq chars \cup words \cup finds \cup signs
      BY Zenon DEF vi_motions
    <3> HIDE DEF chars, words, finds, signs
    <3> QED BY <3>1, <3>2, <3>3, <3>4, <3>5, <3>6
  <2>2. \A name \in MoveNames \cup Finds : name \notin DigitNames
    BY DEF DigitNames, MoveNames, Finds
  <2> QED BY <2>1, <2>2, Zenon DEF Names
<1>2. Names(digits, DigitNames \cup MoveNames \cup Finds)
  BY DEF Names, digits, All, DigitNames, DigitKey, Digits
<1> QED BY <1>1, <1>2 DEF Names

LEMMA CommandNames == Names(vi_command, ModeNames)
<1> DEFINE table == vi_motions \cup digits
           more ==
  {<<"d", "vi_delete_operator">>, <<"c", "vi_change_operator">>, <<"y", "vi_yank_operator">>,
   <<"x", "vi_delete_char">>, <<"s", "vi_substitute_char">>, <<"r", "vi_replace_char">>,
   <<"~", "vi_toggle_case">>, <<"D", "vi_delete_to_line_end">>,
   <<"C", "vi_change_to_line_end">>, <<"Y", "vi_yank_line">>, <<"p", "vi_put_after">>,
   <<"P", "vi_put_before">>, <<"i", "vi_insert_mode">>, <<"I", "vi_insert_at_line_start">>,
   <<"a", "vi_append">>, <<"A", "vi_append_at_line_end">>, <<"o", "vi_open_below">>,
   <<"O", "vi_open_above">>, <<"v", "vi_visual_mode">>, <<".", "vi_repeat">>,
   <<"Esc", "vi_normal_reset">>, <<"u", "undo">>, <<"C-r", "redo">>,
   <<"<Home>", "beginning_of_line">>, <<"<End>", "end_of_line">>,
   <<"w", "accept_suggestion_or_word_start_next">>,
   <<"e", "accept_suggestion_or_word_end_next">>}
<1>1. vi_command \subseteq table \cup accepting \cup more
  BY DEF vi_command, Bind
<1>2. Names(more, ModeNames)
  BY DEF Names, ModeNames, DigitNames, MoveNames, VerbNames, WriteNames, CalmNames, SwitchNames,
         InsertModes, AgainNames, FallThrough
<1>3. Names(accepting, ModeNames)
  BY DEF Names, accepting, All, ModeNames, DigitNames, WriteNames
<1>4. Names(table, ModeNames)
  BY MotionNames DEF Names, ModeNames
<1> HIDE DEF table, more
<1> QED BY <1>1, <1>2, <1>3, <1>4 DEF Names

LEMMA PendingNames == Names(vi_operator_pending, OperatorNames)
<1>1. Names(vi_motions \cup digits, OperatorNames)
  BY MotionNames DEF Names, OperatorNames
<1>2. Names(All({"d", "c", "y"}, "vi_line_object") \cup {<<"Esc", "vi_operator_abort">>}, OperatorNames)
  BY DEF Names, All, OperatorNames, DigitNames
<1> QED BY <1>1, <1>2 DEF Names, vi_operator_pending

LEMMA SelectingNames == Names(vi_visual, VisualNames) /\ Names(pager_keys, PagerNames)
<1>1. Names(vi_visual, VisualNames)
  BY DEF Names, vi_visual, All, VisualNames, DigitNames
<1>2. Names(pager_keys, PagerNames)
  BY DEF Names, pager_keys, All, PagerNames, DigitNames
<1> QED BY <1>1, <1>2

LEMMA ObjectNames == \A b \in vi_objects : b[2] \in Objects
<1>1. \A b \in {<<<<"i", "w">>, "vi_object_inner_word">>, <<<<"a", "w">>, "vi_object_a_word">>,
          <<<<"i", "W">>, "vi_object_inner_blank_word">>, <<<<"a", "W">>, "vi_object_a_blank_word">>} :
        b[2] \in Objects
  BY DEF Objects
<1>2. \A one : \A b \in {<<<<"i", one>>, "vi_object_inner_pair">>, <<<<"a", one>>, "vi_object_a_pair">>} :
        b[2] \in Objects
  BY DEF Objects
<1>3. ASSUME NEW b \in vi_objects PROVE b[2] \in Objects
  BY <1>1, <1>2, <1>3, Zenon DEF vi_objects
<1> QED BY <1>3

(* What the keys resolve to: nothing yet, or what an asked layer has for   *)
(* them, or what it does of any other key, or their text.                  *)
BoundIn(l, keys, what) ==
  \E d \in Asked(l) : /\ keys \in DOMAIN keymaps[l[d]].action_for
                      /\ what = keymaps[l[d]].action_for[keys]
CaughtIn(l, what) ==
  \E d \in Asked(l) : keymaps[l[d]].default # "" /\ what = keymaps[l[d]].default

TypedIn(l, what) ==
  what = "self_insert" /\ \A d \in Asked(l) : ~keymaps[l[d]].opaque

LEMMA TopIs ==
  ASSUME NEW n \in Nat, NEW depths, depths \subseteq 1 .. n, depths # {}
  PROVE  TopOf(depths) \in depths
<1>1. depths \subseteq 0 .. n
  OBVIOUS
<1>2. \E d \in depths : \A e \in depths : e <= d
  BY <1>1, HasGreatest
<1> QED BY <1>2 DEF TopOf

LEMMA SettlesOn ==
  ASSUME NEW l \in Seq(Layers), NEW keys
  PROVE  \/ settle(l, keys) = Nothing \/ TypedIn(l, settle(l, keys))
         \/ BoundIn(l, keys, settle(l, keys)) \/ CaughtIn(l, settle(l, keys))
<1> DEFINE asked == Asked(l)
           exact == {d \in asked : keys \in DOMAIN keymaps[l[d]].action_for}
           caught == {d \in asked : keymaps[l[d]].default # ""}
           floored == \A d \in asked : ~keymaps[l[d]].opaque
           n == Len(l)
<1>1. settle(l, keys) =
        CASE exact # {} -> keymaps[l[TopOf(exact)]].action_for[keys]
          [] exact = {} /\ Len(keys) = 1 /\ caught # {} -> keymaps[l[TopOf(caught)]].default
          [] exact = {} /\ Len(keys) = 1 /\ caught = {} /\ floored
               /\ is_self_inserting(keys[1]) -> "self_insert"
          [] OTHER -> Nothing
  BY DEF settle
<1>2. n \in Nat /\ exact \subseteq 1 .. n /\ caught \subseteq 1 .. n
  <2>1. DOMAIN l = 1 .. n /\ n \in Nat
    OBVIOUS
  <2>2. asked \subseteq DOMAIN l
    BY DEF Asked
  <2> HIDE DEF asked, n
  <2> QED BY <2>1, <2>2
<1>3. CASE exact # {}
  <2>1. settle(l, keys) = keymaps[l[TopOf(exact)]].action_for[keys]
    <3> HIDE DEF exact, caught, floored
    <3> QED BY <1>1, <1>3
  <2>2. TopOf(exact) \in exact
    <3> HIDE DEF exact, n
    <3> QED BY <1>2, <1>3, TopIs
  <2> QED BY <2>1, <2>2 DEF BoundIn
<1>4. CASE exact = {} /\ Len(keys) = 1 /\ caught # {}
  <2>1. settle(l, keys) = keymaps[l[TopOf(caught)]].default
    <3> HIDE DEF exact, caught, floored
    <3> QED BY <1>1, <1>4
  <2>2. TopOf(caught) \in caught
    <3> HIDE DEF caught, n
    <3> QED BY <1>2, <1>4, TopIs
  <2> QED BY <2>1, <2>2 DEF CaughtIn
<1>5. CASE exact = {} /\ ~(Len(keys) = 1 /\ caught # {})
  <2>1. settle(l, keys) = Nothing \/ (floored /\ settle(l, keys) = "self_insert")
    <3> HIDE DEF exact, caught, floored
    <3> QED BY <1>1, <1>5
  <2> QED BY <2>1 DEF TypedIn
<1> QED BY <1>3, <1>4, <1>5

LEMMA ResolvesTo ==
  ASSUME NEW l \in Seq(Layers), NEW keys
  PROVE  LET what == resolve_keys(l, keys) IN
         what \in {Held, Nothing} \/ TypedIn(l, what) \/ BoundIn(l, keys, what) \/ CaughtIn(l, what)
BY SettlesOn DEF resolve_keys

(* A digit is bound to digits only                                         *)
Digitally(keys, what) == what \in DigitNames => \E d \in 0 .. 9 : keys = <<Digits[d + 1]>>

LEMMA FromTable ==
  ASSUME NEW table, NEW names, Names(table, names), NEW more, more \subseteq vi_objects,
         NEW keys \in DOMAIN ActionsOf(Alone(table) \cup more)
  PROVE  /\ ActionsOf(Alone(table) \cup more)[keys] \in names \cup Objects
         /\ more = {} => ActionsOf(Alone(table) \cup more)[keys] \in names
         /\ Digitally(keys, ActionsOf(Alone(table) \cup more)[keys])
<1> DEFINE what == ActionsOf(Alone(table) \cup more)[keys]
<1>1. PICK b \in Alone(table) \cup more : b[1] = keys /\ what = b[2]
  BY ActionsAre
<1> HIDE DEF what
<1>2. CASE b \in Alone(table)
  <2>1. PICK c \in table : b = <<<<c[1]>>, c[2]>>
    BY <1>2 DEF Alone
  <2>2. b[1] = <<c[1]>> /\ b[2] = c[2]
    BY <2>1
  <2>3. what \in names /\ (what \in DigitNames => DigitKey(c[1]))
    BY <1>1, <2>2 DEF Names
  <2>4. Digitally(keys, what)
    BY <1>1, <2>2, <2>3 DEF Digitally, DigitKey
  <2> QED BY <2>3, <2>4 DEF what
<1>3. CASE b \in more
  <2>1. what \in Objects
    BY <1>1, <1>3, ObjectNames
  <2>2. what \notin DigitNames
    BY <2>1 DEF Objects, DigitNames
  <2> QED BY <1>3, <2>1, <2>2 DEF Digitally, what
<1> QED BY <1>1, <1>2, <1>3

(* What a layer has, layer by layer.                                       *)
LEMMA LayerHas ==
  ASSUME NEW x \in Layers, NEW keys \in DOMAIN keymaps[x].action_for
  PROVE  LET what == keymaps[x].action_for[keys] IN
         /\ x \in Modes => what \in ModeNames
         /\ x = "vi_visual" => what \in VisualNames
         /\ x = "vi_operator_pending" => what \in OperatorNames
         /\ x = "pager" => what \in PagerNames
         /\ x \notin {"vi_find_char", "vi_replace_char"}
         /\ Digitally(keys, what)
<1> DEFINE what == keymaps[x].action_for[keys]
           none == {}
<1>0. none \subseteq vi_objects /\ vi_objects \subseteq vi_objects
      /\ \A table : Alone(table) \cup none = Alone(table)
  OBVIOUS
<1>1. CASE x = "emacs"
  <2>1. keymaps[x].action_for = ActionsOf(Alone(emacs) \cup none)
    BY <1>0, <1>1, TablesAre
  <2> HIDE DEF none
  <2>2. what \in ModeNames \cup Objects /\ (none = {} => what \in ModeNames) /\ Digitally(keys, what)
    BY <1>0, <2>1, InsertingNames, FromTable
  <2> QED BY <1>1, <2>2 DEF none
<1>2. CASE x = "vi_insert"
  <2>1. keymaps[x].action_for = ActionsOf(Alone(vi_insert) \cup none)
    BY <1>0, <1>2, TablesAre
  <2> HIDE DEF none
  <2>2. what \in ModeNames \cup Objects /\ (none = {} => what \in ModeNames) /\ Digitally(keys, what)
    BY <1>0, <2>1, InsertingNames, FromTable
  <2> QED BY <1>2, <2>2 DEF none
<1>3. CASE x = "vi_command"
  <2>1. keymaps[x].action_for = ActionsOf(Alone(vi_command) \cup none)
    BY <1>0, <1>3, TablesAre
  <2> HIDE DEF none
  <2>2. what \in ModeNames \cup Objects /\ (none = {} => what \in ModeNames) /\ Digitally(keys, what)
    BY <1>0, <2>1, CommandNames, FromTable
  <2> QED BY <1>3, <2>2 DEF none
<1>4. CASE x = "vi_operator_pending"
  <2>1. keymaps[x].action_for = ActionsOf(Alone(vi_operator_pending) \cup vi_objects)
    BY <1>4, TablesAre
  <2>2. what \in OperatorNames \cup Objects /\ Digitally(keys, what)
    BY <1>0, <2>1, PendingNames, FromTable
  <2>3. Objects \subseteq OperatorNames
    BY DEF OperatorNames
  <2> QED BY <1>4, <2>2, <2>3 DEF Modes
<1>5. CASE x = "vi_visual"
  <2>1. keymaps[x].action_for = ActionsOf(Alone(vi_visual) \cup vi_objects)
    BY <1>5, TablesAre
  <2>2. what \in VisualNames \cup Objects /\ Digitally(keys, what)
    BY <1>0, <2>1, SelectingNames, FromTable
  <2>3. Objects \subseteq VisualNames
    BY DEF VisualNames
  <2> QED BY <1>5, <2>2, <2>3 DEF Modes
<1>6. CASE x = "pager"
  <2>1. keymaps[x].action_for = ActionsOf(Alone(pager_keys) \cup none)
    BY <1>0, <1>6, TablesAre
  <2> HIDE DEF none
  <2>2. what \in PagerNames \cup Objects /\ (none = {} => what \in PagerNames) /\ Digitally(keys, what)
    BY <1>0, <2>1, SelectingNames, FromTable
  <2> QED BY <1>6, <2>2 DEF none, Modes
<1>7. CASE x \in {"vi_find_char", "vi_replace_char"}
  <2>1. keymaps[x].action_for = ActionsOf({})
    BY <1>7, TablesAre
  <2>2. \E b \in {} : b[1] = keys
    BY <2>1, ActionsAre
  <2> QED BY <2>2
<1> QED BY <1>1, <1>2, <1>3, <1>4, <1>5, <1>6, <1>7 DEF Layers

LEMMA EndIsAsked ==
  ASSUME NEW l \in Seq(Layers), Len(l) >= 1
  PROVE  Len(l) \in Asked(l) /\ Last(l) = l[Len(l)] /\ Last(l) \in Layers
<1> DEFINE n == Len(l)
<1>1. n \in Nat /\ n \in 1 .. n /\ DOMAIN l = 1 .. n
  OBVIOUS
<1>2. n + 1 .. n = {}
  BY <1>1
<1>3. l[n] \in Layers
  BY <1>1
<1> QED BY <1>1, <1>2, <1>3 DEF Asked, Last

(* Under a layer that is opaque nothing is asked.                          *)
LEMMA OpaqueHides ==
  ASSUME NEW l \in Seq(Layers), Len(l) >= 1, keymaps[Last(l)].opaque, NEW d \in Asked(l)
  PROVE  d = Len(l)
<1> DEFINE n == Len(l)
<1>1. n \in Nat /\ d \in 1 .. n /\ Last(l) = l[n]
  <2>1. DOMAIN l = 1 .. n /\ n \in Nat
    OBVIOUS
  <2>2. d \in DOMAIN l
    BY DEF Asked
  <2> HIDE DEF n
  <2> QED BY <2>1, <2>2 DEF Last, n
<1>2. \A e \in d + 1 .. n : ~keymaps[l[e]].opaque
  BY DEF Asked
<1> HIDE DEF n
<1>3. CASE d < n
  <2>1. n \in d + 1 .. n
    BY <1>1, <1>3
  <2> QED BY <1>1, <1>2, <2>1
<1> QED BY <1>1, <1>3 DEF n

(* What a mode, with its selections above it, has for the keys.            *)
AtModeNames(l, what) == what \in ModeNames \/ (Len(l) > 1 /\ what \in VisualNames)

LEMMA PlainBinds ==
  ASSUME NEW l, Plain(l), NEW keys
  PROVE  LET what == resolve_keys(l, keys) IN
         \/ what \in {Held, Nothing}
         \/ AtModeNames(l, what) /\ Digitally(keys, what)
<1> DEFINE what == resolve_keys(l, keys)
<1>1. l \in Seq(Layers) /\ Len(l) \in Nat /\ Len(l) >= 1
  BY PlainHas
<1>2. what \in {Held, Nothing} \/ TypedIn(l, what) \/ BoundIn(l, keys, what) \/ CaughtIn(l, what)
  BY <1>1, ResolvesTo
<1>3. ASSUME NEW d \in Asked(l)
      PROVE  /\ l[d] \in Modes \/ (Len(l) > 1 /\ l[d] = "vi_visual")
             /\ l[d] \in Layers
  <2>1. DOMAIN l = 1 .. Len(l)
    BY <1>1
  <2>2. d \in 1 .. Len(l) /\ l[d] \in Layers
    BY <1>1, <2>1 DEF Asked
  <2>3. CASE d = 1
    BY <2>2, <2>3 DEF Plain
  <2>4. CASE d # 1
    <3>1. d \in 2 .. Len(l) /\ Len(l) > 1
      BY <1>1, <2>2, <2>4
    <3> QED BY <2>2, <3>1 DEF Plain
  <2> QED BY <2>3, <2>4
<1> HIDE DEF what
<1>4. CASE TypedIn(l, what)
  <2>1. what = "self_insert"
    BY <1>4 DEF TypedIn
  <2>2. what \in ModeNames
    BY <2>1 DEF ModeNames, WriteNames
  <2>3. what \notin DigitNames
    BY <2>1 DEF DigitNames
  <2> QED BY <2>2, <2>3, Zenon DEF AtModeNames, Digitally, what
<1>5. CASE BoundIn(l, keys, what)
  <2>1. PICK d \in Asked(l) : /\ keys \in DOMAIN keymaps[l[d]].action_for
                              /\ what = keymaps[l[d]].action_for[keys]
    BY <1>5 DEF BoundIn
  <2>2. /\ l[d] \in Modes => what \in ModeNames
        /\ l[d] = "vi_visual" => what \in VisualNames
        /\ Digitally(keys, what)
    BY <1>3, <2>1, LayerHas
  <2> QED BY <1>3, <2>2, Zenon DEF AtModeNames, what
<1>6. CASE CaughtIn(l, what)
  <2>1. PICK d \in Asked(l) : keymaps[l[d]].default # ""
    BY <1>6 DEF CaughtIn
  <2>2. l[d] \in Modes \cup {"vi_operator_pending", "vi_visual"}
    BY <1>3
  <2> QED BY <2>1, <2>2, DefaultsAre
<1> QED BY <1>2, <1>4, <1>5, <1>6 DEF what

(* What the layers that wait for something have for the keys.              *)
LEMMA OnBinds ==
  ASSUME NEW l \in Seq(Layers), Len(l) >= 1, NEW keys
  PROVE  LET what == resolve_keys(l, keys) IN
         /\ Last(l) = "vi_operator_pending" =>
              what \in {Held, Nothing} \/ (what \in OperatorNames /\ Digitally(keys, what))
         /\ Last(l) = "vi_find_char" => what \in {Held, Nothing, "vi_find_char_target"}
         /\ Last(l) = "vi_replace_char" => what \in {Held, Nothing, "vi_replace_char_with"}
         /\ Last(l) = "pager" => what \in {Held, Nothing} \cup PagerNames
<1> DEFINE what == resolve_keys(l, keys)
           x == Last(l)
<1>1. what \in {Held, Nothing} \/ TypedIn(l, what) \/ BoundIn(l, keys, what) \/ CaughtIn(l, what)
  BY ResolvesTo
<1>2. Len(l) \in Asked(l) /\ x = l[Len(l)] /\ x \in Layers
  BY EndIsAsked
<1>3. keymaps[x].opaque => \A d \in Asked(l) : d = Len(l)
  BY OpaqueHides
<1> HIDE DEF what, x
<1> SUFFICES ASSUME x \in {"vi_operator_pending", "vi_find_char", "vi_replace_char", "pager"}
             PROVE  /\ x = "vi_operator_pending" =>
                         what \in {Held, Nothing} \/ (what \in OperatorNames /\ Digitally(keys, what))
                    /\ x = "vi_find_char" => what \in {Held, Nothing, "vi_find_char_target"}
                    /\ x = "vi_replace_char" => what \in {Held, Nothing, "vi_replace_char_with"}
                    /\ x = "pager" => what \in {Held, Nothing} \cup PagerNames
  BY DEF what, x
<1>4. keymaps[x].opaque
  BY <1>2, DefaultsAre
<1>5. \A d \in Asked(l) : l[d] = x
  BY <1>2, <1>3, <1>4
<1>6. ~TypedIn(l, what)
  BY <1>2, <1>4 DEF TypedIn
<1>7. CASE BoundIn(l, keys, what)
  <2>1. keys \in DOMAIN keymaps[x].action_for /\ what = keymaps[x].action_for[keys]
    BY <1>5, <1>7 DEF BoundIn
  <2>2. /\ x = "vi_operator_pending" => what \in OperatorNames
        /\ x = "pager" => what \in PagerNames
        /\ x \notin {"vi_find_char", "vi_replace_char"}
        /\ Digitally(keys, what)
    BY <1>2, <2>1, LayerHas
  <2> QED BY <2>2
<1>8. CASE CaughtIn(l, what)
  <2>1. keymaps[x].default # "" /\ what = keymaps[x].default
    BY <1>5, <1>8 DEF CaughtIn
  <2>2. "pager_filter_key" \in PagerNames
    BY DEF PagerNames
  <2>3. x = "vi_operator_pending" => keymaps[x].default = ""
    BY DefaultsAre
  <2>4. CASE x = "vi_find_char"
    BY <2>1, <2>4, DefaultsAre
  <2>5. CASE x = "vi_replace_char"
    BY <2>1, <2>5, DefaultsAre
  <2>6. CASE x = "pager"
    BY <2>1, <2>2, <2>6, DefaultsAre
  <2> QED BY <2>1, <2>3, <2>4, <2>5, <2>6
<1> QED BY <1>1, <1>6, <1>7, <1>8

LEMMA DigitHow ==
  ASSUME NEW keys, NEW d \in 0 .. 9, keys = <<Digits[d + 1]>>, NEW how,
         how.keys = encoded_keys_as_text(keys)
  PROVE  Digits[d + 1] = last_key_byte(how)
<1> DEFINE key == Digits[d + 1]
           digit == {"0", "1", "2", "3", "4", "5", "6", "7", "8", "9"}
<1>1. key \in digit
  BY DEF Digits
<1>2. key \notin Named
  BY <1>1 DEF Named
<1> HIDE DEF key, digit
<1>3. <<key>> \in Seq({key}) /\ Len(<<key>>) = 1 /\ <<key>>[1] = key
  <2>1. <<key>> \in Seq({key})
    BY OneIs, Zenon
  <2> QED BY <2>1
<1>4. key \in ToSet(<<key>>)
  BY <1>3 DEF ToSet
<1> DEFINE wanted == ToSet(<<key>>) \ Named
<1>5. Among(<<key>>, wanted) = <<key>>
  <2>1. <<key>>[1] \in wanted
    BY <1>2, <1>3, <1>4
  <2> HIDE DEF wanted
  <2>2. Among(<<key>>, wanted) = <<<<key>>[1]>>
    BY <1>3, <2>1, AmongIs
  <2> QED BY <1>3, <2>2
<1>6. how.keys = <<key>>
  BY <1>5 DEF encoded_keys_as_text, key
<1>7. <<key>> # <<>> /\ Last(<<key>>) = key
  BY <1>3 DEF Last
<1> QED BY <1>6, <1>7 DEF last_key_byte, key

-----------------------------------------------------------------------------
(* What the actions do, where they are bound.                              *)

LEMMA MotionsAre ==
  {"prev", "next", "start", "end", "nonblank", "up", "down", "word", "back", "last", "WORD",
   "BACK", "LAST", "next_word"} \subseteq Motions
BY DEF Motions

LEMMA MovesLook ==
  ASSUME NEW h, IsHandle(h), NEW how, IsHow(how), NEW name \in MoveNames
  PROVE  Looks(h, Act(name, h, how))
<1>1. count_of(how) \in Nat
  BY CountIs
<1>2. \A motion \in Motions : Looks(h, move_repeated(h, motion, count_of(how)))
  BY <1>1, MoveRepeatedLooks
<1>3. \A motion \in Motions :
        Looks(h, extend_inclusive(move_repeated(h, motion, count_of(how))))
  <2> TAKE motion \in Motions
  <2> DEFINE g == move_repeated(h, motion, count_of(how))
  <2>1. Looks(h, g) /\ IsHandle(g)
    BY <1>2 DEF Looks, Calm
  <2> HIDE DEF g
  <2>2. Looks(g, extend_inclusive(g))
    BY <2>1, ExtendLooks
  <2>3. Looks(h, extend_inclusive(g))
    BY <2>1, <2>2, LooksOn
  <2> QED BY <2>3 DEF g
<1>4. \A motion \in Motions : Looks(h, cursor_set(h, To(h, motion)))
  BY ToIsInside, CursorSet
<1>5. \A kind : Looks(h, perform_find(h, kind, count_of(how)))
  BY <1>1, FindLooks
<1>6. Looks(h, h)
  BY LooksAlone
<1>7. CASE name \in {"vi_backward_char", "vi_forward_char", "vi_line_up", "vi_line_down",
                     "vi_word_next", "vi_word_prev", "vi_blank_word_next", "vi_blank_word_prev"}
  BY <1>2, <1>7, MotionsAre, MoveActsAre
<1>8. CASE name \in {"vi_word_end", "vi_blank_word_end"}
  BY <1>3, <1>8, MotionsAre, MoveActsAre
<1>9. CASE name \in {"vi_first_nonblank", "end_of_line"}
  BY <1>4, <1>9, MotionsAre, PlainActsAre
<1>10. CASE name = "vi_find_repeat"
  BY <1>5, <1>10, ViActsAre
<1>11. CASE name = "vi_find_repeat_reverse"
  <2>1. Act("vi_find_repeat_reverse", h, how) =
          IF h.t.last_find = "" THEN h
          ELSE perform_find(h, reversed[h.t.last_find], count_of(how))
    BY EitherActsAre, Zenon
  <2>2. CASE h.t.last_find = ""
    BY <1>6, <1>11, <2>1, <2>2, Zenon
  <2>3. CASE h.t.last_find # ""
    BY <1>5, <1>11, <2>1, <2>3, Zenon
  <2> QED BY <2>2, <2>3
<1> QED BY <1>7, <1>8, <1>9, <1>10, <1>11 DEF MoveNames

LEMMA CalmLooks ==
  ASSUME NEW h, IsHandle(h), NEW how, IsHow(how),
         NEW name \in {"backward_char", "beginning_of_line", "end_of_file", "vi_repeat",
                       "vi_visual_swap_ends"}
  PROVE  Looks(h, Act(name, h, how))
<1>1. \A motion \in Motions : Looks(h, cursor_set(h, To(h, motion)))
  BY ToIsInside, CursorSet
<1>2. CASE name \in {"backward_char", "beginning_of_line"}
  BY <1>1, <1>2, MotionsAre, PlainActsAre
<1>3. CASE name = "end_of_file"
  BY <1>3, AcceptLineDoes, PlainActsAre
<1>4. CASE name = "vi_repeat"
  BY <1>4, RepeatLooks, ViActsAre
<1>5. CASE name = "vi_visual_swap_ends"
  BY <1>5, SwapLooks, VisualActsAre
<1> QED BY <1>2, <1>3, <1>4, <1>5

LEMMA WritesDo ==
  ASSUME NEW h, IsHandle(h), NEW how, IsHow(how), NEW name \in WriteNames
  PROVE  Does(h, Act(name, h, how))
<1>1. CASE name = "self_insert"
  BY <1>1, YankDoes, PlainActsAre
<1>2. CASE name = "yank"
  BY <1>2, YankDoes, PlainActsAre
<1>3. CASE name = "delete_backward_char"
  <2>1. To(h, "prev") \in Offsets(h.text)
    BY ToIsInside, MotionsAre
  <2>2. Does(h, delete_back_to(h, To(h, "prev")))
    BY <2>1, ErasedDoes
  <2> QED BY <1>3, <2>2, PlainActsAre
<1>4. CASE name = "delete_backward_word"
  <2>1. prev_word_of(h.text, h.cursor) \in Offsets(h.text) /\ h.cursor \in Offsets(h.text)
    <3>1. h.text \in Seq(Token) /\ h.cursor \in Offsets(h.text)
      BY CursorIs
    <3> DEFINE big == TRUE
    <3>2. prev_word_of(h.text, h.cursor) = word_start_prev(h.text, h.cursor, big)
      BY DEF prev_word_of
    <3> HIDE DEF big
    <3>3. word_start_prev(h.text, h.cursor, big) \in 0 .. h.cursor
      BY <3>1, WordsAreInside
    <3> QED BY <3>1, <3>2, <3>3, CursorIs
  <2>2. Does(h, Kill(h, prev_word_of(h.text, h.cursor), h.cursor))
    BY <2>1, KillDoes
  <2> QED BY <1>4, <2>2, PlainActsAre
<1>5. CASE name = "unix_line_discard"
  <2>1. To(h, "start") \in Offsets(h.text) /\ h.cursor \in Offsets(h.text)
    BY ToIsInside, MotionsAre, CursorIs
  <2>2. Does(h, Kill(h, To(h, "start"), h.cursor))
    BY <2>1, KillDoes
  <2> QED BY <1>5, <2>2, PlainActsAre
<1>6. CASE name = "kill_line"
  <2>1. To(h, "end") \in Offsets(h.text) /\ h.cursor \in Offsets(h.text)
    BY ToIsInside, MotionsAre, CursorIs
  <2>2. Does(h, Kill(h, h.cursor, To(h, "end")))
    BY <2>1, KillDoes
  <2> QED BY <1>6, <2>2, PlainActsAre
<1>7. CASE name = "accept_line"
  BY <1>7, AcceptLineDoes, PlainActsAre
<1>8. CASE name = "vi_delete_char"
  BY <1>8, DeleteCharDoes, ViActsAre
<1>9. CASE name = "vi_toggle_case"
  BY <1>9, ToggleDoes, ViActsAre
<1>10. CASE name = "vi_delete_to_line_end"
  BY <1>10, DeleteToEndDoes, ViActsAre
<1>11. CASE name = "vi_yank_line"
  BY <1>11, YankLineDoes, ViActsAre
<1>12. CASE name \in {"vi_put_after", "vi_put_before"}
  <2>1. PICK after \in BOOLEAN : Act(name, h, how) = put(h, how, after)
    BY <1>12, ObjectActsAre
  <2>2. Does(h, put(h, how, after))
    BY PutDoes
  <2> QED BY <2>1, <2>2
<1> QED BY <1>1, <1>2, <1>3, <1>4, <1>5, <1>6, <1>7, <1>8, <1>9, <1>10, <1>11, <1>12
        DEF WriteNames

LEMMA SwitchesSwitch ==
  ASSUME NEW h, IsHandle(h), NEW how, IsHow(how), NEW name \in SwitchNames
  PROVE  \E mode_ \in Modes : Switched(h, Act(name, h, how), mode_)
<1>0. "vi_insert" \in Modes /\ "vi_command" \in Modes
  BY DEF Modes
<1>1. CASE name \in InsertModes
  <2>1. Act(name, h, how) = vi_insert_at(h, name)
    BY <1>1, MoveActsAre DEF InsertModes
  <2>2. Switched(h, vi_insert_at(h, name), "vi_insert")
    BY <1>1, InsertSwitches
  <2> QED BY <1>0, <2>1, <2>2
<1>2. CASE name = "vi_command_mode"
  BY <1>0, <1>2, CommandSwitches, ViActsAre
<1> DEFINE into == "vi_insert"
<1>3. into \in Layers /\ into \in Modes
  BY DEF Layers, Modes
<1>4. /\ Act("vi_substitute_char", h, how) = mode_set(vi_delete_char(h, how), into)
      /\ Act("vi_change_to_line_end", h, how) = mode_set(vi_delete_to_line_end(h), into)
  BY ViActsAre
<1> HIDE DEF into
<1>5. CASE name = "vi_substitute_char"
  <2>1. Switched(h, mode_set(vi_delete_char(h, how), into), into)
    BY <1>3, DeleteCharDoes, DoesThenSwitches
  <2> QED BY <1>3, <1>4, <1>5, <2>1
<1>6. CASE name = "vi_change_to_line_end"
  <2>1. Switched(h, mode_set(vi_delete_to_line_end(h), into), into)
    BY <1>3, DeleteToEndDoes, DoesThenSwitches
  <2> QED BY <1>3, <1>4, <1>6, <2>1
<1> QED BY <1>1, <1>2, <1>5, <1>6 DEF SwitchNames

(* What an action bound in a mode leaves: the modes in step, and what was  *)
(* killed what has gone                                                    *)
Keeps(h, g) == IsHandle(g) /\ TextKept(g.t, h.t) /\ KillFits(h, g) /\ InStep(g.t)

LEMMA TurnedKeeps ==
  ASSUME NEW h, NEW g, NEW layers, NEW operator, Turned(h, g, layers, operator),
         operator = "", Plain(layers), ~h.t.pager.open
  PROVE  Keeps(h, g)
<1>1. /\ IsHandle(g) /\ TextKept(g.t, h.t) /\ KillFits(h, g)
      /\ g.t.layers = layers /\ g.t.operator = operator /\ g.t.pager = h.t.pager
  BY DEF Turned
<1>2. AtMode(g.t)
  BY <1>1 DEF AtMode
<1> QED BY <1>1, <1>2 DEF Keeps, InStep

LEMMA PushedKeeps ==
  ASSUME NEW h, NEW g, NEW x \in Layers, Turns(h, g, Append(h.t.layers, x), h.t.operator),
         AtMode(h.t), x \in {"vi_find_char", "vi_replace_char", "vi_visual"}
  PROVE  Keeps(h, g)
<1>1. Turned(h, g, Append(h.t.layers, x), h.t.operator)
  BY TurnsTurned
<1>2. /\ IsHandle(g) /\ TextKept(g.t, h.t) /\ KillFits(h, g)
      /\ g.t.layers = Append(h.t.layers, x) /\ g.t.operator = "" /\ ~g.t.pager.open
  BY <1>1 DEF Turned, AtMode
<1>3. On(g.t.layers, x) /\ (x = "vi_visual" => Plain(g.t.layers))
  BY <1>2, OnTop DEF AtMode
<1>4. InStep(g.t)
  BY <1>2, <1>3 DEF InStep, AtMode, Awaiting
<1> QED BY <1>2, <1>4 DEF Keeps

(* A verb waits for its motion.                                            *)
LEMMA VerbKeeps ==
  ASSUME NEW h, NEW g, NEW verb \in Verbs, NEW x \in Layers, x = "vi_operator_pending",
         Turns(h, g, Append(h.t.layers, x), verb), AtMode(h.t)
  PROVE  Keeps(h, g)
<1>1. Turned(h, g, Append(h.t.layers, x), verb)
  BY TurnsTurned
<1>2. /\ IsHandle(g) /\ TextKept(g.t, h.t) /\ KillFits(h, g)
      /\ g.t.layers = Append(h.t.layers, x) /\ g.t.operator = verb /\ ~g.t.pager.open
  BY <1>1 DEF Turned, AtMode
<1>3. On(g.t.layers, x)
  BY <1>2, OnTop DEF AtMode
<1>4. Operating(g.t)
  BY <1>2, <1>3 DEF Operating
<1> QED BY <1>2, <1>4 DEF Keeps, InStep

LEMMA DoesKeeps ==
  ASSUME NEW h, NEW g, Does(h, g), AtMode(h.t)
  PROVE  Keeps(h, g)
<1>1. Turned(h, g, h.t.layers, h.t.operator)
  BY DoesTurned
<1> QED BY <1>1, TurnedKeeps DEF AtMode

LEMMA LooksKeeps ==
  ASSUME NEW h, NEW g, Looks(h, g), AtMode(h.t)
  PROVE  Keeps(h, g)
BY LooksDoes, DoesKeeps

LEMMA TurnsKeeps ==
  ASSUME NEW h, NEW g, Turns(h, g, h.t.layers, h.t.operator), AtMode(h.t)
  PROVE  Keeps(h, g)
<1>1. Turned(h, g, h.t.layers, h.t.operator)
  BY TurnsTurned
<1> QED BY <1>1, TurnedKeeps DEF AtMode

LEMMA OffersKeeps ==
  ASSUME NEW h, IsHandle(h), NEW g, Offers(h, g), AtMode(h.t)
  PROVE  Keeps(h, g)
<1> DEFINE x == "pager"
<1>0. x \in Layers
  BY DEF Layers
<1> HIDE DEF x
<1>1. CASE Paged(h, g, h.t.layers) /\ g.t.pager = Closed
  <2>1. AtMode(g.t)
    BY <1>1, ClosedIs DEF Paged, AtMode
  <2> QED BY <1>1, <2>1 DEF Keeps, Paged, KillFits, InStep
<1>2. CASE /\ Paged(h, g, Append(h.t.layers, x))
           /\ g.t.pager.open /\ GoodPager(g.t.pager)
  <2>1. On(Append(h.t.layers, x), x)
    BY <1>0, OnTop DEF AtMode
  <2>2. InPager(g.t)
    BY <1>2, <2>1 DEF Paged, InPager, AtMode, x
  <2> QED BY <1>2, <2>2 DEF Keeps, Paged, KillFits, InStep
<1> QED BY <1>1, <1>2 DEF Offers, x

LEMMA SwitchesKeep ==
  ASSUME NEW h, NEW how, IsHandle(h), IsHow(how), AtMode(h.t), NEW name \in SwitchNames
  PROVE  Keeps(h, Act(name, h, how))
<1> DEFINE g == Act(name, h, how)
           none == ""
<1>1. PICK mode_ \in Modes : Switched(h, g, mode_)
  BY SwitchesSwitch
<1>2. Turned(h, g, <<mode_>>, none)
  BY <1>1, SwitchedTurned
<1> HIDE DEF g, none
<1>3. Plain(<<mode_>>)
  BY PlainModes
<1>4. Keeps(h, g)
  BY <1>2, <1>3, TurnedKeeps DEF AtMode, none
<1> QED BY <1>4 DEF g

LEMMA VisualsKeep ==
  ASSUME NEW h, NEW how, IsHandle(h), IsHow(how), AtMode(h.t), Len(h.t.layers) > 1,
         NEW name \in {"vi_visual_delete", "vi_visual_change", "vi_visual_yank", "vi_visual_exit"}
  PROVE  Keeps(h, Act(name, h, how))
<1> DEFINE f == visual_finish(h)
           front == Front(h.t.layers)
           none == h.t.operator
<1>0. Plain(front) /\ none = "" /\ ~h.t.pager.open
  BY PlainHas DEF AtMode
<1>1. Turns(h, f, front, none)
  BY VisualFinishTurns
<1>2. Turns(h, vi_visual_exit(h), front, none)
  BY VisualExitTurns
<1> HIDE DEF f, front
<1>3. IsHandle(f)
  BY <1>1 DEF Turns
<1>4. Does(f, vi_delete(f)) /\ Does(f, vi_yank(f)) /\ Switched(f, vi_change(f), "vi_insert")
  BY <1>3, DeleteDoes, ChangeSwitches
<1>5. Turned(h, vi_delete(f), front, none) /\ Turned(h, vi_yank(f), front, none)
  BY <1>1, <1>4, TurnsThenDoes
<1> DEFINE into == "vi_insert"
           free == ""
<1>6. into \in Modes /\ Switched(f, vi_change(f), into)
  BY <1>4 DEF Modes
<1> HIDE DEF into
<1>7. Turned(f, vi_change(f), <<into>>, free)
  BY <1>6, SwitchedTurned
<1>8. free = ""
  OBVIOUS
<1> HIDE DEF free, none
<1>9. Turned(h, vi_change(f), <<into>>, free)
  BY <1>1, <1>7, TurnsThenTurned
<1>10. Turned(h, vi_visual_exit(h), front, none)
  BY <1>2, TurnsTurned DEF none
<1>11. Plain(<<into>>)
  BY <1>6, PlainModes
<1>12. /\ Keeps(h, vi_delete(f)) /\ Keeps(h, vi_yank(f)) /\ Keeps(h, vi_change(f))
       /\ Keeps(h, vi_visual_exit(h))
  <2>1. Keeps(h, vi_delete(f)) /\ Keeps(h, vi_yank(f))
    BY <1>0, <1>5, TurnedKeeps
  <2>2. Keeps(h, vi_change(f))
    BY <1>0, <1>8, <1>9, <1>11, TurnedKeeps
  <2>3. Keeps(h, vi_visual_exit(h))
    BY <1>0, <1>10, TurnedKeeps
  <2> QED BY <2>1, <2>2, <2>3
<1> QED BY <1>12, VisualActsAre DEF f

LEMMA ObjectsChoose ==
  ASSUME NEW h, NEW how, IsHandle(h), IsHow(how), Deep(h), NEW name \in Objects
  PROVE  Chooses(h, Act(name, h, how))
<1>1. CASE name \in Words
  <2>1. PICK big \in BOOLEAN, around \in BOOLEAN : Act(name, h, how) = object_word(h, how, big, around)
    BY <1>1, ObjectActsAre
  <2>2. Looks(h, object_word(h, how, big, around))
    BY ObjectWordLooks
  <2> QED BY <2>1, <2>2, LooksChooses
<1>2. CASE name \notin Words
  <2>1. PICK around \in BOOLEAN : Act(name, h, how) = object_pair(h, how, around)
    BY <1>2, ObjectActsAre
  <2> QED BY <2>1, PairChooses
<1> QED BY <1>1, <1>2

Digital(how) == \E d \in 0 .. 9 : Digits[d + 1] = last_key_byte(how)

LEMMA DigitsTurn ==
  ASSUME NEW h, NEW how, IsHandle(h), IsHow(how), NEW name \in DigitNames, Digital(how)
  PROVE  Turns(h, Act(name, h, how), h.t.layers, h.t.operator)
<1>1. Turns(h, vi_digit_argument(h, how), h.t.layers, h.t.operator)
  BY DigitTurns DEF Digital
<1>2. CASE name = "vi_digit_argument"
  BY <1>1, <1>2, ViActsAre
<1>3. CASE name = "vi_digit_or_line_start"
  <2>1. Act(name, h, how) =
          IF how.count > 0 THEN vi_digit_argument(h, how) ELSE cursor_set(h, To(h, "start"))
    BY <1>3, EitherActsAre, Zenon
  <2>2. Act(name, h, how) \in {vi_digit_argument(h, how), cursor_set(h, To(h, "start"))}
    BY <2>1, Zenon
  <2>3. Looks(h, cursor_set(h, To(h, "start")))
    BY ToIsInside, CursorSet, MotionsAre
  <2>4. Turns(h, cursor_set(h, To(h, "start")), h.t.layers, h.t.operator)
    BY <2>3, LooksTurns
  <2> QED BY <1>1, <2>2, <2>4
<1> QED BY <1>2, <1>3 DEF DigitNames

(* What a mode makes of its keys keeps the modes in step.                  *)
LEMMA ModeActs ==
  ASSUME NEW h, NEW how, IsHandle(h), IsHow(how), AtMode(h.t), CompleterAnswers,
         NEW name \in ModeNames \ AgainNames, name \in DigitNames => Digital(how)
  PROVE  Keeps(h, Act(name, h, how))
<1> DEFINE g == Act(name, h, how)
<1>1. CASE name \in DigitNames
  <2>1. Turns(h, g, h.t.layers, h.t.operator)
    BY <1>1, DigitsTurn
  <2> QED BY <2>1, TurnsKeeps
<1>2. CASE name \in MoveNames
  BY <1>2, MovesLook, LooksKeeps
<1>3. CASE name \in Finds
  <2> DEFINE x == "vi_find_char"
  <2>1. x \in Layers /\ x \in {"vi_find_char", "vi_replace_char", "vi_visual"}
    BY DEF Layers
  <2>2. g = arm_find(h, name)
    BY <1>3, MoveActsAre DEF Finds
  <2>3. Turns(h, g, Append(h.t.layers, x), h.t.operator)
    BY <1>3, <2>2, ArmTurns
  <2> HIDE DEF g, x
  <2>4. Keeps(h, g)
    BY <2>1, <2>3, PushedKeeps
  <2> QED BY <2>4 DEF g
<1>4. CASE name \in VerbNames
  <2> DEFINE x == "vi_operator_pending"
             verb == IF name = "vi_delete_operator" THEN "vi_delete"
                     ELSE IF name = "vi_change_operator" THEN "vi_change" ELSE "vi_yank"
  <2>1. x \in Layers /\ verb \in Verbs
    BY DEF Layers, Verbs
  <2>2. g = start_operator(h, how, verb)
    BY <1>4, ViActsAre DEF VerbNames
  <2> HIDE DEF verb
  <2>3. Turns(h, g, Append(h.t.layers, x), verb)
    BY <2>1, <2>2, StartTurns
  <2>4. x = "vi_operator_pending"
    OBVIOUS
  <2> HIDE DEF g, x
  <2>5. Keeps(h, g)
    BY <2>1, <2>3, <2>4, VerbKeeps
  <2> QED BY <2>5 DEF g
<1>5. CASE name \in WriteNames
  BY <1>5, WritesDo, DoesKeeps
<1>6. CASE name \in CalmNames
  <2>1. CASE name = "vi_normal_reset"
    <3> DEFINE zero == 0
               c == count_set(h, zero)
    <3>1. Turns(h, c, h.t.layers, h.t.operator)
      <4>1. zero \in Nat
        OBVIOUS
      <4> HIDE DEF zero
      <4> QED BY <4>1, CountTurns
    <3>2. g = abort_operator(c)
      BY <2>1, ViActsAre
    <3> HIDE DEF c
    <3>3. abort_operator(c) = c
      BY <3>1, AbortOfNone DEF Turns, AtMode
    <3> QED BY <3>1, <3>2, <3>3, TurnsKeeps
  <2>2. CASE name # "vi_normal_reset"
    <3>1. name \in {"backward_char", "beginning_of_line", "end_of_file", "vi_repeat",
                    "vi_visual_swap_ends"}
      BY <1>6, <2>2 DEF CalmNames
    <3> QED BY <3>1, CalmLooks, LooksKeeps
  <2> QED BY <2>1, <2>2
<1>7. CASE name \in SwitchNames
  BY <1>7, SwitchesKeep
<1>8. CASE name \in DOMAIN FallThrough
  <2>1. Does(h, accept_suggestion_or(h, how, FallThrough[name]))
    BY <1>8, SuggestionDoes
  <2>2. g = accept_suggestion_or(h, how, FallThrough[name])
    BY <1>8, FallThroughActsAre
  <2> HIDE DEF g
  <2>3. Keeps(h, g)
    BY <2>1, <2>2, DoesKeeps
  <2> QED BY <2>3 DEF g
<1>9. CASE name = "complete_word"
  <2>1. Offers(h, complete_word(h))
    BY CompleteWordDoes DEF AtMode
  <2>2. g = complete_word(h)
    BY <1>9, PlainActsAre
  <2> QED BY <2>1, <2>2, OffersKeeps
<1>10. CASE name = "vi_replace_char"
  <2> DEFINE x == "vi_replace_char"
             c == count_set(h, how.count)
  <2>1. x \in Layers /\ x \in {"vi_find_char", "vi_replace_char", "vi_visual"}
    BY DEF Layers
  <2>2. Turns(h, c, h.t.layers, h.t.operator)
    BY CountTurns DEF IsHow
  <2>3. g = keymap_push(c, x)
    BY <1>10, ViActsAre
  <2> HIDE DEF c, x, g
  <2>4. Turns(c, g, Append(c.t.layers, x), c.t.operator)
    BY <2>1, <2>2, <2>3, PushTurns DEF Turns
  <2>5. Turns(h, g, Append(h.t.layers, x), h.t.operator)
    <3>1. c.t.layers = h.t.layers /\ c.t.operator = h.t.operator
      BY <2>2 DEF Turns
    <3> QED BY <2>2, <2>4, <3>1, TurnsOn
  <2>6. Keeps(h, g)
    BY <2>1, <2>5, PushedKeeps
  <2> QED BY <2>6 DEF g
<1>11. CASE name = "vi_visual_mode"
  <2> DEFINE x == "vi_visual"
  <2>1. x \in Layers /\ x \in {"vi_find_char", "vi_replace_char", "vi_visual"}
    BY DEF Layers
  <2>2. Turns(h, g, Append(h.t.layers, x), h.t.operator)
    BY <1>11, VisualTurns, VisualActsAre
  <2> HIDE DEF g, x
  <2>3. Keeps(h, g)
    BY <2>1, <2>2, PushedKeeps
  <2> QED BY <2>3 DEF g
<1> QED BY <1>1, <1>2, <1>3, <1>4, <1>5, <1>6, <1>7, <1>8, <1>9, <1>10, <1>11, Zenon DEF ModeNames

LEMMA SelectionActs ==
  ASSUME NEW h, NEW how, IsHandle(h), IsHow(how), AtMode(h.t), Len(h.t.layers) > 1,
         NEW name \in VisualNames
  PROVE  Keeps(h, Act(name, h, how))
<1>1. CASE name \in Objects
  <2>1. Deep(h)
    BY DEF Deep
  <2>2. Chooses(h, Act(name, h, how))
    BY <1>1, <2>1, ObjectsChoose
  <2>3. Turns(h, Act(name, h, how), h.t.layers, h.t.operator)
    BY <2>2 DEF Chooses, AtMode
  <2> QED BY <2>3, TurnsKeeps
<1>2. CASE name = "vi_visual_swap_ends"
  BY <1>2, CalmLooks, LooksKeeps
<1>3. CASE name \in {"vi_visual_delete", "vi_visual_change", "vi_visual_yank", "vi_visual_exit"}
  BY <1>3, VisualsKeep
<1> QED BY <1>1, <1>2, <1>3 DEF VisualNames

LEMMA AtModeActs ==
  ASSUME NEW h, NEW how, IsHandle(h), IsHow(how), AtMode(h.t), CompleterAnswers,
         NEW name, AtModeNames(h.t.layers, name), name \notin AgainNames,
         name \in DigitNames => Digital(how)
  PROVE  Keeps(h, Act(name, h, how))
<1>1. CASE name \in ModeNames
  BY <1>1, ModeActs
<1>2. CASE Len(h.t.layers) > 1 /\ name \in VisualNames
  BY <1>2, SelectionActs
<1> QED BY <1>1, <1>2, Zenon DEF AtModeNames

(* An operator that waits: its motions change no text, and it waits on     *)
(* with its layer, or with one more above it, or is dropped with it.       *)
Operates(h, g) ==
  /\ IsHandle(g) /\ TextKept(g.t, h.t) /\ g.text = h.text /\ g.t.kills = h.t.kills
  /\ Operating(g.t) \/ AtMode(g.t) \/ (Finding(g.t) /\ Len(g.t.layers) > Len(h.t.layers))

LEMMA OnHas ==
  ASSUME NEW l, NEW x, On(l, x)
  PROVE  /\ l \in Seq(Layers) /\ Len(l) \in Nat /\ Len(l) > 1 /\ Last(l) = x
         /\ Plain(Front(l)) /\ Len(l) >= 1 /\ l # <<>>
<1>1. l \in Seq(Layers) /\ Len(l) > 1 /\ Last(l) = x /\ Plain(Front(l))
  BY DEF On
<1>2. Len(l) \in Nat
  BY <1>1
<1>3. l # <<>>
  BY <1>1, <1>2, EmptySeq
<1> QED BY <1>1, <1>2, <1>3

LEMMA ChoosesOperates ==
  ASSUME NEW h, NEW g, Chooses(h, g), Operating(h.t)
  PROVE  Operates(h, g)
<1>0. On(h.t.layers, "vi_operator_pending") /\ h.t.operator \in Verbs /\ ~h.t.pager.open
  BY DEF Operating
<1>1. CASE Turns(h, g, h.t.layers, h.t.operator)
  <2>1. Operating(g.t)
    BY <1>0, <1>1 DEF Turns, Operating
  <2> QED BY <1>1, <2>1 DEF Turns, Operates
<1>2. CASE Turns(h, g, Front(h.t.layers), "")
  <2>1. Plain(Front(h.t.layers))
    BY <1>0, OnHas
  <2>2. AtMode(g.t)
    BY <1>0, <1>2, <2>1 DEF Turns, AtMode
  <2> QED BY <1>2, <2>2 DEF Turns, Operates
<1> QED BY <1>1, <1>2 DEF Chooses

LEMMA OperatorActs ==
  ASSUME NEW h, NEW how, IsHandle(h), IsHow(how), Operating(h.t), NEW name \in OperatorNames,
         name \in DigitNames => Digital(how)
  PROVE  Operates(h, Act(name, h, how))
<1> DEFINE g == Act(name, h, how)
           pending == "vi_operator_pending"
<1>0. On(h.t.layers, pending) /\ h.t.operator \in Verbs /\ ~h.t.pager.open
  BY DEF Operating
<1>a. h.t.operator # ""
  BY <1>0 DEF Verbs
<1>b. Len(h.t.layers) > 1 /\ h.t.layers \in Seq(Layers) /\ Len(h.t.layers) \in Nat
  BY <1>0, OnHas
<1>c. Deep(h)
  BY <1>b DEF Deep
<1>1. CASE name \in DigitNames
  <2>1. Turns(h, g, h.t.layers, h.t.operator)
    BY <1>1, DigitsTurn
  <2> HIDE DEF g
  <2>2. Operates(h, g)
    BY <2>1, ChoosesOperates DEF Chooses
  <2> QED BY <2>2 DEF g
<1>2. CASE name \in MoveNames
  BY <1>2, MovesLook, LooksChooses, ChoosesOperates
<1>3. CASE name \in Finds
  <2> DEFINE x == "vi_find_char"
  <2>1. x \in Layers
    BY DEF Layers
  <2>2. g = arm_find(h, name)
    BY <1>3, MoveActsAre DEF Finds
  <2>3. Turns(h, g, Append(h.t.layers, x), h.t.operator)
    BY <1>3, <2>2, ArmTurns
  <2>4. /\ Append(h.t.layers, x) \in Seq(Layers) /\ Len(Append(h.t.layers, x)) = Len(h.t.layers) + 1
        /\ Last(Append(h.t.layers, x)) = x /\ Front(Append(h.t.layers, x)) = h.t.layers
    BY <1>b, <2>1, AppendedIs
  <2> HIDE DEF g
  <2>5. Finding(g.t) /\ Len(g.t.layers) > Len(h.t.layers)
    BY <1>0, <1>b, <2>3, <2>4 DEF Turns, Finding
  <2> QED BY <2>3, <2>5 DEF Turns, Operates, g
<1>4. CASE name \in Objects
  BY <1>4, <1>c, ObjectsChoose, ChoosesOperates
<1>5. CASE name = "vi_line_object"
  BY <1>5, <1>c, LineObjectChooses, ChoosesOperates, ViActsAre
<1>6. CASE name = "vi_operator_abort"
  BY <1>6, <1>c, AbortChooses, ChoosesOperates, ViActsAre
<1> QED BY <1>1, <1>2, <1>3, <1>4, <1>5, <1>6 DEF OperatorNames

LEMMA FindingActs ==
  ASSUME NEW h, NEW how, IsHandle(h), IsHow(how), Finding(h.t)
  PROVE  Operates(h, Act("vi_find_char_target", h, how))
<1> DEFINE g == vi_find_char_target(h, how)
           front == Front(h.t.layers)
<1>0. /\ Len(h.t.layers) > 1 /\ On(front, "vi_operator_pending")
      /\ h.t.operator \in Verbs /\ ~h.t.pager.open
  BY DEF Finding
<1>1. Len(front) > 1 /\ Plain(Front(front))
  BY <1>0, OnHas
<1>2. Deeper(h)
  BY <1>1 DEF Deeper
<1>3. \/ Turns(h, g, front, h.t.operator)
      \/ Turns(h, g, Front(front), "")
  BY <1>0, <1>2, TargetTurns
<1> HIDE DEF g, front
<1>4. CASE Turns(h, g, front, h.t.operator)
  <2>1. Operating(g.t)
    BY <1>0, <1>4 DEF Turns, Operating
  <2>2. Operates(h, g)
    BY <1>4, <2>1 DEF Turns, Operates
  <2> QED BY <2>2, ViActsAre DEF g
<1>5. CASE Turns(h, g, Front(front), "")
  <2>1. AtMode(g.t)
    BY <1>0, <1>1, <1>5 DEF Turns, AtMode
  <2>2. Operates(h, g)
    BY <1>5, <2>1 DEF Turns, Operates
  <2> QED BY <2>2, ViActsAre DEF g
<1> QED BY <1>3, <1>4, <1>5

(* A layer that waits for one character is gone with it.                   *)
LEMMA AwaitingActs ==
  ASSUME NEW h, NEW how, IsHandle(h), IsHow(how), Awaiting(h.t)
  PROVE  /\ Keeps(h, Act("vi_find_char_target", h, how))
         /\ Keeps(h, Act("vi_replace_char_with", h, how))
<1> DEFINE front == Front(h.t.layers)
           none == h.t.operator
<1>1. Len(h.t.layers) > 1 /\ Plain(front) /\ none = "" /\ ~h.t.pager.open
  BY OnHas DEF Awaiting
<1>2. Deeper(h)
  BY <1>1 DEF Deeper
<1>3. Turns(h, vi_find_char_target(h, how), front, none)
  BY <1>1, <1>2, TargetTurns
<1>4. Turned(h, vi_replace_char_with(h, how), front, none)
  BY <1>1, ReplaceTurned
<1> HIDE DEF front, none
<1>5. Turned(h, vi_find_char_target(h, how), front, none)
  BY <1>3, TurnsTurned
<1>6. Keeps(h, vi_find_char_target(h, how)) /\ Keeps(h, vi_replace_char_with(h, how))
  BY <1>1, <1>4, <1>5, TurnedKeeps
<1> QED BY <1>6, ViActsAre

(* The pager is browsed, or closed with its layer.                         *)
PagerKeeps(h, g) ==
  /\ IsHandle(g) /\ TextKept(g.t, h.t) /\ g.t.kills = h.t.kills /\ InStep(g.t)
  /\ g.t.pager.open => Narrows(h.t.pager, g.t.pager)

LEMMA BrowsesKeeps ==
  ASSUME NEW h, NEW g, InPager(h.t), Browses(h, g)
  PROVE  PagerKeeps(h, g)
<1>0. On(h.t.layers, "pager") /\ h.t.operator = "" /\ h.t.pager.open
  BY DEF InPager
<1>1. CASE /\ Paged(h, g, h.t.layers) /\ g.t.pager.open /\ GoodPager(g.t.pager)
           /\ Narrows(h.t.pager, g.t.pager)
  <2>1. InPager(g.t)
    BY <1>0, <1>1 DEF Paged, InPager
  <2> QED BY <1>1, <2>1 DEF Paged, InStep, PagerKeeps
<1>2. CASE Paged(h, g, Front(h.t.layers)) /\ g.t.pager = Closed
  <2>1. Plain(Front(h.t.layers))
    BY <1>0, OnHas
  <2>2. AtMode(g.t) /\ ~g.t.pager.open
    BY <1>0, <1>2, <2>1, ClosedIs DEF Paged, AtMode
  <2> QED BY <1>2, <2>2 DEF Paged, InStep, PagerKeeps
<1> QED BY <1>1, <1>2 DEF Browses

LEMMA PagerActs ==
  ASSUME NEW h, NEW how, IsHandle(h), IsHow(how), InPager(h.t), NEW name \in PagerNames
  PROVE  PagerKeeps(h, Act(name, h, how))
<1>0. Browsing(h)
  BY OnHas DEF InPager, Browsing
<1>1. \A by \in Int : Browses(h, move_by(h, by))
  BY <1>0, MoveBrowses
<1>2. Columns(h.t.pager) \in Int /\ -Columns(h.t.pager) \in Int
  <2> DEFINE n == Len(h.t.pager.matching)
  <2>1. n \in Nat
    <3>1. IsPager(h.t.pager)
      BY DEF IsHandle, IsKept
    <3> QED BY <3>1, SizesAre
  <2> HIDE DEF n
  <2> QED BY <2>1, PagerAssumption DEF Columns, Least, n
<1>3. CASE name = "pager_next"
  BY <1>1, <1>3, BrowsesKeeps, PlainActsAre
<1>4. CASE name = "pager_previous"
  <2>1. -1 \in Int
    OBVIOUS
  <2> QED BY <1>1, <1>4, <2>1, BrowsesKeeps, PlainActsAre
<1>5. CASE name = "pager_next_row"
  BY <1>1, <1>2, <1>5, BrowsesKeeps, PlainActsAre
<1>6. CASE name = "pager_previous_row"
  BY <1>1, <1>2, <1>6, BrowsesKeeps, PlainActsAre
<1>7. CASE name = "pager_accept"
  BY <1>0, <1>7, AcceptBrowses, BrowsesKeeps, PlainActsAre
<1>8. CASE name = "pager_close"
  BY <1>0, <1>8, CloseBrowses, BrowsesKeeps, PlainActsAre
<1>9. CASE name \in {"pager_filter_key", "pager_filter_backspace"}
  BY <1>0, <1>9, FilterKeyBrowses, BrowsesKeeps, PlainActsAre
<1> QED BY <1>3, <1>4, <1>5, <1>6, <1>7, <1>8, <1>9 DEF PagerNames

-----------------------------------------------------------------------------
(* The history of edits, and the texts it stands for.                      *)

Texts == Seq(Token)
Points == [cursor : Nat, anchor : Nat, live : BOOLEAN]
Edits == [at : Nat, removed : Texts, inserted : Texts, before : Points, after : Points]

InText(p, text) == p.cursor \in Offsets(text) /\ p.anchor \in Offsets(text)

(* An edit makes of one text another                                       *)
Makes(was, e, now) ==
  /\ Within(was, e.at, e.at + Len(e.removed), e.inserted)
  /\ slice(was, e.at, e.at + Len(e.removed)) = e.removed
  /\ now = replace(was, e.at, e.at + Len(e.removed), e.inserted)
  /\ InText(e.before, was) /\ InText(e.after, now)
Done == {j \in Texts \X Edits \X Texts : Makes(j[1], j[2], j[3])}
Undone == {j \in Texts \X Edits \X Texts : Makes(j[3], j[2], j[1])}

(* The texts P lead by the edits s, one after another, to the text         *)
NextOf(P, n, text) == IF n = Len(P) THEN text ELSE P[n + 1]
Chain(R, P, s, text) ==
  /\ P \in Seq(Texts) /\ s \in Seq(Edits) /\ Len(s) = Len(P) /\ text \in Texts
  /\ \A n \in 1 .. Len(P) : <<P[n], s[n], NextOf(P, n, text)>> \in R
Past(t, P) == Chain(Done, P, t.steps, t.text)
Future(t, N) == Chain(Undone, N, t.redoable, t.text)

LEMMA MakesBack ==
  ASSUME NEW was, NEW e \in Edits, NEW now, Makes(was, e, now)
  PROVE  /\ was \in Texts /\ now \in Texts
         /\ replace(now, e.at, end_after_insertion(e), e.removed) = was
         /\ replace(was, e.at, e.at + Len(e.removed), e.inserted) = now
<1> DEFINE a == e.at
           b == e.at + Len(e.removed)
           w == e.inserted
<1>1. Within(was, a, b, w) /\ slice(was, a, b) = e.removed /\ now = replace(was, a, b, w)
  BY DEF Makes
<1>2. end_after_insertion(e) = a + Len(w)
  BY DEF end_after_insertion
<1> HIDE DEF a, b, w
<1>3. /\ replace(was, a, b, w) \in Seq(Token)
      /\ replace(replace(was, a, b, w), a, a + Len(w), slice(was, a, b)) = was
  BY <1>1, ReplaceIs, ReplaceBack
<1>4. was \in Texts /\ now \in Texts
  BY <1>1, <1>3 DEF Within, Texts
<1>5. replace(now, a, end_after_insertion(e), e.removed) = was
  BY <1>1, <1>2, <1>3
<1> QED BY <1>1, <1>4, <1>5 DEF a, b, w

LEMMA ChainEmpty ==
  ASSUME NEW R, NEW text \in Texts
  PROVE  Chain(R, <<>>, <<>>, text)
BY DEF Chain

LEMMA ChainLonger ==
  ASSUME NEW R, NEW P, NEW s, NEW text, Chain(R, P, s, text), NEW e \in Edits, NEW now \in Texts,
         <<text, e, now>> \in R
  PROVE  Chain(R, Append(P, text), Append(s, e), now)
<1> DEFINE n == Len(P)
           Q == Append(P, text)
           r == Append(s, e)
<1>1. /\ P \in Seq(Texts) /\ s \in Seq(Edits) /\ Len(s) = n /\ text \in Texts /\ n \in Nat
      /\ \A i \in 1 .. n : <<P[i], s[i], NextOf(P, i, text)>> \in R
  BY DEF Chain
<1>2. Q \in Seq(Texts) /\ Len(Q) = n + 1 /\ Q[n + 1] = text /\ \A i \in 1 .. n : Q[i] = P[i]
  BY <1>1, AppendProperties
<1>3. r \in Seq(Edits) /\ Len(r) = n + 1 /\ r[n + 1] = e /\ \A i \in 1 .. n : r[i] = s[i]
  <2>1. Len(s) = n /\ s \in Seq(Edits)
    BY <1>1
  <2> HIDE DEF n
  <2> QED BY <2>1, AppendProperties
<1>4. ASSUME NEW i \in 1 .. n + 1 PROVE <<Q[i], r[i], NextOf(Q, i, now)>> \in R
  <2> HIDE DEF Q, r
  <2>1. CASE i = n + 1
    BY <1>2, <1>3, <2>1 DEF NextOf
  <2>2. CASE i # n + 1
    <3> HIDE DEF n
    <3>1. i \in 1 .. n /\ n \in Nat
      BY <1>1, <2>2
    <3>2. NextOf(P, i, text) = NextOf(Q, i, now)
      <4>1. CASE i = n
        BY <1>2, <2>2, <3>1, <4>1 DEF NextOf, n
      <4>2. CASE i # n
        <5>1. i + 1 \in 1 .. n
          BY <3>1, <4>2
        <5> QED BY <1>2, <2>2, <4>2, <5>1 DEF NextOf, n
      <4> QED BY <4>1, <4>2
    <3> QED BY <1>1, <1>2, <1>3, <3>1, <3>2
  <2> QED BY <2>1, <2>2
<1> HIDE DEF Q, r, n
<1> QED BY <1>2, <1>3, <1>4 DEF Chain, Q, r

LEMMA ChainHas ==
  ASSUME NEW R, NEW P, NEW s, NEW text, Chain(R, P, s, text)
  PROVE  /\ Len(P) \in Nat /\ Len(s) = Len(P) /\ (s = <<>> <=> P = <<>>) /\ (Len(P) = 0 <=> P = <<>>)
         /\ DOMAIN s = 1 .. Len(P)
         /\ P # <<>> => /\ Last(P) \in Texts /\ Last(s) \in Edits
                        /\ <<Last(P), Last(s), text>> \in R
                        /\ Last(P) = P[Len(P)] /\ Last(s) = s[Len(P)] /\ Len(P) > 0
<1> DEFINE n == Len(P)
<1>1. /\ P \in Seq(Texts) /\ s \in Seq(Edits) /\ Len(s) = n /\ text \in Texts /\ n \in Nat
      /\ \A i \in 1 .. n : <<P[i], s[i], NextOf(P, i, text)>> \in R
  BY DEF Chain
<1>2. (n = 0 <=> P = <<>>) /\ (n = 0 <=> s = <<>>) /\ DOMAIN s = 1 .. n
  <2>1. (n = 0 <=> P = <<>>) /\ (n = 0 <=> s = <<>>)
    BY <1>1, EmptySeq
  <2>2. DOMAIN s = 1 .. n
    BY <1>1
  <2> QED BY <2>1, <2>2
<1>3. ASSUME P # <<>>
      PROVE  /\ Last(P) \in Texts /\ Last(s) \in Edits /\ <<Last(P), Last(s), text>> \in R
             /\ Last(P) = P[n] /\ Last(s) = s[n] /\ n > 0
  <2>1. n \in 1 .. n /\ n > 0
    <3> HIDE DEF n
    <3> QED BY <1>1, <1>2, <1>3
  <2>2. Last(P) = P[n] /\ Last(s) = s[n]
    BY <1>1 DEF Last
  <2>3. P[n] \in Texts /\ s[n] \in Edits
    <3>1. \A i \in 1 .. Len(P) : P[i] \in Texts
      BY <1>1
    <3>2. \A i \in 1 .. Len(s) : s[i] \in Edits
      BY <1>1
    <3> QED BY <1>1, <2>1, <3>1, <3>2
  <2>4. <<P[n], s[n], NextOf(P, n, text)>> \in R /\ NextOf(P, n, text) = text
    BY <1>1, <2>1 DEF NextOf
  <2> QED BY <2>1, <2>2, <2>3, <2>4
<1> QED BY <1>1, <1>2, <1>3

LEMMA ChainLast ==
  ASSUME NEW R, NEW P, NEW s, NEW text, Chain(R, P, s, text), P # <<>>
  PROVE  /\ Last(P) \in Texts /\ Last(s) \in Edits /\ <<Last(P), Last(s), text>> \in R
         /\ Last(P) = P[Len(P)] /\ Last(s) = s[Len(P)] /\ Len(P) > 0 /\ s # <<>>
<1>1. P # <<>> => /\ Last(P) \in Texts /\ Last(s) \in Edits
                  /\ <<Last(P), Last(s), text>> \in R
                  /\ Last(P) = P[Len(P)] /\ Last(s) = s[Len(P)] /\ Len(P) > 0
  BY ChainHas
<1>2. s = <<>> <=> P = <<>>
  BY ChainHas
<1> QED BY <1>1, <1>2

LEMMA ChainShorter ==
  ASSUME NEW R, NEW P, NEW s, NEW text, Chain(R, P, s, text), P # <<>>
  PROVE  Chain(R, Front(P), Front(s), Last(P))
<1> DEFINE n == Len(P)
           Q == Front(P)
           r == Front(s)
<1>1. /\ P \in Seq(Texts) /\ s \in Seq(Edits) /\ Len(s) = n /\ n \in Nat
      /\ \A i \in 1 .. n : <<P[i], s[i], NextOf(P, i, text)>> \in R
  BY DEF Chain
<1>2. n > 0 /\ s # <<>> /\ Last(P) = P[n] /\ Last(P) \in Texts
  BY ChainLast
<1>3. Q \in Seq(Texts) /\ Len(Q) = n - 1 /\ \A i \in 1 .. n - 1 : Q[i] = P[i]
  BY <1>1, FrontIs
<1>4. r \in Seq(Edits) /\ Len(r) = n - 1 /\ \A i \in 1 .. n - 1 : r[i] = s[i]
  <2>1. /\ r \in Seq(Edits) /\ Len(r) = Len(s) - 1
        /\ \A i \in 1 .. Len(s) - 1 : r[i] = s[i]
    BY <1>1, <1>2, FrontIs
  <2> QED BY <1>1, <2>1
<1>5. ASSUME NEW i \in 1 .. n - 1 PROVE <<Q[i], r[i], NextOf(Q, i, Last(P))>> \in R
  <2> HIDE DEF Q, r, n
  <2>1. i \in 1 .. n /\ i # n /\ n \in Nat /\ i + 1 \in 1 .. n
    BY <1>1
  <2>2. NextOf(P, i, text) = P[i + 1]
    BY <2>1 DEF NextOf, n
  <2>3. NextOf(Q, i, Last(P)) = P[i + 1]
    <3>1. CASE i = n - 1
      <4>1. i + 1 = n
        BY <2>1, <3>1
      <4> QED BY <1>2, <1>3, <3>1, <4>1 DEF NextOf
    <3>2. CASE i # n - 1
      <4>1. i + 1 \in 1 .. n - 1
        BY <2>1, <3>2
      <4> QED BY <1>3, <3>2, <4>1 DEF NextOf
    <3> QED BY <3>1, <3>2
  <2> QED BY <1>1, <1>3, <1>4, <2>1, <2>2, <2>3
<1> HIDE DEF Q, r, n
<1> QED BY <1>2, <1>3, <1>4, <1>5 DEF Chain, Q, r

LEMMA ChainAmended ==
  ASSUME NEW R, NEW P, NEW s, NEW text, Chain(R, P, s, text), P # <<>>, NEW e \in Edits,
         NEW now \in Texts, <<Last(P), e, now>> \in R
  PROVE  Chain(R, P, [s EXCEPT ![Len(s)] = e], now)
<1> DEFINE n == Len(P)
           r == [s EXCEPT ![Len(s)] = e]
<1>1. /\ P \in Seq(Texts) /\ s \in Seq(Edits) /\ Len(s) = n /\ n \in Nat
      /\ \A i \in 1 .. n : <<P[i], s[i], NextOf(P, i, text)>> \in R
  BY DEF Chain
<1>2. n > 0 /\ Last(P) = P[n] /\ DOMAIN s = 1 .. n
  BY ChainHas
<1>3. r \in Seq(Edits) /\ Len(r) = n /\ r[n] = e /\ \A i \in 1 .. n : i # n => r[i] = s[i]
  <2>1. n \in 1 .. n /\ DOMAIN r = 1 .. n
    BY <1>1, <1>2
  <2>2. r[n] = e /\ \A i \in 1 .. n : i # n => r[i] = s[i]
    BY <1>1, <1>2, <2>1
  <2>3. r \in Seq(Edits)
    BY <1>1, <2>1
  <2> QED BY <1>1, <2>1, <2>2, <2>3
<1>4. ASSUME NEW i \in 1 .. n PROVE <<P[i], r[i], NextOf(P, i, now)>> \in R
  <2> HIDE DEF r
  <2>1. CASE i = n
    BY <1>2, <1>3, <2>1 DEF NextOf
  <2>2. CASE i # n
    <3>1. NextOf(P, i, text) = NextOf(P, i, now)
      BY <2>2 DEF NextOf
    <3> QED BY <1>1, <1>3, <2>2, <3>1
  <2> QED BY <2>1, <2>2
<1> HIDE DEF r, n
<1> QED BY <1>1, <1>3, <1>4 DEF Chain, r, n

(* Two functions that end alike, and of which each value is made of the    *)
(* next, are alike                                                         *)
LEMMA AlikeBackwards ==
  ASSUME NEW a \in Nat, NEW n \in Nat, NEW f, NEW g, a <= n, f[n] = g[n],
         \A i \in a .. n - 1 : f[i + 1] = g[i + 1] => f[i] = g[i]
  PROVE  \A i \in a .. n : f[i] = g[i]
<1> DEFINE B == {i \in a .. n : f[i] # g[i]}
<1>1. SUFFICES ASSUME B # {} PROVE FALSE
  OBVIOUS
<1>2. B \subseteq 0 .. n
  OBVIOUS
<1>3. PICK m \in B : \A y \in B : y <= m
  <2> HIDE DEF B
  <2> QED BY <1>1, <1>2, HasGreatest
<1>4. m \in a .. n /\ m # n /\ f[m] # g[m]
  OBVIOUS
<1>5. m \in a .. n - 1 /\ m + 1 \in a .. n
  BY <1>4
<1>6. f[m + 1] = g[m + 1]
  <2>1. m + 1 \notin B
    BY <1>3, <1>4
  <2> QED BY <1>5, <2>1
<1> QED BY <1>4, <1>5, <1>6

(* The texts a line has had are those its edits lead through.              *)
LEMMA EarlierIs ==
  ASSUME NEW t, NEW P, Past(t, P)
  PROVE  Earlier(t) = P
<1> DEFINE s == t.steps
           n0 == Len(s)
           Given(f) == [n \in 0 .. n0 |->
             IF n = n0 THEN t.text
             ELSE LET edit == s[n + 1] IN
                  replace(f[n + 1], edit.at, end_after_insertion(edit), edit.removed)]
           p == [n \in 0 .. n0 |-> NextOf(P, n, t.text)]
<1>1. /\ P \in Seq(Texts) /\ s \in Seq(Edits) /\ n0 = Len(P) /\ n0 \in Nat
      /\ \A i \in 1 .. n0 : <<P[i], s[i], NextOf(P, i, t.text)>> \in Done
  BY DEF Past, Chain
<1>2. ASSUME NEW i \in 0 .. n0 - 1
      PROVE  /\ i \in 0 .. n0 /\ i + 1 \in 0 .. n0 /\ i # n0 /\ p[i] = P[i + 1]
             /\ replace(p[i + 1], s[i + 1].at, end_after_insertion(s[i + 1]), s[i + 1].removed) = P[i + 1]
  <2> DEFINE e == s[i + 1]
             now == NextOf(P, i + 1, t.text)
  <2>1. i \in 0 .. n0 /\ i + 1 \in 0 .. n0 /\ i + 1 \in 1 .. n0 /\ i # n0
    BY <1>1
  <2>2. p[i] = P[i + 1] /\ p[i + 1] = now
    BY <1>1, <2>1 DEF NextOf
  <2>3. <<P[i + 1], e, now>> \in Done
    BY <1>1, <2>1
  <2> HIDE DEF p, e, now
  <2>4. e \in Edits /\ Makes(P[i + 1], e, now)
    BY <2>3 DEF Done
  <2>5. replace(now, e.at, end_after_insertion(e), e.removed) = P[i + 1]
    BY <2>4, MakesBack
  <2> QED BY <2>1, <2>2, <2>5 DEF e
<1>3. p[n0] = t.text /\ n0 \in 0 .. n0
  BY <1>1 DEF NextOf
<1>4. p = Given(p)
  <2>1. \A i \in 0 .. n0 : i # n0 => i \in 0 .. n0 - 1
    BY <1>1
  <2>2. ASSUME NEW i \in 0 .. n0, i # n0
        PROVE  p[i] = LET edit == s[i + 1] IN
                      replace(p[i + 1], edit.at, end_after_insertion(edit), edit.removed)
    <3> HIDE DEF p, n0
    <3> QED BY <1>2, <2>1, <2>2
  <2>3. p = [n \in 0 .. n0 |-> p[n]]
    OBVIOUS
  <2> HIDE DEF p, n0
  <2> QED BY <1>3, <2>2, <2>3
<1> DEFINE g == CHOOSE g : g = Given(g)
<1>5. g = Given(g)
  <2> HIDE DEF Given, p
  <2> QED BY <1>4
<1>6. Earlier(t) = [n \in 1 .. n0 |-> g[n - 1]]
  BY DEF Earlier
<1> HIDE DEF g
<1>7. g[n0] = p[n0]
  BY <1>3, <1>5
<1>8. ASSUME NEW i \in 0 .. n0 - 1, g[i + 1] = p[i + 1] PROVE g[i] = p[i]
  <2>1. /\ i \in 0 .. n0 /\ i # n0 /\ p[i] = P[i + 1]
        /\ replace(p[i + 1], s[i + 1].at, end_after_insertion(s[i + 1]), s[i + 1].removed) = P[i + 1]
    BY <1>2
  <2> HIDE DEF p
  <2>2. g[i] = replace(g[i + 1], s[i + 1].at, end_after_insertion(s[i + 1]), s[i + 1].removed)
    BY <1>5, <2>1
  <2> QED BY <1>8, <2>1, <2>2
<1>9. \A i \in 0 .. n0 : g[i] = p[i]
  <2>1. 0 \in Nat /\ 0 <= n0
    BY <1>1
  <2> DEFINE z == 0
  <2>2. z \in Nat /\ z <= n0 /\ n0 \in Nat /\ \A i \in z .. n0 - 1 : g[i + 1] = p[i + 1] => g[i] = p[i]
    <3> HIDE DEF p, n0
    <3> QED BY <1>1, <1>8
  <2> HIDE DEF p, n0, z
  <2>3. \A i \in z .. n0 : g[i] = p[i]
    BY <1>7, <2>2, AlikeBackwards
  <2> QED BY <2>3 DEF z
<1>10. ASSUME NEW i \in 1 .. n0 PROVE g[i - 1] = P[i]
  <2>1. i - 1 \in 0 .. n0 - 1 /\ i - 1 \in 0 .. n0 /\ (i - 1) + 1 = i
    BY <1>1
  <2> HIDE DEF p
  <2> QED BY <1>2, <1>9, <2>1
<1>11. P = [i \in 1 .. n0 |-> P[i]]
  BY <1>1
<1> HIDE DEF n0
<1> QED BY <1>6, <1>10, <1>11

LEMMA LaterIs ==
  ASSUME NEW t, NEW N, Future(t, N)
  PROVE  Later(t) = N
<1> DEFINE s == t.redoable
           n0 == Len(s)
           Given(f) == [n \in 1 .. n0 + 1 |->
             IF n > n0 THEN t.text
             ELSE LET edit == s[n] IN
                  replace(f[n + 1], edit.at, edit.at + Len(edit.removed), edit.inserted)]
           p == [n \in 1 .. n0 + 1 |-> IF n > n0 THEN t.text ELSE N[n]]
<1>1. /\ N \in Seq(Texts) /\ s \in Seq(Edits) /\ n0 = Len(N) /\ n0 \in Nat
      /\ \A i \in 1 .. n0 : <<N[i], s[i], NextOf(N, i, t.text)>> \in Undone
  BY DEF Future, Chain
<1>2. ASSUME NEW i \in 1 .. n0
      PROVE  /\ i \in 1 .. n0 + 1 /\ i + 1 \in 1 .. n0 + 1 /\ ~(i > n0) /\ p[i] = N[i]
             /\ replace(p[i + 1], s[i].at, s[i].at + Len(s[i].removed), s[i].inserted) = N[i]
  <2> DEFINE e == s[i]
             was == NextOf(N, i, t.text)
  <2>1. i \in 1 .. n0 + 1 /\ i + 1 \in 1 .. n0 + 1 /\ ~(i > n0) /\ (i + 1 > n0 <=> i = n0)
    BY <1>1
  <2>2. p[i] = N[i] /\ p[i + 1] = was
    BY <1>1, <2>1 DEF NextOf
  <2>3. <<N[i], e, was>> \in Undone
    BY <1>1
  <2> HIDE DEF p, e, was
  <2>4. e \in Edits /\ Makes(was, e, N[i])
    BY <2>3 DEF Undone
  <2>5. replace(was, e.at, e.at + Len(e.removed), e.inserted) = N[i]
    BY <2>4, MakesBack
  <2> QED BY <2>1, <2>2, <2>5 DEF e
<1>3. p[n0 + 1] = t.text /\ n0 + 1 \in 1 .. n0 + 1 /\ n0 + 1 > n0
  BY <1>1
<1>4. p = Given(p)
  <2>1. \A i \in 1 .. n0 + 1 : i > n0 => i = n0 + 1
    BY <1>1
  <2>2. \A i \in 1 .. n0 + 1 : ~(i > n0) => i \in 1 .. n0
    BY <1>1
  <2>3. p = [n \in 1 .. n0 + 1 |-> p[n]]
    OBVIOUS
  <2>4. ASSUME NEW i \in 1 .. n0 + 1, ~(i > n0)
        PROVE  p[i] = LET edit == s[i] IN
                      replace(p[i + 1], edit.at, edit.at + Len(edit.removed), edit.inserted)
    <3> HIDE DEF p, n0
    <3> QED BY <1>2, <2>2, <2>4
  <2>5. ASSUME NEW i \in 1 .. n0 + 1, i > n0 PROVE p[i] = t.text
    <3> HIDE DEF p, n0
    <3> QED BY <1>3, <2>1, <2>5
  <2> HIDE DEF p, n0
  <2> QED BY <2>3, <2>4, <2>5
<1> DEFINE g == CHOOSE g : g = Given(g)
<1>5. g = Given(g)
  <2> HIDE DEF Given, p
  <2> QED BY <1>4
<1>6. Later(t) = [n \in 1 .. n0 |-> g[n]]
  BY DEF Later
<1> HIDE DEF g
<1>7. g[n0 + 1] = p[n0 + 1]
  BY <1>3, <1>5
<1>8. ASSUME NEW i \in 1 .. n0, g[i + 1] = p[i + 1] PROVE g[i] = p[i]
  <2>1. /\ i \in 1 .. n0 + 1 /\ ~(i > n0) /\ p[i] = N[i]
        /\ replace(p[i + 1], s[i].at, s[i].at + Len(s[i].removed), s[i].inserted) = N[i]
    BY <1>2
  <2> HIDE DEF p
  <2>2. g[i] = replace(g[i + 1], s[i].at, s[i].at + Len(s[i].removed), s[i].inserted)
    BY <1>5, <2>1
  <2> QED BY <1>8, <2>1, <2>2
<1>9. \A i \in 1 .. n0 : g[i] = p[i]
  <2> DEFINE z == 1
             l == n0 + 1
  <2>1. z \in Nat /\ z <= l /\ l \in Nat /\ l - 1 = n0
    BY <1>1
  <2>2. \A i \in z .. l - 1 : g[i + 1] = p[i + 1] => g[i] = p[i]
    BY <1>8, <2>1
  <2>3. g[l] = p[l]
    BY <1>7
  <2>4. \A i \in 1 .. n0 : i \in z .. l
    BY <1>1
  <2> HIDE DEF p, n0, z, l
  <2>5. \A i \in z .. l : g[i] = p[i]
    BY <2>1, <2>2, <2>3, AlikeBackwards
  <2> QED BY <2>4, <2>5
<1>10. ASSUME NEW i \in 1 .. n0 PROVE g[i] = N[i]
  <2> HIDE DEF p
  <2> QED BY <1>2, <1>9
<1>11. N = [i \in 1 .. n0 |-> N[i]]
  BY <1>1
<1> HIDE DEF n0
<1> QED BY <1>6, <1>10, <1>11

-----------------------------------------------------------------------------
(* What is written, and how it is remembered.                              *)

Historied(t) == Past(t, Earlier(t)) /\ Future(t, Later(t))
IsWritten(t) ==
  /\ t.text \in Texts /\ InText(t, t.text) /\ t.live \in BOOLEAN
  /\ t.coalescing \in BOOLEAN /\ t.bumped \in BOOLEAN
  /\ Historied(t)
Sound(t) == IsKept(t) /\ IsWritten(t)

(* What a step of the history does of the texts it stands for              *)
Stacks(t, u) ==
  \/ /\ Earlier(u) = Earlier(t) /\ u.text = t.text /\ Later(u) = Later(t)
  \/ /\ Earlier(u) = Append(Earlier(t), t.text) /\ Later(u) = <<>>
  \/ /\ Earlier(t) # <<>> /\ Earlier(u) = Earlier(t)
     /\ Len(u.text) > Len(t.text) /\ Later(u) = <<>>
  \/ /\ Earlier(t) # <<>> /\ Earlier(u) = Front(Earlier(t)) /\ u.text = Last(Earlier(t))
     /\ Later(u) = Append(Later(t), t.text)
  \/ /\ Later(t) # <<>> /\ Earlier(u) = Append(Earlier(t), t.text) /\ u.text = Last(Later(t))
     /\ Later(u) = Front(Later(t))

(* What an edit leaves alone                                               *)
Aside(u, t) ==
  /\ DOMAIN u = DOMAIN t
  /\ u.layers = t.layers /\ u.held = t.held /\ u.operator = t.operator /\ u.count = t.count
  /\ u.kills = t.kills /\ u.progress = t.progress /\ u.record = t.record /\ u.pager = t.pager
  /\ u.offered = t.offered /\ u.arming = t.arming /\ u.last_find = t.last_find
  /\ u.target = t.target /\ u.span_is_line = t.span_is_line

LEMMA AsideKept ==
  ASSUME NEW t, NEW u, IsKept(t), Aside(u, t)
  PROVE  IsKept(u)
BY DEF IsKept, Aside

LEMMA HistoryIs ==
  ASSUME NEW t, NEW P, NEW N, Past(t, P), Future(t, N)
  PROVE  Historied(t) /\ Earlier(t) = P /\ Later(t) = N
BY EarlierIs, LaterIs DEF Historied

LEMMA SameHistory ==
  ASSUME NEW t, NEW u, Historied(t), u.text = t.text, u.steps = t.steps, u.redoable = t.redoable
  PROVE  Historied(u) /\ Earlier(u) = Earlier(t) /\ Later(u) = Later(t) /\ Stacks(t, u)
<1> DEFINE P == Earlier(t)
           N == Later(t)
<1>1. Past(t, P) /\ Future(t, N)
  BY DEF Historied
<1> HIDE DEF P, N
<1>2. Past(u, P) /\ Future(u, N)
  BY <1>1 DEF Past, Future
<1>3. Historied(u) /\ Earlier(u) = P /\ Later(u) = N
  BY <1>2, HistoryIs
<1> QED BY <1>3 DEF Stacks, P, N

(* A line that is written as it was is as sound                            *)
LEMMA StillSound ==
  ASSUME NEW t, NEW u, IsWritten(t), IsKept(u), u.text = t.text, u.steps = t.steps,
         u.redoable = t.redoable, InText(u, t.text), u.live \in BOOLEAN,
         u.coalescing \in BOOLEAN, u.bumped \in BOOLEAN
  PROVE  Sound(u) /\ Earlier(u) = Earlier(t) /\ Later(u) = Later(t) /\ Stacks(t, u)
<1>1. Historied(u) /\ Earlier(u) = Earlier(t) /\ Later(u) = Later(t) /\ Stacks(t, u)
  BY SameHistory DEF IsWritten
<1> QED BY <1>1 DEF IsWritten, Sound

-----------------------------------------------------------------------------
(* An edit                                                                 *)

LEMMA AnchorAdjusted ==
  ASSUME NEW text \in Texts, NEW from, NEW to, NEW with, Within(text, from, to, with),
         NEW anchor \in Offsets(text)
  PROVE  adjust_anchor_for_edit(anchor, from, to, Len(with)) \in Offsets(replace(text, from, to, with))
<1>1. /\ Len(text) \in Nat /\ Len(with) \in Nat /\ from \in Nat /\ to \in Nat /\ from <= to
      /\ to <= Len(text) /\ anchor \in 0 .. Len(text)
  BY DEF Within, Offsets
<1>2. Len(replace(text, from, to, with)) = from + Len(with) + (Len(text) - to)
  BY ReplaceIs
<1> DEFINE m == Len(replace(text, from, to, with))
           n == Len(text)
           k == Len(with)
           a == adjust_anchor_for_edit(anchor, from, to, k)
<1>3. a = CASE anchor <= from -> anchor
            [] anchor >= to /\ anchor > from -> anchor - (to - from) + k
            [] OTHER -> from
  BY DEF adjust_anchor_for_edit
<1>4. a \in 0 .. m
  <2> HIDE DEF m, n, k, a
  <2>0. /\ n \in Nat /\ k \in Nat /\ from \in Nat /\ to \in Nat /\ from <= to
        /\ to <= n /\ anchor \in 0 .. n /\ m = from + k + (n - to)
    BY <1>1, <1>2 DEF m, n, k
  <2>1. CASE anchor <= from
    BY <1>3, <2>0, <2>1
  <2>2. CASE anchor >= to /\ anchor > from
    <3>1. a = anchor - (to - from) + k
      BY <1>3, <2>0, <2>2
    <3> QED BY <2>0, <2>2, <3>1
  <2>3. CASE ~(anchor <= from) /\ ~(anchor >= to /\ anchor > from)
    <3>1. a = from
      BY <1>3, <2>3
    <3> QED BY <2>0, <3>1
  <2> QED BY <2>1, <2>2, <2>3
<1> QED BY <1>4 DEF Offsets

EditOf(t, from, to, with, at) ==
  [at |-> from, removed |-> slice(t.text, from, to), inserted |-> with, before |-> Point(t),
   after |-> [cursor |-> at, anchor |-> adjust_anchor_for_edit(t.anchor, from, to, Len(with)),
              live |-> t.live]]

(* What an edit is, and what it makes                                      *)
LEMMA EditMakes ==
  ASSUME NEW t, IsWritten(t), NEW from, NEW to, NEW with, Within(t.text, from, to, with),
         NEW at \in Offsets(replace(t.text, from, to, with))
  PROVE  /\ EditOf(t, from, to, with, at) \in Edits
         /\ replace(t.text, from, to, with) \in Texts
         /\ Makes(t.text, EditOf(t, from, to, with, at), replace(t.text, from, to, with))
         /\ EditOf(t, from, to, with, at).after.anchor
              = adjust_anchor_for_edit(t.anchor, from, to, Len(with))
         /\ EditOf(t, from, to, with, at).after.anchor \in Offsets(replace(t.text, from, to, with))
         /\ EditOf(t, from, to, with, at).after.cursor = at
         /\ EditOf(t, from, to, with, at).after.live = t.live
         /\ EditOf(t, from, to, with, at).at = from
         /\ EditOf(t, from, to, with, at).inserted = with
         /\ EditOf(t, from, to, with, at).removed = slice(t.text, from, to)
<1> DEFINE now == replace(t.text, from, to, with)
           a == adjust_anchor_for_edit(t.anchor, from, to, Len(with))
           cut == slice(t.text, from, to)
           e == EditOf(t, from, to, with, at)
<1>1. t.text \in Texts /\ InText(t, t.text) /\ t.live \in BOOLEAN
  BY DEF IsWritten
<1>2. now \in Texts /\ Len(now) \in Nat /\ Len(t.text) \in Nat
  BY <1>1, ReplaceIs DEF Texts
<1>3. a \in Offsets(now)
  BY <1>1, AnchorAdjusted DEF InText
<1>4. cut \in Texts /\ Len(cut) = to - from
  <2>1. from \in Nat /\ to \in Nat /\ from <= to /\ to <= Len(t.text)
    BY DEF Within
  <2>2. cut \in Seq(Token) /\ Len(cut) = IF from <= to THEN to - from ELSE 0
    BY <1>1, <2>1, SliceIs DEF Texts
  <2> QED BY <2>1, <2>2 DEF Texts
<1>5. from \in Nat /\ with \in Texts /\ from + Len(cut) = to
  <2>1. from \in Nat /\ to \in Nat /\ with \in Texts
    BY DEF Within, Texts
  <2> HIDE DEF cut
  <2> QED BY <1>4, <2>1
<1>6. t.cursor \in Offsets(t.text) /\ t.anchor \in Offsets(t.text)
  BY <1>1 DEF InText
<1> HIDE DEF now, a, cut
<1>7. /\ e.at = from /\ e.removed = cut /\ e.inserted = with /\ e.before = Point(t)
      /\ e.after.cursor = at /\ e.after.anchor = a /\ e.after.live = t.live
  BY DEF EditOf, now, a, cut
<1>8. Point(t).cursor = t.cursor /\ Point(t).anchor = t.anchor /\ Point(t).live = t.live
  BY DEF Point
<1>9. t.cursor \in Nat /\ t.anchor \in Nat /\ at \in Nat /\ a \in Nat
  BY <1>2, <1>3, <1>6 DEF Offsets, now
<1>10. Point(t) \in Points
  BY <1>1, <1>9 DEF Point, Points
<1>11. [cursor |-> at, anchor |-> a, live |-> t.live] \in Points
  BY <1>1, <1>9 DEF Points
<1>12. e \in Edits
  BY <1>4, <1>5, <1>10, <1>11 DEF Edits, EditOf, a, cut
<1>13. Makes(t.text, e, now)
  <2> HIDE DEF e
  <2>1. Within(t.text, e.at, e.at + Len(e.removed), e.inserted)
    BY <1>5, <1>7
  <2>2. slice(t.text, e.at, e.at + Len(e.removed)) = e.removed
    BY <1>5, <1>7 DEF cut
  <2>3. now = replace(t.text, e.at, e.at + Len(e.removed), e.inserted)
    BY <1>5, <1>7 DEF now
  <2>4. InText(e.before, t.text)
    BY <1>6, <1>7, <1>8 DEF InText
  <2>5. InText(e.after, now)
    BY <1>3, <1>7 DEF InText, now
  <2> QED BY <2>1, <2>2, <2>3, <2>4, <2>5 DEF Makes
<1> HIDE DEF e
<1> QED BY <1>2, <1>3, <1>7, <1>12, <1>13 DEF e, a, now, cut

(* How an edit is added to those there are                                 *)
LEMMA CoalescesInto ==
  ASSUME NEW t, NEW P, Past(t, P), NEW edit \in Edits, NEW now \in Texts,
         Makes(t.text, edit, now)
  PROVE  \/ Chain(Done, Append(P, t.text), coalesce_into_last(t, edit), now)
         \/ /\ Chain(Done, P, coalesce_into_last(t, edit), now)
            /\ P # <<>> /\ Len(now) > Len(t.text)
<1> DEFINE s == t.steps
           last == s[Len(s)]
           joins == /\ t.coalescing /\ is_plain_insertion(edit) /\ s # <<>>
                    /\ is_plain_insertion(last) /\ end_after_insertion(last) = edit.at
           more == [last EXCEPT !.inserted = last.inserted \o edit.inserted, !.after = edit.after]
<1>1. Chain(Done, P, s, t.text)
  BY DEF Past
<1>2. CASE ~joins
  <2>1. coalesce_into_last(t, edit) = Append(s, edit)
    BY <1>2 DEF coalesce_into_last
  <2>2. t.text \in Texts
    BY <1>1 DEF Chain
  <2>3. <<t.text, edit, now>> \in Done
    BY <2>2 DEF Done
  <2>4. Chain(Done, Append(P, t.text), Append(s, edit), now)
    BY <1>1, <2>3, ChainLonger
  <2> QED BY <2>1, <2>4
<1>3. CASE joins
  <2>1. coalesce_into_last(t, edit) = [s EXCEPT ![Len(s)] = more]
    BY <1>3 DEF coalesce_into_last
  <2>2. /\ is_plain_insertion(edit) /\ s # <<>> /\ is_plain_insertion(last)
        /\ end_after_insertion(last) = edit.at
    BY <1>3
  <2>3. P # <<>>
    <3>1. s = <<>> <=> P = <<>>
      BY <1>1, ChainHas
    <3> QED BY <2>2, <3>1
  <2>4. Last(P) \in Texts /\ last \in Edits /\ <<Last(P), last, t.text>> \in Done
    <3>1. Last(P) \in Texts /\ Last(s) \in Edits /\ <<Last(P), Last(s), t.text>> \in Done
      BY <1>1, <2>3, ChainLast
    <3>2. Last(s) = last
      BY DEF Last
    <3> QED BY <3>1, <3>2
  <2>5. Makes(Last(P), last, t.text)
    BY <2>4 DEF Done
  <2> DEFINE was == Last(P)
             a == last.at
             w == last.inserted
             v == edit.inserted
  <2> HIDE DEF last, was
  <2>6. /\ last.removed = <<>> /\ edit.removed = <<>> /\ v # <<>>
        /\ edit.at = a + Len(w)
    BY <2>2 DEF is_plain_insertion, end_after_insertion
  <2>7. a \in Nat /\ w \in Texts /\ v \in Texts /\ last.before \in Points /\ edit.after \in Points
        /\ Len(w) \in Nat /\ Len(v) \in Nat
    BY <2>4 DEF Edits, Texts
  <2>8. Len(last.removed) = 0 /\ Len(edit.removed) = 0
    BY <2>6
  <2>9. /\ Within(was, a, a, w) /\ slice(was, a, a) = <<>>
        /\ t.text = replace(was, a, a, w) /\ InText(last.before, was)
    <3>1. /\ Within(was, a, a + Len(last.removed), w)
          /\ slice(was, a, a + Len(last.removed)) = last.removed
          /\ t.text = replace(was, a, a + Len(last.removed), w)
          /\ InText(last.before, was)
      BY <2>5 DEF Makes, was
    <3>2. a + Len(last.removed) = a
      BY <2>7, <2>8
    <3> HIDE DEF a, w
    <3> QED BY <2>6, <3>1, <3>2
  <2>10. /\ now = replace(t.text, edit.at, edit.at, v) /\ InText(edit.after, now)
         /\ Within(t.text, edit.at, edit.at, v)
    <3>1. /\ now = replace(t.text, edit.at, edit.at + Len(edit.removed), v)
          /\ Within(t.text, edit.at, edit.at + Len(edit.removed), v)
          /\ InText(edit.after, now)
      BY DEF Makes
    <3>2. edit.at \in Nat
      BY DEF Edits
    <3>3. edit.at + Len(edit.removed) = edit.at
      BY <2>8, <3>2
    <3> HIDE DEF v
    <3> QED BY <3>1, <3>3
  <2>11. Within(was, a, a, w \o v) /\ now = replace(was, a, a, w \o v)
    <3>1. v \in Seq(Token)
      BY <2>7 DEF Texts
    <3>2. /\ Within(was, a, a, w \o v)
          /\ replace(replace(was, a, a, w), a + Len(w), a + Len(w), v) = replace(was, a, a, w \o v)
      <4> HIDE DEF a, w, v
      <4> QED BY <2>9, <3>1, ReplaceMore
    <3> QED BY <2>6, <2>9, <2>10, <3>2
  <2>12. /\ more \in Edits /\ more.at = a /\ more.removed = <<>> /\ more.inserted = w \o v
         /\ more.before = last.before /\ more.after = edit.after
    <3>1. w \o v \in Texts
      BY <2>7 DEF Texts
    <3> QED BY <2>4, <2>6, <2>7, <3>1 DEF Edits
  <2>13. Makes(was, more, now)
    <3> HIDE DEF more, a, w, v
    <3>1. a + Len(more.removed) = a
      BY <2>7, <2>12
    <3>2. /\ Within(was, more.at, more.at + Len(more.removed), more.inserted)
          /\ slice(was, more.at, more.at + Len(more.removed)) = more.removed
          /\ now = replace(was, more.at, more.at + Len(more.removed), more.inserted)
      BY <2>9, <2>11, <2>12, <3>1
    <3>3. InText(more.before, was) /\ InText(more.after, now)
      BY <2>9, <2>10, <2>12
    <3> QED BY <3>2, <3>3 DEF Makes
  <2>14. Chain(Done, P, [s EXCEPT ![Len(s)] = more], now)
    <3> HIDE DEF more, s
    <3>1. <<was, more, now>> \in Done
      BY <2>4, <2>12, <2>13 DEF Done, was
    <3> QED BY <1>1, <2>3, <2>12, <3>1, ChainAmended DEF was
  <2>15. Len(now) > Len(t.text)
    <3> DEFINE k == Len(v)
               i == edit.at
               n == Len(t.text)
    <3>1. Len(now) = i + k + (n - i)
      BY <2>10, ReplaceIs
    <3>2. k > 0 /\ k \in Nat
      BY <2>6, <2>7, EmptySeq DEF Texts
    <3>3. n \in Nat /\ i \in Nat
      BY <2>10 DEF Within
    <3> HIDE DEF k, i, n
    <3>4. Len(now) > n
      BY <3>1, <3>2, <3>3
    <3> QED BY <3>4 DEF n
  <2> QED BY <2>1, <2>3, <2>14, <2>15
<1> QED BY <1>2, <1>3

LEMMA EditFields ==
  ASSUME NEW t, IsKept(t), NEW from, NEW to, NEW with, NEW at
  PROVE  /\ apply_edit(t, from, to, with, at).text = replace(t.text, from, to, with)
         /\ apply_edit(t, from, to, with, at).cursor = at
         /\ apply_edit(t, from, to, with, at).anchor
              = adjust_anchor_for_edit(t.anchor, from, to, Len(with))
         /\ apply_edit(t, from, to, with, at).live = t.live
         /\ apply_edit(t, from, to, with, at).bumped
         /\ apply_edit(t, from, to, with, at).steps
              = coalesce_into_last(t, EditOf(t, from, to, with, at))
         /\ apply_edit(t, from, to, with, at).redoable = <<>>
         /\ apply_edit(t, from, to, with, at).coalescing
              = is_plain_insertion(EditOf(t, from, to, with, at))
         /\ Aside(apply_edit(t, from, to, with, at), t)
<1> DEFINE now == replace(t.text, from, to, with)
           a == adjust_anchor_for_edit(t.anchor, from, to, Len(with))
           m == [t EXCEPT !.text = now, !.cursor = at, !.anchor = a, !.bumped = TRUE]
           e == EditOf(t, from, to, with, at)
           u == apply_edit(t, from, to, with, at)
<1>1. DOMAIN t = StateFields
  BY DEF IsKept
<1> HIDE DEF now, a
<1>2. /\ m.text = now /\ m.cursor = at /\ m.anchor = a /\ m.live = t.live /\ m.bumped
      /\ m.steps = t.steps /\ m.coalescing = t.coalescing
  BY <1>1 DEF StateFields
<1>3. Aside(m, t)
  BY <1>1 DEF StateFields, Aside
<1>4. Point(m) = [cursor |-> at, anchor |-> a, live |-> t.live]
  <2> HIDE DEF m
  <2> QED BY <1>2 DEF Point
<1>5. u = record(m, e)
  <2>1. u = record(m, [at |-> from, removed |-> slice(t.text, from, to), inserted |-> with,
                       before |-> Point(t), after |-> Point(m)])
    BY DEF apply_edit, now, a
  <2> HIDE DEF m, u
  <2> QED BY <1>4, <2>1 DEF EditOf, a
<1> DEFINE c == coalesce_into_last(m, e)
           p == is_plain_insertion(e)
<1>6. c = coalesce_into_last(t, e)
  <2> HIDE DEF m, e
  <2> QED BY <1>2 DEF coalesce_into_last
<1>7. u = [m EXCEPT !.steps = c, !.redoable = <<>>, !.coalescing = p]
  <2> HIDE DEF u, m, e
  <2> QED BY <1>5 DEF record
<1>8. DOMAIN m = StateFields
  BY <1>1
<1> HIDE DEF u, m, e, c, p
<1>9. /\ u.text = m.text /\ u.cursor = m.cursor /\ u.anchor = m.anchor /\ u.live = m.live
      /\ u.bumped = m.bumped /\ u.steps = c /\ u.redoable = <<>> /\ u.coalescing = p
  BY <1>7, <1>8 DEF StateFields
<1>10. Aside(u, m)
  BY <1>7, <1>8 DEF StateFields, Aside
<1>11. Aside(u, t)
  BY <1>3, <1>10 DEF Aside
<1> QED BY <1>2, <1>6, <1>9, <1>11 DEF u, e, p, now, a

(* apply_edit: a change of the line, or more of the last one               *)
LEMMA EditStacks ==
  ASSUME NEW t, Sound(t), NEW from, NEW to, NEW with, Within(t.text, from, to, with),
         NEW at \in Offsets(replace(t.text, from, to, with))
  PROVE  /\ Sound(apply_edit(t, from, to, with, at))
         /\ Stacks(t, apply_edit(t, from, to, with, at))
         /\ Aside(apply_edit(t, from, to, with, at), t)
         /\ apply_edit(t, from, to, with, at).text = replace(t.text, from, to, with)
         /\ apply_edit(t, from, to, with, at).cursor = at
         /\ apply_edit(t, from, to, with, at).live = t.live
<1> DEFINE u == apply_edit(t, from, to, with, at)
           e == EditOf(t, from, to, with, at)
           now == replace(t.text, from, to, with)
           P == Earlier(t)
<1>1. IsKept(t) /\ IsWritten(t) /\ Past(t, P)
  BY DEF Sound, IsWritten, Historied
<1>2. /\ u.text = now /\ u.cursor = at /\ u.live = t.live /\ u.bumped
      /\ u.anchor = adjust_anchor_for_edit(t.anchor, from, to, Len(with))
      /\ u.steps = coalesce_into_last(t, e) /\ u.redoable = <<>>
      /\ u.coalescing = is_plain_insertion(e) /\ Aside(u, t)
  BY <1>1, EditFields
<1>3. /\ e \in Edits /\ now \in Texts /\ Makes(t.text, e, now)
      /\ e.after.anchor = adjust_anchor_for_edit(t.anchor, from, to, Len(with))
      /\ e.after.anchor \in Offsets(now)
  BY <1>1, EditMakes
<1> HIDE DEF u, e, now, P
<1>4. InText(u, u.text)
  BY <1>2, <1>3 DEF InText, now
<1>5. Future(u, <<>>)
  BY <1>2, <1>3, ChainEmpty DEF Future
<1>6. \/ Past(u, Append(P, t.text))
      \/ Past(u, P) /\ P # <<>> /\ Len(u.text) > Len(t.text)
  BY <1>1, <1>2, <1>3, CoalescesInto DEF Past
<1>7. Historied(u) /\ Stacks(t, u)
  <2>1. CASE Past(u, Append(P, t.text))
    <3>1. Historied(u) /\ Earlier(u) = Append(P, t.text) /\ Later(u) = <<>>
      BY <1>5, <2>1, HistoryIs
    <3> QED BY <3>1 DEF Stacks, P
  <2>2. CASE Past(u, P) /\ P # <<>> /\ Len(u.text) > Len(t.text)
    <3>1. Historied(u) /\ Earlier(u) = P /\ Later(u) = <<>>
      BY <1>5, <2>2, HistoryIs
    <3> QED BY <2>2, <3>1 DEF Stacks, P
  <2> QED BY <1>6, <2>1, <2>2
<1>8. u.coalescing \in BOOLEAN /\ u.live \in BOOLEAN /\ u.bumped \in BOOLEAN
  BY <1>1, <1>2 DEF is_plain_insertion, IsWritten
<1>9. IsKept(u)
  BY <1>1, <1>2, AsideKept
<1>10. Sound(u)
  BY <1>2, <1>3, <1>4, <1>7, <1>8, <1>9 DEF Sound, IsWritten
<1> QED BY <1>2, <1>7, <1>10 DEF u, now

-----------------------------------------------------------------------------
(* Undo and redo                                                           *)

LEMMA CoalescingBroken ==
  ASSUME NEW t, Sound(t)
  PROVE  /\ Sound(break_coalescing(t)) /\ Stacks(t, break_coalescing(t))
         /\ Earlier(break_coalescing(t)) = Earlier(t) /\ Later(break_coalescing(t)) = Later(t)
         /\ break_coalescing(t).text = t.text /\ break_coalescing(t).cursor = t.cursor
         /\ break_coalescing(t).anchor = t.anchor /\ break_coalescing(t).live = t.live
         /\ break_coalescing(t).bumped = t.bumped
         /\ Aside(break_coalescing(t), t)
<1> DEFINE no == FALSE
           u == [t EXCEPT !.coalescing = no]
<1>0. no \in BOOLEAN /\ u = break_coalescing(t)
  BY DEF break_coalescing
<1>1. DOMAIN t = StateFields /\ IsKept(t) /\ IsWritten(t)
  BY DEF Sound, IsKept
<1> HIDE DEF no
<1>2. /\ u.text = t.text /\ u.cursor = t.cursor /\ u.anchor = t.anchor /\ u.live = t.live
      /\ u.bumped = t.bumped /\ u.steps = t.steps /\ u.redoable = t.redoable /\ u.coalescing = no
  BY <1>1 DEF StateFields
<1>3. Aside(u, t)
  BY <1>1 DEF StateFields, Aside
<1> HIDE DEF u
<1>4. IsKept(u)
  BY <1>1, <1>3, AsideKept
<1>5. /\ InText(u, t.text) /\ u.live \in BOOLEAN /\ u.coalescing \in BOOLEAN
      /\ u.bumped \in BOOLEAN
  BY <1>0, <1>1, <1>2 DEF IsWritten, InText
<1>6. Sound(u) /\ Earlier(u) = Earlier(t) /\ Later(u) = Later(t) /\ Stacks(t, u)
  BY <1>1, <1>2, <1>4, <1>5, StillSound
<1> QED BY <1>0, <1>2, <1>3, <1>6

(* Undo goes back to the text there was.                                  *)
LEMMA UndoStacks ==
  ASSUME NEW t, Sound(t)
  PROVE  /\ Sound(undo_one(t)) /\ Stacks(t, undo_one(t)) /\ Aside(undo_one(t), t)
<1>0. IsKept(t) /\ IsWritten(t) /\ DOMAIN t = StateFields
  BY DEF Sound, IsKept
<1>1. CASE t.steps = <<>>
  <2>1. undo_one(t) = t
    BY <1>1 DEF undo_one
  <2>2. Stacks(t, t)
    BY DEF Stacks
  <2>3. Aside(t, t)
    BY DEF Aside
  <2> QED BY <2>1, <2>2, <2>3
<1>2. CASE t.steps # <<>>
  <2> DEFINE e == Last(t.steps)
             P == Earlier(t)
             N == Later(t)
             was == Last(P)
             now == replace(t.text, e.at, end_after_insertion(e), e.removed)
             no == FALSE
             yes == TRUE
             q == Append(t.redoable, e)
             r == Front(t.steps)
             m == [t EXCEPT !.text = now, !.steps = r, !.redoable = q,
                            !.coalescing = no, !.bumped = yes]
             p == e.before
             u == undo_one(t)
  <2>1. u = [m EXCEPT !.cursor = p.cursor, !.anchor = p.anchor, !.live = p.live]
    BY <1>2 DEF undo_one, AtPoint
  <2>2. no \in BOOLEAN /\ yes \in BOOLEAN
    OBVIOUS
  <2>3. Chain(Done, P, t.steps, t.text) /\ Chain(Undone, N, t.redoable, t.text)
    BY <1>0 DEF IsWritten, Historied, Past, Future
  <2> HIDE DEF P, N, no, yes, now, q, r, u
  <2>4. P # <<>>
    <3>1. t.steps = <<>> <=> P = <<>>
      BY <2>3, ChainHas
    <3> QED BY <1>2, <3>1
  <2>5. was \in Texts /\ e \in Edits /\ <<was, e, t.text>> \in Done
    BY <2>3, <2>4, ChainLast
  <2>6. Chain(Done, Front(P), r, was)
    BY <2>3, <2>4, ChainShorter DEF r
  <2>7. Makes(was, e, t.text)
    BY <2>5 DEF Done
  <2>8. now = was
    <3> HIDE DEF was, e
    <3> QED BY <2>5, <2>7, MakesBack DEF now
  <2>9. Chain(Undone, Append(N, t.text), q, was)
    <3>1. <<t.text, e, was>> \in Undone
      <4> HIDE DEF was, e
      <4>1. t.text \in Texts
        BY <2>3 DEF Chain
      <4> QED BY <2>5, <2>7, <4>1 DEF Undone
    <3> HIDE DEF was, e
    <3> QED BY <2>3, <2>5, <3>1, ChainLonger DEF q
  <2>10. /\ m.text = now /\ m.steps = r /\ m.redoable = q /\ m.coalescing = no /\ m.bumped = yes
         /\ DOMAIN m = StateFields
    <3> HIDE DEF e
    <3> QED BY <1>0 DEF StateFields
  <2>11. Aside(m, t)
    <3> HIDE DEF e
    <3> QED BY <1>0 DEF StateFields, Aside
  <2>12. p.cursor \in Offsets(was) /\ p.anchor \in Offsets(was) /\ p.live \in BOOLEAN
    <3>1. InText(p, was)
      BY <2>7 DEF Makes
    <3>2. p \in Points
      BY <2>5 DEF Edits
    <3> QED BY <3>1, <3>2 DEF InText, Points
  <2> HIDE DEF m, p, e, was
  <2>13. /\ u.text = m.text /\ u.steps = m.steps /\ u.redoable = m.redoable
         /\ u.coalescing = m.coalescing /\ u.bumped = m.bumped
         /\ u.cursor = p.cursor /\ u.anchor = p.anchor /\ u.live = p.live
    BY <2>1, <2>10 DEF StateFields
  <2>14. Aside(u, m)
    BY <2>1, <2>10 DEF StateFields, Aside
  <2>15. Aside(u, t)
    BY <2>11, <2>14 DEF Aside
  <2>16. u.text = was /\ u.steps = r /\ u.redoable = q
    BY <2>8, <2>10, <2>13
  <2>17. Past(u, Front(P)) /\ Future(u, Append(N, t.text))
    BY <2>6, <2>9, <2>16 DEF Past, Future
  <2>18. Historied(u) /\ Earlier(u) = Front(P) /\ Later(u) = Append(N, t.text)
    BY <2>17, HistoryIs
  <2>19. Stacks(t, u)
    BY <2>4, <2>16, <2>18 DEF Stacks, P, N, was
  <2>20. IsKept(u)
    BY <1>0, <2>15, AsideKept
  <2>21. InText(u, u.text)
    BY <2>12, <2>13, <2>16 DEF InText
  <2>22. u.live \in BOOLEAN /\ u.coalescing \in BOOLEAN /\ u.bumped \in BOOLEAN
    BY <2>2, <2>10, <2>12, <2>13
  <2>23. Sound(u)
    BY <2>5, <2>16, <2>18, <2>20, <2>21, <2>22 DEF Sound, IsWritten
  <2> QED BY <2>15, <2>19, <2>23 DEF u
<1> QED BY <1>1, <1>2

(* Redo goes forward to the text there was.                               *)
LEMMA RedoStacks ==
  ASSUME NEW t, Sound(t)
  PROVE  /\ Sound(redo_one(t)) /\ Stacks(t, redo_one(t)) /\ Aside(redo_one(t), t)
<1>0. IsKept(t) /\ IsWritten(t) /\ DOMAIN t = StateFields
  BY DEF Sound, IsKept
<1>1. CASE t.redoable = <<>>
  <2>1. redo_one(t) = t
    BY <1>1 DEF redo_one
  <2>2. Stacks(t, t)
    BY DEF Stacks
  <2>3. Aside(t, t)
    BY DEF Aside
  <2> QED BY <2>1, <2>2, <2>3
<1>2. CASE t.redoable # <<>>
  <2> DEFINE e == Last(t.redoable)
             P == Later(t)
             N == Earlier(t)
             was == Last(P)
             now == replace(t.text, e.at, e.at + Len(e.removed), e.inserted)
             no == FALSE
             yes == TRUE
             q == Append(t.steps, e)
             r == Front(t.redoable)
             m == [t EXCEPT !.text = now, !.redoable = r, !.steps = q,
                            !.coalescing = no, !.bumped = yes]
             p == e.after
             u == redo_one(t)
  <2>1. u = [m EXCEPT !.cursor = p.cursor, !.anchor = p.anchor, !.live = p.live]
    BY <1>2 DEF redo_one, AtPoint
  <2>2. no \in BOOLEAN /\ yes \in BOOLEAN
    OBVIOUS
  <2>3. Chain(Undone, P, t.redoable, t.text) /\ Chain(Done, N, t.steps, t.text)
    BY <1>0 DEF IsWritten, Historied, Past, Future
  <2> HIDE DEF P, N, no, yes, now, q, r, u
  <2>4. P # <<>>
    <3>1. t.redoable = <<>> <=> P = <<>>
      BY <2>3, ChainHas
    <3> QED BY <1>2, <3>1
  <2>5. was \in Texts /\ e \in Edits /\ <<was, e, t.text>> \in Undone
    BY <2>3, <2>4, ChainLast
  <2>6. Chain(Undone, Front(P), r, was)
    BY <2>3, <2>4, ChainShorter DEF r
  <2>7. Makes(t.text, e, was)
    BY <2>5 DEF Undone
  <2>8. now = was
    <3> HIDE DEF was, e
    <3> QED BY <2>5, <2>7, MakesBack DEF now
  <2>9. Chain(Done, Append(N, t.text), q, was)
    <3>1. <<t.text, e, was>> \in Done
      <4> HIDE DEF was, e
      <4>1. t.text \in Texts
        BY <2>3 DEF Chain
      <4> QED BY <2>5, <2>7, <4>1 DEF Done
    <3> HIDE DEF was, e
    <3> QED BY <2>3, <2>5, <3>1, ChainLonger DEF q
  <2>10. /\ m.text = now /\ m.redoable = r /\ m.steps = q /\ m.coalescing = no /\ m.bumped = yes
         /\ DOMAIN m = StateFields
    <3> HIDE DEF e
    <3> QED BY <1>0 DEF StateFields
  <2>11. Aside(m, t)
    <3> HIDE DEF e
    <3> QED BY <1>0 DEF StateFields, Aside
  <2>12. p.cursor \in Offsets(was) /\ p.anchor \in Offsets(was) /\ p.live \in BOOLEAN
    <3>1. InText(p, was)
      BY <2>7 DEF Makes
    <3>2. p \in Points
      BY <2>5 DEF Edits
    <3> QED BY <3>1, <3>2 DEF InText, Points
  <2> HIDE DEF m, p, e, was
  <2>13. /\ u.text = m.text /\ u.redoable = m.redoable /\ u.steps = m.steps
         /\ u.coalescing = m.coalescing /\ u.bumped = m.bumped
         /\ u.cursor = p.cursor /\ u.anchor = p.anchor /\ u.live = p.live
    BY <2>1, <2>10 DEF StateFields
  <2>14. Aside(u, m)
    BY <2>1, <2>10 DEF StateFields, Aside
  <2>15. Aside(u, t)
    BY <2>11, <2>14 DEF Aside
  <2>16. u.text = was /\ u.redoable = r /\ u.steps = q
    BY <2>8, <2>10, <2>13
  <2>17. Future(u, Front(P)) /\ Past(u, Append(N, t.text))
    BY <2>6, <2>9, <2>16 DEF Past, Future
  <2>18. Historied(u) /\ Later(u) = Front(P) /\ Earlier(u) = Append(N, t.text)
    BY <2>17, HistoryIs
  <2>19. Stacks(t, u)
    BY <2>4, <2>16, <2>18 DEF Stacks, P, N, was
  <2>20. IsKept(u)
    BY <1>0, <2>15, AsideKept
  <2>21. InText(u, u.text)
    BY <2>12, <2>13, <2>16 DEF InText
  <2>22. u.live \in BOOLEAN /\ u.coalescing \in BOOLEAN /\ u.bumped \in BOOLEAN
    BY <2>2, <2>10, <2>12, <2>13
  <2>23. Sound(u)
    BY <2>5, <2>16, <2>18, <2>20, <2>21, <2>22 DEF Sound, IsWritten
  <2> QED BY <2>15, <2>19, <2>23 DEF u
<1> QED BY <1>1, <1>2

-----------------------------------------------------------------------------
(* What an action staged, made                                             *)

SameTexts(t, u) == Earlier(u) = Earlier(t) /\ u.text = t.text /\ Later(u) = Later(t)

(* A line with the same history, and nothing changed beside it             *)
Alike(t, u) ==
  /\ Sound(u) /\ SameTexts(t, u) /\ Aside(u, t)
  /\ u.cursor = t.cursor /\ u.anchor = t.anchor /\ u.live = t.live

LEMMA SameThenStacks ==
  ASSUME NEW t, NEW u, NEW v, SameTexts(t, u), Stacks(u, v)
  PROVE  Stacks(t, v)
BY DEF SameTexts, Stacks

LEMMA StacksThenSame ==
  ASSUME NEW t, NEW u, NEW v, Stacks(t, u), SameTexts(u, v)
  PROVE  Stacks(t, v)
BY DEF SameTexts, Stacks

LEMMA SameStacks ==
  ASSUME NEW t, NEW u, SameTexts(t, u)
  PROVE  Stacks(t, u)
BY DEF SameTexts, Stacks

LEMMA AsideTwice ==
  ASSUME NEW t, NEW u, NEW v, Aside(u, t), Aside(v, u)
  PROVE  Aside(v, t)
BY DEF Aside

LEMMA BrokenAlike ==
  ASSUME NEW t, Sound(t), NEW u, u = t \/ u = break_coalescing(t)
  PROVE  Alike(t, u)
<1>1. CASE u = t
  BY <1>1 DEF Alike, SameTexts, Aside
<1>2. CASE u = break_coalescing(t)
  BY <1>2, CoalescingBroken DEF Alike, SameTexts
<1> QED BY <1>1, <1>2

(* Where the cursor is put, in the same line                               *)
LEMMA CursorPut ==
  ASSUME NEW t, Sound(t), NEW at \in Offsets(t.text), NEW u, u = [t EXCEPT !.cursor = at]
  PROVE  Sound(u) /\ SameTexts(t, u) /\ Aside(u, t) /\ u.cursor = at
<1>1. DOMAIN t = StateFields /\ IsKept(t) /\ IsWritten(t)
  BY DEF Sound, IsKept
<1>2. /\ u.text = t.text /\ u.cursor = at /\ u.anchor = t.anchor /\ u.live = t.live
      /\ u.bumped = t.bumped /\ u.steps = t.steps /\ u.redoable = t.redoable
      /\ u.coalescing = t.coalescing
  BY <1>1 DEF StateFields
<1>3. Aside(u, t)
  BY <1>1 DEF StateFields, Aside
<1>4. IsKept(u)
  BY <1>1, <1>3, AsideKept
<1>5. /\ InText(u, t.text) /\ u.live \in BOOLEAN /\ u.coalescing \in BOOLEAN /\ u.bumped \in BOOLEAN
  BY <1>1, <1>2 DEF IsWritten, InText
<1>6. Sound(u) /\ Earlier(u) = Earlier(t) /\ Later(u) = Later(t)
  BY <1>1, <1>2, <1>4, <1>5, StillSound
<1> QED BY <1>2, <1>3, <1>6 DEF SameTexts

(* What is selected in it                                                  *)
LEMMA SelectionPut ==
  ASSUME NEW t, Sound(t), NEW at \in Offsets(t.text), NEW live \in BOOLEAN, NEW u,
         u = [t EXCEPT !.anchor = at, !.live = live]
  PROVE  Sound(u) /\ SameTexts(t, u) /\ Aside(u, t) /\ u.cursor = t.cursor
<1>1. DOMAIN t = StateFields /\ IsKept(t) /\ IsWritten(t)
  BY DEF Sound, IsKept
<1>2. /\ u.text = t.text /\ u.cursor = t.cursor /\ u.anchor = at /\ u.live = live
      /\ u.bumped = t.bumped /\ u.steps = t.steps /\ u.redoable = t.redoable
      /\ u.coalescing = t.coalescing
  BY <1>1 DEF StateFields
<1>3. Aside(u, t)
  BY <1>1 DEF StateFields, Aside
<1>4. IsKept(u)
  BY <1>1, <1>3, AsideKept
<1>5. /\ InText(u, t.text) /\ u.live \in BOOLEAN /\ u.coalescing \in BOOLEAN /\ u.bumped \in BOOLEAN
  BY <1>1, <1>2 DEF IsWritten, InText
<1>6. Sound(u) /\ Earlier(u) = Earlier(t) /\ Later(u) = Later(t)
  BY <1>1, <1>2, <1>4, <1>5, StillSound
<1> QED BY <1>2, <1>3, <1>6 DEF SameTexts

(* What is left of the state when an action is settled                     *)
Settled(h, r) ==
  /\ Sound(r.t) /\ Stacks(h.t, r.t) /\ Aside(r.t, h.t) /\ r.t.text = h.text
  /\ h.text # h.t.text => r.t.cursor = h.cursor
  /\ h.text = h.t.text => SameTexts(h.t, r.t)
  /\ r.injected = h.pushed

LEMMA SettledIs ==
  ASSUME NEW h, IsHandle(h), Sound(h.t), NEW how, NEW change,
         Within(h.t.text, change.from, change.to, change.with),
         replace(h.t.text, change.from, change.to, change.with) = h.text
  PROVE  Settled(h, SettleAs(h, how, change))
<1> DEFINE t == h.t
           any == t.text # h.text
           typed == any /\ change.from = change.to /\ Len(change.with) = 1
                        /\ change.with = how.keys
           Break(u) == IF typed THEN u ELSE break_coalescing(u)
           at == clamp_into(h.text, h.cursor)
           b == Break(t)
           a == apply_edit(b, change.from, change.to, change.with, at)
           spot == IF h.moved THEN clamp_into(t.text, h.cursor) ELSE t.cursor
           edited == IF any THEN Break(a) ELSE [b EXCEPT !.cursor = spot]
           chosen == IF h.chose THEN [edited EXCEPT !.anchor = clamp_into(edited.text, h.anchor),
                                                    !.live = h.live]
                     ELSE edited
           r == SettleAs(h, how, change)
<1>1. r.t = chosen /\ r.injected = h.pushed
  BY DEF SettleAs
<1>2. h.text \in Seq(Token) /\ h.cursor \in Offsets(h.text) /\ h.anchor \in Nat /\ h.live \in BOOLEAN
  BY DEF IsHandle
<1>3. at = h.cursor /\ h.cursor \in Nat
  <2>1. h.cursor \in Nat
    BY <1>2 DEF Offsets
  <2> QED BY <1>2, <2>1, ClampIs
<1>4. Alike(t, b)
  <2>1. b = t \/ b = break_coalescing(t)
    OBVIOUS
  <2> HIDE DEF b
  <2> QED BY <2>1, BrokenAlike
<1>5. /\ Sound(edited) /\ Stacks(t, edited) /\ Aside(edited, t) /\ edited.text = h.text
      /\ any => edited.cursor = h.cursor
      /\ ~any => SameTexts(t, edited)
  <2>1. CASE any
    <3>1. edited = Break(a)
      BY <2>1
    <3>2. Sound(b) /\ b.text = t.text /\ SameTexts(t, b) /\ Aside(b, t)
      BY <1>4 DEF Alike, SameTexts
    <3>3. Within(b.text, change.from, change.to, change.with)
          /\ replace(b.text, change.from, change.to, change.with) = h.text
      BY <3>2
    <3>4. at \in Offsets(h.text)
      BY <1>2, <1>3
    <3> HIDE DEF b, at
    <3>5. Sound(a) /\ Stacks(b, a) /\ Aside(a, b) /\ a.text = h.text /\ a.cursor = at
      BY <3>2, <3>3, <3>4, EditStacks
    <3>6. Break(a) = a \/ Break(a) = break_coalescing(a)
      OBVIOUS
    <3> HIDE DEF a
    <3> DEFINE c == Break(a)
    <3>7. c = a \/ c = break_coalescing(a)
      BY <3>6
    <3> HIDE DEF c
    <3>8. Alike(a, c)
      BY <3>5, <3>7, BrokenAlike
    <3>9. Sound(c) /\ SameTexts(a, c) /\ Aside(c, a) /\ c.cursor = a.cursor /\ c.text = a.text
      BY <3>8 DEF Alike, SameTexts
    <3>10. Stacks(t, c)
      <4>1. Stacks(t, a)
        BY <3>2, <3>5, SameThenStacks
      <4> QED BY <3>9, <4>1, StacksThenSame
    <3>11. Aside(c, t)
      BY <3>2, <3>5, <3>9, AsideTwice
    <3>12. edited = c
      BY <3>1 DEF c
    <3> HIDE DEF edited
    <3> QED BY <1>3, <2>1, <3>5, <3>9, <3>10, <3>11, <3>12
  <2>2. CASE ~any
    <3>1. edited = [b EXCEPT !.cursor = spot]
      BY <2>2
    <3>2. Sound(b) /\ b.text = t.text /\ SameTexts(t, b) /\ Aside(b, t)
      BY <1>4 DEF Alike, SameTexts
    <3>3. spot \in Offsets(b.text)
      <4>1. t.cursor \in Offsets(t.text) /\ t.text \in Seq(Token)
        BY DEF Sound, IsWritten, InText, Texts
      <4>2. clamp_into(t.text, h.cursor) \in Offsets(t.text)
        BY <1>3, <4>1, ClampIs
      <4> QED BY <3>2, <4>1, <4>2
    <3> HIDE DEF b, spot, edited
    <3>4. Sound(edited) /\ SameTexts(b, edited) /\ Aside(edited, b)
      BY <3>1, <3>2, <3>3, CursorPut
    <3>5. SameTexts(t, edited) /\ edited.text = t.text
      BY <3>2, <3>4 DEF SameTexts
    <3>6. Aside(edited, t)
      BY <3>2, <3>4, AsideTwice
    <3>7. Stacks(t, edited)
      BY <3>5, SameStacks
    <3> QED BY <2>2, <3>4, <3>5, <3>6, <3>7
  <2> HIDE DEF edited
  <2> QED BY <2>1, <2>2
<1> HIDE DEF edited, any
<1>6. /\ Sound(chosen) /\ SameTexts(edited, chosen) /\ Aside(chosen, edited)
      /\ chosen.cursor = edited.cursor
  <2>1. CASE h.chose
    <3> DEFINE p == clamp_into(edited.text, h.anchor)
               v == h.live
    <3>1. p \in Offsets(edited.text)
      BY <1>2, <1>5, ClampIs
    <3>2. chosen = [edited EXCEPT !.anchor = p, !.live = v]
      BY <2>1
    <3>3. v \in BOOLEAN
      BY <1>2
    <3> HIDE DEF p, chosen, v
    <3> QED BY <1>5, <3>1, <3>2, <3>3, SelectionPut
  <2>2. CASE ~h.chose
    <3>1. chosen = edited
      BY <2>2
    <3> HIDE DEF chosen
    <3>2. SameTexts(edited, chosen) /\ Aside(chosen, edited)
      BY <3>1 DEF SameTexts, Aside
    <3> QED BY <1>5, <3>1, <3>2
  <2> HIDE DEF chosen
  <2> QED BY <2>1, <2>2
<1> HIDE DEF chosen, r
<1>7. Stacks(t, chosen)
  BY <1>5, <1>6, StacksThenSame
<1>8. Aside(chosen, t)
  BY <1>5, <1>6, AsideTwice
<1>9. chosen.text = h.text
  BY <1>5, <1>6 DEF SameTexts
<1>10. h.text # h.t.text => chosen.cursor = h.cursor
  BY <1>5, <1>6 DEF any
<1>11. h.text = h.t.text => SameTexts(h.t, chosen)
  <2>1. ASSUME h.text = h.t.text PROVE SameTexts(h.t, chosen)
    <3>1. SameTexts(h.t, edited)
      BY <1>5, <2>1 DEF any
    <3> QED BY <1>6, <3>1 DEF SameTexts
  <2> QED BY <2>1
<1> QED BY <1>1, <1>6, <1>7, <1>8, <1>9, <1>10, <1>11 DEF Settled, r

(* invoke: what an action staged is one edit, or none                      *)
LEMMA SettleIs ==
  ASSUME NEW h, IsHandle(h), Sound(h.t), NEW how
  PROVE  Settled(h, Settle(h, how))
<1> DEFINE change == diff_of(h.t.text, h.text)
<1>1. h.t.text \in Seq(Token) /\ h.text \in Seq(Token)
  BY DEF Sound, IsWritten, Texts, IsHandle
<1>2. /\ Within(h.t.text, change.from, change.to, change.with)
      /\ replace(h.t.text, change.from, change.to, change.with) = h.text
  BY <1>1, DiffIs
<1>3. Settle(h, how) = SettleAs(h, how, change)
  BY DEF Settle
<1> HIDE DEF change
<1> QED BY <1>2, <1>3, SettledIs

-----------------------------------------------------------------------------
(* What the handling of a key, or of anything else, does of the line.      *)

KillsFit(t, u) ==
  \/ u.kills = t.kills
  \/ u.text = t.text
  \/ \E from, to : /\ Within(t.text, from, to, <<>>)
                   /\ u.text = replace(t.text, from, to, <<>>)
                   /\ u.cursor = from
                   /\ Cut(u.kills.text, slice(t.text, from, to))
Picks(t, u) == t.pager.open /\ u.pager.open => Narrows(t.pager, u.pager)
Event(t, u) == Sound(u) /\ InStep(u) /\ Stacks(t, u) /\ KillsFit(t, u) /\ Picks(t, u)
Made(t, r) == Event(t, r.t) /\ r.injected \in Seq(Token)

(* The same line, in the same modes                                        *)
SameModes(u, t) == u.layers = t.layers /\ u.operator = t.operator /\ u.pager = t.pager
Beside(t, u) ==
  Sound(u) /\ SameTexts(t, u) /\ SameModes(u, t) /\ u.kills = t.kills /\ u.cursor = t.cursor

LEMMA SameInStep ==
  ASSUME NEW t, NEW u, SameModes(u, t)
  PROVE  /\ InStep(u) <=> InStep(t)
         /\ AtMode(u) <=> AtMode(t)
         /\ InPager(u) <=> InPager(t)
         /\ Awaiting(u) <=> Awaiting(t)
         /\ Operating(u) <=> Operating(t)
         /\ Finding(u) <=> Finding(t)
BY DEF SameModes, InStep, AtMode, InPager, Awaiting, Operating, Finding

LEMMA NarrowsItself ==
  ASSUME NEW p
  PROVE  Narrows(p, p)
BY DEF Narrows

LEMMA BesideEvent ==
  ASSUME NEW t, InStep(t), NEW u, Beside(t, u)
  PROVE  Event(t, u)
<1>1. InStep(u)
  BY SameInStep DEF Beside
<1>2. Stacks(t, u)
  BY SameStacks DEF Beside
<1>3. Picks(t, u)
  BY NarrowsItself DEF Picks, Beside, SameModes
<1> QED BY <1>1, <1>2, <1>3 DEF Event, Beside, KillsFit

LEMMA BesideThenEvent ==
  ASSUME NEW t, NEW u, NEW v, Beside(t, u), Event(u, v)
  PROVE  Event(t, v)
<1>1. SameTexts(t, u) /\ u.text = t.text /\ u.pager = t.pager /\ u.kills = t.kills
  BY DEF Beside, SameTexts, SameModes
<1>2. Stacks(t, v)
  BY <1>1, SameThenStacks DEF Event
<1>3. KillsFit(t, v)
  BY <1>1 DEF Event, KillsFit
<1>4. Picks(t, v)
  BY <1>1 DEF Event, Picks
<1> QED BY <1>2, <1>3, <1>4 DEF Event

LEMMA EventThenBeside ==
  ASSUME NEW t, NEW u, NEW v, Event(t, u), Beside(u, v)
  PROVE  Event(t, v)
<1>1. /\ SameTexts(u, v) /\ v.text = u.text /\ v.pager = u.pager /\ v.kills = u.kills
      /\ v.cursor = u.cursor /\ Sound(v) /\ SameModes(v, u)
  BY DEF Beside, SameTexts, SameModes
<1>2. Stacks(t, v)
  BY <1>1, StacksThenSame DEF Event
<1>3. KillsFit(t, v)
  BY <1>1 DEF Event, KillsFit
<1>4. Picks(t, v)
  BY <1>1 DEF Event, Picks
<1>5. InStep(v)
  BY <1>1, SameInStep DEF Event
<1> QED BY <1>1, <1>2, <1>3, <1>4, <1>5 DEF Event

-----------------------------------------------------------------------------
LEMMA HandleIs ==
  ASSUME NEW t, Sound(t)
  PROVE  /\ IsHandle(Handle(t)) /\ Handle(t).t = t /\ Handle(t).text = t.text
         /\ Handle(t).cursor = t.cursor /\ Handle(t).pushed = <<>> /\ ~Handle(t).wrote
<1> DEFINE h == Handle(t)
<1>1. /\ DOMAIN h = HandleFields /\ h.t = t /\ h.text = t.text /\ h.cursor = t.cursor
      /\ h.anchor = t.anchor /\ h.live = t.live /\ ~h.wrote /\ ~h.moved /\ ~h.chose
      /\ h.wrote \in BOOLEAN /\ h.moved \in BOOLEAN /\ h.chose \in BOOLEAN
      /\ h.pushed = <<>> /\ h.outcome = "none"
  BY DEF Handle, HandleFields
<1>2. /\ IsKept(t) /\ t.text \in Seq(Token) /\ t.cursor \in Offsets(t.text) /\ t.anchor \in Nat
      /\ t.live \in BOOLEAN
  BY DEF Sound, IsWritten, InText, Texts, Offsets
<1> HIDE DEF h
<1>3. h.pushed \in Seq(Token)
  BY <1>1
<1>4. IsHandle(h)
  BY <1>1, <1>2, <1>3 DEF IsHandle
<1> QED BY <1>1, <1>4 DEF h

LEMMA ActedSound ==
  ASSUME NEW t, Sound(t), NEW u, IsKept(u), TextKept(u, t)
  PROVE  Sound(u) /\ SameTexts(t, u)
<1>1. /\ u.text = t.text /\ u.cursor = t.cursor /\ u.anchor = t.anchor /\ u.live = t.live
      /\ u.steps = t.steps /\ u.redoable = t.redoable /\ u.coalescing = t.coalescing
      /\ u.bumped = t.bumped
  BY DEF TextKept
<1>2. IsWritten(t) /\ InText(u, t.text) /\ u.live \in BOOLEAN /\ u.coalescing \in BOOLEAN
      /\ u.bumped \in BOOLEAN
  BY <1>1 DEF Sound, IsWritten, InText
<1> QED BY <1>1, <1>2, StillSound DEF SameTexts

(* What an action staged, and what is made of it                           *)
LEMMA MadeOf ==
  ASSUME NEW t, Sound(t), NEW g, IsHandle(g), TextKept(g.t, t), InStep(g.t), NEW how,
         KillFits(Handle(t), g), Picks(t, g.t)
  PROVE  Made(t, Settle(g, how))
<1> DEFINE r == Settle(g, how)
           u == r.t
           h == Handle(t)
<1>1. Sound(g.t) /\ SameTexts(t, g.t) /\ g.t.text = t.text
  BY ActedSound DEF IsHandle, TextKept
<1>2. Settled(g, r)
  BY <1>1, SettleIs
<1>3. h.t = t /\ h.text = t.text
  BY HandleIs
<1> HIDE DEF r, h
<1>4. /\ Sound(u) /\ Stacks(g.t, u) /\ Aside(u, g.t) /\ u.text = g.text
      /\ g.text # g.t.text => u.cursor = g.cursor
      /\ r.injected = g.pushed
  BY <1>2 DEF Settled
<1>5. Stacks(t, u)
  BY <1>1, <1>4, SameThenStacks
<1>6. SameModes(u, g.t) /\ u.kills = g.t.kills /\ u.pager = g.t.pager
  BY <1>4 DEF Aside, SameModes
<1>7. InStep(u)
  BY <1>6, SameInStep
<1>8. Picks(t, u)
  BY <1>6 DEF Picks
<1>9. KillsFit(t, u)
  <2>1. KillFits(h, g)
    BY DEF h
  <2>2. CASE g.t.kills = h.t.kills
    BY <1>3, <1>6, <2>2 DEF KillsFit
  <2>3. CASE g.text = h.text
    BY <1>3, <1>4, <2>3 DEF KillsFit
  <2>4. CASE g.text # h.text /\ ~(g.t.kills = h.t.kills)
    <3>1. PICK from, to : /\ Within(t.text, from, to, <<>>)
                          /\ g.text = replace(t.text, from, to, <<>>)
                          /\ g.cursor = from
                          /\ Cut(g.t.kills.text, slice(t.text, from, to))
      BY <1>3, <2>1, <2>4 DEF KillFits
    <3>2. u.cursor = from
      BY <1>1, <1>3, <1>4, <2>4, <3>1
    <3> QED BY <1>4, <1>6, <3>1, <3>2 DEF KillsFit
  <2> QED BY <2>2, <2>3, <2>4
<1>10. r.injected \in Seq(Token)
  BY <1>4 DEF IsHandle
<1> QED BY <1>4, <1>5, <1>7, <1>8, <1>9, <1>10 DEF Made, Event, r

LEMMA KeepsMade ==
  ASSUME NEW t, Sound(t), ~t.pager.open, NEW g, Keeps(Handle(t), g), NEW how
  PROVE  Made(t, Settle(g, how))
<1>1. Handle(t).t = t
  BY HandleIs
<1>2. IsHandle(g) /\ TextKept(g.t, t) /\ KillFits(Handle(t), g) /\ InStep(g.t)
  BY <1>1 DEF Keeps
<1>3. Picks(t, g.t)
  BY DEF Picks
<1> QED BY <1>2, <1>3, MadeOf

LEMMA PagerMade ==
  ASSUME NEW t, Sound(t), NEW g, PagerKeeps(Handle(t), g), NEW how
  PROVE  Made(t, Settle(g, how))
<1>1. Handle(t).t = t
  BY HandleIs
<1>2. IsHandle(g) /\ TextKept(g.t, t) /\ InStep(g.t) /\ g.t.kills = Handle(t).t.kills
  BY <1>1 DEF PagerKeeps
<1>3. KillFits(Handle(t), g)
  BY <1>2 DEF KillFits
<1>4. Picks(t, g.t)
  BY <1>1 DEF Picks, PagerKeeps
<1> QED BY <1>2, <1>3, <1>4, MadeOf

LEMMA LooksMade ==
  ASSUME NEW t, Sound(t), InStep(t), NEW g, Looks(Handle(t), g), NEW how
  PROVE  Made(t, Settle(g, how))
<1>1. Handle(t).t = t
  BY HandleIs
<1>2. /\ IsHandle(g) /\ TextKept(g.t, t) /\ g.t.kills = t.kills
      /\ SameModes(g.t, t)
  BY <1>1 DEF Looks, Calm, ModesKept, SameModes
<1>3. InStep(g.t)
  BY <1>2, SameInStep
<1>4. KillFits(Handle(t), g)
  BY <1>1, <1>2 DEF KillFits
<1>5. Picks(t, g.t)
  BY <1>2, NarrowsItself DEF Picks, SameModes
<1> QED BY <1>2, <1>3, <1>4, <1>5, MadeOf

(* Undo and redo make nothing but the line that was                        *)
LEMMA AgainMade ==
  ASSUME NEW t, Sound(t), InStep(t), NEW u, Sound(u), Stacks(t, u), Aside(u, t), NEW how
  PROVE  Made(t, Settle(Again(Handle(t), u), how))
<1> DEFINE h == Handle(t)
           g == Again(h, u)
           r == Settle(g, how)
           v == r.t
<1>1. /\ IsHandle(h) /\ h.t = t /\ h.text = t.text /\ h.pushed = <<>> /\ ~h.wrote
  BY HandleIs
<1>2. IsKept(u) /\ u.text \in Seq(Token) /\ u.cursor \in Offsets(u.text) /\ u.anchor \in Nat
      /\ u.live \in BOOLEAN
  BY DEF Sound, IsWritten, InText, Texts, Offsets
<1> HIDE DEF h
<1>3. IsHandle(g) /\ g.t = u /\ g.text = u.text /\ g.pushed = <<>>
  <2>1. CASE u = t
    BY <1>1, <2>1 DEF Again
  <2>2. CASE u # t
    <3> DEFINE no == FALSE
               k == [h EXCEPT !.t = u, !.text = u.text, !.cursor = u.cursor, !.moved = no,
                              !.anchor = u.anchor, !.live = u.live, !.chose = no]
    <3>1. g = k
      BY <1>1, <2>2 DEF Again
    <3>2. no \in BOOLEAN
      OBVIOUS
    <3> HIDE DEF no, g
    <3>3. /\ DOMAIN k = HandleFields /\ k.t = u /\ k.text = u.text /\ k.cursor = u.cursor
          /\ k.moved = no /\ k.anchor = u.anchor /\ k.live = u.live /\ k.chose = no
          /\ k.wrote = h.wrote /\ k.pushed = h.pushed /\ k.outcome = h.outcome
      BY <1>1 DEF IsHandle, HandleFields
    <3> HIDE DEF k
    <3>4. IsHandle(k)
      BY <1>1, <1>2, <3>2, <3>3 DEF IsHandle
    <3> QED BY <1>1, <3>1, <3>3, <3>4
  <2> QED BY <2>1, <2>2
<1> HIDE DEF g
<1>4. Settled(g, r)
  BY <1>3, SettleIs
<1> HIDE DEF r
<1>5. Sound(v) /\ SameTexts(u, v) /\ Aside(v, u) /\ r.injected = <<>>
  BY <1>3, <1>4 DEF Settled
<1>6. Stacks(t, v)
  BY <1>5, StacksThenSame
<1>7. SameModes(v, t) /\ v.kills = t.kills
  BY <1>5 DEF Aside, SameModes
<1>8. InStep(v)
  BY <1>7, SameInStep
<1>9. Picks(t, v)
  BY <1>7, NarrowsItself DEF Picks, SameModes
<1>10. r.injected \in Seq(Token)
  BY <1>5
<1> QED BY <1>5, <1>6, <1>7, <1>8, <1>9, <1>10 DEF Made, Event, KillsFit, r, g, h

-----------------------------------------------------------------------------
(* Before an action is invoked, and after.                                 *)

LEMMA BesideIs ==
  ASSUME NEW t, Sound(t), NEW u, IsKept(u), u.text = t.text, u.steps = t.steps,
         u.redoable = t.redoable, u.cursor = t.cursor, u.anchor \in Offsets(t.text),
         u.live \in BOOLEAN, u.coalescing = t.coalescing, u.bumped \in BOOLEAN,
         SameModes(u, t), u.kills = t.kills
  PROVE  Beside(t, u)
<1>1. IsWritten(t) /\ InText(u, t.text) /\ u.coalescing \in BOOLEAN
  BY DEF Sound, IsWritten, InText
<1>2. Sound(u) /\ Earlier(u) = Earlier(t) /\ Later(u) = Later(t)
  BY <1>1, StillSound
<1> QED BY <1>2 DEF Beside, SameTexts

LEMMA BesideTwice ==
  ASSUME NEW t, NEW u, NEW v, Beside(t, u), Beside(u, v)
  PROVE  Beside(t, v)
BY DEF Beside, SameTexts, SameModes

LEMMA IdleIs ==
  /\ DOMAIN Idle = {"in_progress", "started_in", "depth", "typable"}
  /\ Idle.in_progress = <<>> /\ <<>> \in Seq(Token)
BY DEF Idle

LEMMA EncodedIs ==
  ASSUME NEW keys \in Seq(Token)
  PROVE  encoded_keys_as_text(keys) \in Seq(Token)
BY AmongIs DEF encoded_keys_as_text

LEMMA HeldBeside ==
  ASSUME NEW t, Sound(t), NEW keys \in Seq(Token), NEW u, u = [t EXCEPT !.held = keys]
  PROVE  Beside(t, u) /\ u.held = keys
<1>1. DOMAIN t = StateFields /\ IsKept(t) /\ IsWritten(t)
  BY DEF Sound, IsKept
<1>2. /\ u.text = t.text /\ u.cursor = t.cursor /\ u.anchor = t.anchor /\ u.live = t.live
      /\ u.bumped = t.bumped /\ u.steps = t.steps /\ u.redoable = t.redoable
      /\ u.coalescing = t.coalescing /\ u.kills = t.kills /\ u.held = keys
      /\ SameModes(u, t)
  BY <1>1 DEF StateFields, SameModes
<1>3. /\ DOMAIN u = StateFields /\ u.count = t.count /\ u.progress = t.progress
      /\ u.record = t.record /\ u.offered = t.offered /\ u.arming = t.arming
      /\ u.last_find = t.last_find /\ u.target = t.target /\ u.span_is_line = t.span_is_line
  BY <1>1 DEF StateFields
<1>4. IsKept(u)
  BY <1>1, <1>2, <1>3 DEF IsKept, SameModes
<1>5. u.anchor \in Offsets(t.text) /\ u.live \in BOOLEAN /\ u.bumped \in BOOLEAN
  BY <1>1, <1>2 DEF IsWritten, InText
<1> QED BY <1>2, <1>4, <1>5, BesideIs

LEMMA CountBeside ==
  ASSUME NEW t, Sound(t), NEW value \in Nat, NEW u, u = [t EXCEPT !.count = value]
  PROVE  Beside(t, u)
<1>1. DOMAIN t = StateFields /\ IsKept(t) /\ IsWritten(t)
  BY DEF Sound, IsKept
<1>2. /\ u.text = t.text /\ u.cursor = t.cursor /\ u.anchor = t.anchor /\ u.live = t.live
      /\ u.bumped = t.bumped /\ u.steps = t.steps /\ u.redoable = t.redoable
      /\ u.coalescing = t.coalescing /\ u.kills = t.kills /\ u.count = value
      /\ SameModes(u, t)
  BY <1>1 DEF StateFields, SameModes
<1>3. /\ DOMAIN u = StateFields /\ u.held = t.held /\ u.progress = t.progress
      /\ u.record = t.record /\ u.offered = t.offered /\ u.arming = t.arming
      /\ u.last_find = t.last_find /\ u.target = t.target /\ u.span_is_line = t.span_is_line
  BY <1>1 DEF StateFields
<1>4. IsKept(u)
  BY <1>1, <1>2, <1>3 DEF IsKept, SameModes
<1>5. u.anchor \in Offsets(t.text) /\ u.live \in BOOLEAN /\ u.bumped \in BOOLEAN
  BY <1>1, <1>2 DEF IsWritten, InText
<1> QED BY <1>2, <1>4, <1>5, BesideIs

(* bumped is cleared, and a selection begun where an operator is           *)
LEMMA StartBeside ==
  ASSUME NEW t, Sound(t), NEW no \in BOOLEAN, NEW live \in BOOLEAN, NEW at \in Offsets(t.text),
         NEW u, u = [t EXCEPT !.bumped = no, !.live = live, !.anchor = at]
  PROVE  Beside(t, u)
<1>1. DOMAIN t = StateFields /\ IsKept(t) /\ IsWritten(t)
  BY DEF Sound, IsKept
<1>2. /\ u.text = t.text /\ u.cursor = t.cursor /\ u.anchor = at /\ u.live = live
      /\ u.bumped = no /\ u.steps = t.steps /\ u.redoable = t.redoable
      /\ u.coalescing = t.coalescing /\ u.kills = t.kills
      /\ SameModes(u, t)
  BY <1>1 DEF StateFields, SameModes
<1>3. Aside(u, t)
  BY <1>1 DEF StateFields, Aside
<1>4. IsKept(u)
  BY <1>1, <1>3, AsideKept
<1> QED BY <1>2, <1>4, BesideIs

LEMMA OnlyBumped ==
  ASSUME NEW t, Sound(t), NEW no \in BOOLEAN, NEW u, u = [t EXCEPT !.bumped = no]
  PROVE  Beside(t, u)
<1>1. DOMAIN t = StateFields /\ IsKept(t) /\ IsWritten(t)
  BY DEF Sound, IsKept
<1>2. /\ u.text = t.text /\ u.cursor = t.cursor /\ u.anchor = t.anchor /\ u.live = t.live
      /\ u.bumped = no /\ u.steps = t.steps /\ u.redoable = t.redoable
      /\ u.coalescing = t.coalescing /\ u.kills = t.kills
      /\ SameModes(u, t)
  BY <1>1 DEF StateFields, SameModes
<1>3. Aside(u, t)
  BY <1>1 DEF StateFields, Aside
<1>4. IsKept(u)
  BY <1>1, <1>3, AsideKept
<1>5. u.anchor \in Offsets(t.text) /\ u.live \in BOOLEAN
  BY <1>1, <1>2 DEF IsWritten, InText
<1> QED BY <1>2, <1>4, <1>5, BesideIs

LEMMA ProgressBeside ==
  ASSUME NEW t, Sound(t), NEW p, DOMAIN p = DOMAIN Idle, p.in_progress \in Seq(Token),
         NEW u, u = [t EXCEPT !.progress = p]
  PROVE  Beside(t, u)
<1>1. DOMAIN t = StateFields /\ IsKept(t) /\ IsWritten(t)
  BY DEF Sound, IsKept
<1>2. /\ u.text = t.text /\ u.cursor = t.cursor /\ u.anchor = t.anchor /\ u.live = t.live
      /\ u.bumped = t.bumped /\ u.steps = t.steps /\ u.redoable = t.redoable
      /\ u.coalescing = t.coalescing /\ u.kills = t.kills /\ u.progress = p
      /\ SameModes(u, t)
  BY <1>1 DEF StateFields, SameModes
<1>3. /\ DOMAIN u = StateFields /\ u.held = t.held /\ u.count = t.count
      /\ u.record = t.record /\ u.offered = t.offered /\ u.arming = t.arming
      /\ u.last_find = t.last_find /\ u.target = t.target /\ u.span_is_line = t.span_is_line
  BY <1>1 DEF StateFields
<1>4. IsKept(u)
  BY <1>1, <1>2, <1>3 DEF IsKept, SameModes
<1>5. u.anchor \in Offsets(t.text) /\ u.live \in BOOLEAN /\ u.bumped \in BOOLEAN
  BY <1>1, <1>2 DEF IsWritten, InText
<1> QED BY <1>2, <1>4, <1>5, BesideIs

LEMMA RecordBeside ==
  ASSUME NEW t, Sound(t), NEW record_, record_.keys \in Seq(Token), NEW u,
         u = [t EXCEPT !.record = record_]
  PROVE  Beside(t, u) /\ u.progress = t.progress
<1>1. DOMAIN t = StateFields /\ IsKept(t) /\ IsWritten(t)
  BY DEF Sound, IsKept
<1>2. /\ u.text = t.text /\ u.cursor = t.cursor /\ u.anchor = t.anchor /\ u.live = t.live
      /\ u.bumped = t.bumped /\ u.steps = t.steps /\ u.redoable = t.redoable
      /\ u.coalescing = t.coalescing /\ u.kills = t.kills /\ u.record = record_
      /\ SameModes(u, t)
  BY <1>1 DEF StateFields, SameModes
<1>3. /\ DOMAIN u = StateFields /\ u.held = t.held /\ u.count = t.count
      /\ u.progress = t.progress /\ u.offered = t.offered /\ u.arming = t.arming
      /\ u.last_find = t.last_find /\ u.target = t.target /\ u.span_is_line = t.span_is_line
  BY <1>1 DEF StateFields
<1>4. IsKept(u)
  BY <1>1, <1>2, <1>3 DEF IsKept, SameModes
<1>5. u.anchor \in Offsets(t.text) /\ u.live \in BOOLEAN /\ u.bumped \in BOOLEAN
  BY <1>1, <1>2 DEF IsWritten, InText
<1> QED BY <1>2, <1>3, <1>4, <1>5, BesideIs

LEMMA BegunBeside ==
  ASSUME NEW t, Sound(t), NEW keys \in Seq(Token)
  PROVE  Beside(t, Begun(t, keys))
<1> DEFINE q == [Idle EXCEPT !.started_in = mode(t), !.depth = Len(t.layers)]
           p == IF t.progress.in_progress # <<>> THEN t.progress ELSE q
           more == p.in_progress \o encoded_keys_as_text(keys)
           typable == p.typable /\ encoded_keys_are_text(keys)
           r == [p EXCEPT !.in_progress = more, !.typable = typable]
<1>1. DOMAIN t.progress = DOMAIN Idle /\ t.progress.in_progress \in Seq(Token)
  BY DEF Sound, IsKept
<1>2. DOMAIN q = DOMAIN Idle /\ q.in_progress = <<>>
  BY IdleIs
<1>3. DOMAIN p = DOMAIN Idle /\ p.in_progress \in Seq(Token)
  <2> HIDE DEF q
  <2> QED BY <1>1, <1>2, IdleIs
<1> HIDE DEF p
<1>4. more \in Seq(Token)
  BY <1>3, EncodedIs
<1> HIDE DEF more, typable
<1>5. DOMAIN r = DOMAIN Idle /\ r.in_progress = more
  BY <1>3, IdleIs
<1>6. Begun(t, keys) = [t EXCEPT !.progress = r]
  BY DEF Begun, p, more, typable
<1> HIDE DEF r
<1> QED BY <1>4, <1>5, <1>6, ProgressBeside

LEMMA RecordedBeside ==
  ASSUME NEW t, Sound(t)
  PROVE  Beside(t, Recorded(t))
<1> DEFINE p == t.progress
           changed == [present |-> TRUE, keys |-> p.in_progress, mode |-> p.started_in,
                       mode_changed |-> mode(t) # p.started_in, typable |-> p.typable]
           n == [t EXCEPT !.record = changed, !.progress = Idle]
           m == [t EXCEPT !.progress = Idle]
           k == [t EXCEPT !.record = changed]
<1>1. Recorded(t) = n \/ Recorded(t) = m \/ Recorded(t) = t
  BY DEF Recorded
<1>2. p.in_progress \in Seq(Token) /\ DOMAIN t = StateFields
  BY DEF Sound, IsKept
<1>3. changed.keys \in Seq(Token)
  BY <1>2
<1>4. DOMAIN Idle = DOMAIN Idle /\ Idle.in_progress \in Seq(Token)
  BY IdleIs
<1>5. Beside(t, m)
  BY <1>4, ProgressBeside
<1>6. Beside(t, n)
  <2> HIDE DEF changed
  <2>1. Beside(t, k)
    BY <1>3, RecordBeside
  <2>2. n = [k EXCEPT !.progress = Idle]
    BY <1>2 DEF StateFields
  <2>3. Sound(k)
    BY <2>1 DEF Beside
  <2> HIDE DEF k, n
  <2>4. Beside(k, n)
    BY <1>4, <2>2, <2>3, ProgressBeside
  <2> QED BY <2>1, <2>4, BesideTwice
<1>7. Beside(t, t)
  BY DEF Beside, SameTexts, SameModes
<1> HIDE DEF n, m
<1> QED BY <1>1, <1>5, <1>6, <1>7

-----------------------------------------------------------------------------
(* What is bound to keys, invoked.                                         *)

(* An action that keys are bound to                                        *)
Bound_(t, keys, name, how) ==
  /\ name = resolve_keys(t.layers, keys) /\ name \notin {Held, Nothing}
  /\ how.keys = encoded_keys_as_text(keys) /\ IsHow(how)

LEMMA DigitalIs ==
  ASSUME NEW keys, NEW name, Digitally(keys, name), name \in DigitNames, NEW how,
         how.keys = encoded_keys_as_text(keys)
  PROVE  Digital(how)
<1>1. PICK d \in 0 .. 9 : keys = <<Digits[d + 1]>>
  BY DEF Digitally
<1>2. Digits[d + 1] = last_key_byte(how)
  BY <1>1, DigitHow
<1> QED BY <1>2 DEF Digital

LEMMA AtModeMade ==
  ASSUME NEW t, Sound(t), AtMode(t), CompleterAnswers, NEW keys, NEW name, NEW how,
         Bound_(t, keys, name, how)
  PROVE  Made(t, invoke(t, name, how))
<1>1. Plain(t.layers) /\ ~t.pager.open /\ InStep(t)
  BY DEF AtMode, InStep
<1>2. AtModeNames(t.layers, name) /\ Digitally(keys, name)
  <2>1. \/ resolve_keys(t.layers, keys) \in {Held, Nothing}
        \/ AtModeNames(t.layers, resolve_keys(t.layers, keys))
             /\ Digitally(keys, resolve_keys(t.layers, keys))
    BY <1>1, PlainBinds
  <2> QED BY <2>1 DEF Bound_
<1>3. IsHow(how) /\ how.keys = encoded_keys_as_text(keys)
  BY DEF Bound_
<1> DEFINE h == Handle(t)
<1>4. IsHandle(h) /\ h.t = t
  BY HandleIs
<1>5. invoke(t, name, how) = Settle(Act(name, h, how), how)
  BY DEF invoke
<1>6. CASE name \notin AgainNames
  <2>1. name \in DigitNames => Digital(how)
    BY <1>2, <1>3, DigitalIs
  <2>2. AtMode(h.t) /\ AtModeNames(h.t.layers, name)
    BY <1>2, <1>4
  <2> DEFINE g == Act(name, h, how)
  <2>3. Keeps(h, g)
    <3> HIDE DEF h
    <3> QED BY <1>3, <1>4, <1>6, <2>1, <2>2, AtModeActs
  <2> HIDE DEF g
  <2>4. Made(t, Settle(g, how))
    BY <1>1, <2>3, KeepsMade
  <2> QED BY <1>5, <2>4 DEF g
<1>7. CASE name \in AgainNames
  <2>1. name = "undo" \/ name = "redo"
    BY <1>7 DEF AgainNames
  <2>2. CASE name = "undo"
    <3> DEFINE u == undo_one(t)
    <3>1. Act(name, h, how) = Again(h, u)
      <4>1. Act("undo", h, how) = Again(h, undo_one(h.t))
        BY PlainActsAre
      <4> QED BY <1>4, <2>2, <4>1
    <3>2. Sound(u) /\ Stacks(t, u) /\ Aside(u, t)
      BY UndoStacks
    <3> HIDE DEF u
    <3>3. Made(t, Settle(Again(h, u), how))
      BY <1>1, <3>2, AgainMade
    <3> QED BY <1>5, <3>1, <3>3
  <2>3. CASE name = "redo"
    <3> DEFINE u == redo_one(t)
    <3>1. Act(name, h, how) = Again(h, u)
      <4>1. Act("redo", h, how) = Again(h, redo_one(h.t))
        BY PlainActsAre
      <4> QED BY <1>4, <2>3, <4>1
    <3>2. Sound(u) /\ Stacks(t, u) /\ Aside(u, t)
      BY RedoStacks
    <3> HIDE DEF u
    <3>3. Made(t, Settle(Again(h, u), how))
      BY <1>1, <3>2, AgainMade
    <3> QED BY <1>5, <3>1, <3>3
  <2> QED BY <2>1, <2>2, <2>3
<1> QED BY <1>6, <1>7

LEMMA InPagerMade ==
  ASSUME NEW t, Sound(t), InPager(t), NEW keys, NEW name, NEW how, Bound_(t, keys, name, how)
  PROVE  Made(t, invoke(t, name, how))
<1> DEFINE h == Handle(t)
           l == t.layers
           g == Act(name, h, how)
<1>1. On(l, "pager")
  BY DEF InPager
<1>2. l \in Seq(Layers) /\ Len(l) >= 1 /\ Last(l) = "pager"
  BY <1>1, OnHas
<1>3. name \in PagerNames
  <2>1. Last(l) = "pager" => resolve_keys(l, keys) \in {Held, Nothing} \cup PagerNames
    BY <1>2, OnBinds
  <2> QED BY <1>2, <2>1 DEF Bound_
<1>4. IsHandle(h) /\ h.t = t /\ InPager(h.t) /\ IsHow(how)
  BY HandleIs DEF Bound_
<1>5. invoke(t, name, how) = Settle(g, how)
  BY DEF invoke
<1>6. PagerKeeps(h, g)
  <2> HIDE DEF h
  <2> QED BY <1>3, <1>4, PagerActs
<1> HIDE DEF g
<1>7. Made(t, Settle(g, how))
  BY <1>6, PagerMade
<1> QED BY <1>5, <1>7

LEMMA AwaitingMade ==
  ASSUME NEW t, Sound(t), Awaiting(t), NEW keys, NEW name, NEW how, Bound_(t, keys, name, how)
  PROVE  Made(t, invoke(t, name, how))
<1> DEFINE h == Handle(t)
           l == t.layers
           g == Act(name, h, how)
           target == "vi_find_char_target"
           with == "vi_replace_char_with"
<1>1. ~t.pager.open
  BY DEF Awaiting
<1>2. name = target \/ name = with
  <2>1. CASE On(l, "vi_find_char")
    <3>1. l \in Seq(Layers) /\ Len(l) >= 1 /\ Last(l) = "vi_find_char"
      BY <2>1, OnHas
    <3>2. Last(l) = "vi_find_char" => resolve_keys(l, keys) \in {Held, Nothing, "vi_find_char_target"}
      BY <3>1, OnBinds
    <3> QED BY <3>1, <3>2 DEF Bound_
  <2>2. CASE On(l, "vi_replace_char")
    <3>1. l \in Seq(Layers) /\ Len(l) >= 1 /\ Last(l) = "vi_replace_char"
      BY <2>2, OnHas
    <3>2. Last(l) = "vi_replace_char" => resolve_keys(l, keys) \in {Held, Nothing, "vi_replace_char_with"}
      BY <3>1, OnBinds
    <3> QED BY <3>1, <3>2 DEF Bound_
  <2> QED BY <2>1, <2>2 DEF Awaiting
<1>4. IsHandle(h) /\ h.t = t /\ Awaiting(h.t) /\ IsHow(how)
  BY HandleIs DEF Bound_
<1>5. invoke(t, name, how) = Settle(g, how)
  BY DEF invoke
<1>6. Keeps(h, g)
  <2> HIDE DEF h
  <2>1. Keeps(h, Act(target, h, how)) /\ Keeps(h, Act(with, h, how))
    BY <1>4, AwaitingActs
  <2> HIDE DEF target, with
  <2> QED BY <1>2, <2>1
<1> HIDE DEF g
<1>7. Made(t, Settle(g, how))
  BY <1>1, <1>6, KeepsMade
<1> QED BY <1>5, <1>7

-----------------------------------------------------------------------------
(* The motion, or the object, of an operator                               *)
Operated(t, r) ==
  /\ Sound(r.t) /\ SameTexts(t, r.t) /\ r.t.kills = t.kills /\ r.injected \in Seq(Token)
  /\ Operating(r.t) \/ AtMode(r.t) \/ (Finding(r.t) /\ Len(r.t.layers) > Len(t.layers))

LEMMA OperatesMade ==
  ASSUME NEW t, Sound(t), NEW g, Operates(Handle(t), g), NEW how
  PROVE  Operated(t, Settle(g, how))
<1> DEFINE r == Settle(g, how)
           u == r.t
<1>1. Handle(t).t = t /\ Handle(t).text = t.text
  BY HandleIs
<1>2. /\ IsHandle(g) /\ TextKept(g.t, t) /\ g.text = t.text /\ g.t.kills = t.kills
      /\ Operating(g.t) \/ AtMode(g.t) \/ (Finding(g.t) /\ Len(g.t.layers) > Len(t.layers))
  BY <1>1 DEF Operates
<1>3. Sound(g.t) /\ SameTexts(t, g.t) /\ g.t.text = t.text
  BY <1>2, ActedSound DEF IsHandle, TextKept
<1>4. Settled(g, r)
  BY <1>2, <1>3, SettleIs
<1> HIDE DEF r
<1>5. Sound(u) /\ SameTexts(g.t, u) /\ Aside(u, g.t) /\ r.injected = g.pushed
  BY <1>2, <1>3, <1>4 DEF Settled
<1>6. SameTexts(t, u) /\ r.injected \in Seq(Token)
  BY <1>2, <1>3, <1>5 DEF SameTexts, IsHandle
<1>7. SameModes(u, g.t) /\ u.kills = g.t.kills /\ u.layers = g.t.layers
  BY <1>5 DEF Aside, SameModes
<1>8. (Operating(u) <=> Operating(g.t)) /\ (AtMode(u) <=> AtMode(g.t)) /\ (Finding(u) <=> Finding(g.t))
  BY <1>7, SameInStep
<1> QED BY <1>2, <1>5, <1>6, <1>7, <1>8 DEF Operated, r

LEMMA OperatingMade ==
  ASSUME NEW t, Sound(t), Operating(t) \/ Finding(t), NEW keys, NEW name, NEW how,
         Bound_(t, keys, name, how)
  PROVE  Operated(t, invoke(t, name, how))
<1> DEFINE h == Handle(t)
           l == t.layers
           g == Act(name, h, how)
<1>1. invoke(t, name, how) = Settle(g, how)
  BY DEF invoke
<1>2. IsHandle(h) /\ h.t = t /\ IsHow(how) /\ how.keys = encoded_keys_as_text(keys)
  BY HandleIs DEF Bound_
<1>3. CASE Operating(t)
  <2>1. On(l, "vi_operator_pending")
    BY <1>3 DEF Operating
  <2>2. l \in Seq(Layers) /\ Len(l) >= 1 /\ Last(l) = "vi_operator_pending"
    BY <2>1, OnHas
  <2>3. name \in OperatorNames /\ Digitally(keys, name)
    <3>1. Last(l) = "vi_operator_pending" =>
            \/ resolve_keys(l, keys) \in {Held, Nothing}
            \/ resolve_keys(l, keys) \in OperatorNames /\ Digitally(keys, resolve_keys(l, keys))
      BY <2>2, OnBinds
    <3> QED BY <2>2, <3>1 DEF Bound_
  <2>4. name \in DigitNames => Digital(how)
    BY <1>2, <2>3, DigitalIs
  <2>5. Operates(h, g)
    <3>1. Operating(h.t)
      BY <1>2, <1>3
    <3> HIDE DEF h
    <3> QED BY <1>2, <2>3, <2>4, <3>1, OperatorActs
  <2> HIDE DEF g
  <2>6. Operated(t, Settle(g, how))
    BY <2>5, OperatesMade
  <2> QED BY <1>1, <2>6
<1>4. CASE Finding(t)
  <2>1. l \in Seq(Layers) /\ Len(l) > 1 /\ Last(l) = "vi_find_char" /\ Len(l) \in Nat
    BY <1>4 DEF Finding
  <2>2. name = "vi_find_char_target"
    <3>1. Len(l) >= 1
      BY <2>1
    <3>2. Last(l) = "vi_find_char" => resolve_keys(l, keys) \in {Held, Nothing, "vi_find_char_target"}
      BY <2>1, <3>1, OnBinds
    <3> QED BY <2>1, <3>2 DEF Bound_
  <2>3. Operates(h, g)
    <3> DEFINE target == "vi_find_char_target"
    <3>1. Finding(h.t)
      BY <1>2, <1>4
    <3> HIDE DEF h
    <3>2. Operates(h, Act(target, h, how))
      BY <1>2, <3>1, FindingActs
    <3>3. name = target
      BY <2>2
    <3> HIDE DEF target
    <3> QED BY <3>2, <3>3
  <2> HIDE DEF g
  <2>4. Operated(t, Settle(g, how))
    BY <2>3, OperatesMade
  <2> QED BY <1>1, <2>4
<1> QED BY <1>3, <1>4

(* The verb, once there is something for it to take                        *)
LEMMA VerbMade ==
  ASSUME NEW t, Sound(t), AtMode(t), NEW name \in Verbs, NEW how
  PROVE  Made(t, invoke(t, name, how))
<1> DEFINE h == Handle(t)
           g == Act(name, h, how)
<1>1. invoke(t, name, how) = Settle(g, how)
  BY DEF invoke
<1>2. IsHandle(h) /\ h.t = t /\ AtMode(h.t) /\ ~t.pager.open
  BY HandleIs DEF AtMode
<1>3. Keeps(h, g)
  <2> HIDE DEF h
  <2>1. CASE name = "vi_delete"
    <3>1. g = vi_delete(h)
      BY <2>1, ViActsAre
    <3> HIDE DEF g
    <3>2. Does(h, g)
      BY <1>2, <3>1, DeleteDoes
    <3> QED BY <1>2, <3>2, DoesKeeps
  <2>2. CASE name = "vi_yank"
    <3>1. g = vi_yank(h)
      BY <2>2, ViActsAre
    <3> HIDE DEF g
    <3>2. Does(h, g)
      BY <1>2, <3>1, DeleteDoes
    <3> QED BY <1>2, <3>2, DoesKeeps
  <2>3. CASE name = "vi_change"
    <3> DEFINE mode_ == "vi_insert"
               none == ""
               one == <<mode_>>
    <3>1. g = vi_change(h)
      BY <2>3, ViActsAre
    <3>2. Switched(h, vi_change(h), mode_)
      BY <1>2, ChangeSwitches
    <3>3. mode_ \in Modes
      BY DEF Modes
    <3> HIDE DEF g, mode_
    <3>4. /\ IsHandle(g) /\ TextKept(g.t, h.t) /\ KillFits(h, g)
          /\ g.t.layers = <<mode_>> /\ g.t.operator = "" /\ g.t.pager = h.t.pager
      BY <3>1, <3>2 DEF Switched
    <3>5. Plain(<<mode_>>)
      BY <3>3, PlainModes
    <3>6. AtMode(g.t)
      BY <1>2, <3>4, <3>5 DEF AtMode
    <3> QED BY <3>4, <3>6 DEF Keeps, InStep
  <2> QED BY <2>1, <2>2, <2>3 DEF Verbs
<1> HIDE DEF g, h
<1>4. Made(t, Settle(g, how))
  BY <1>2, <1>3, KeepsMade DEF h
<1> QED BY <1>1, <1>4

-----------------------------------------------------------------------------
(* A key, from what it is bound to to the line there is then.              *)

IsRan(r) == DOMAIN r = {"t", "injected", "effects"}

LEMMA InvokeRan ==
  ASSUME NEW t, NEW name, NEW how
  PROVE  IsRan(invoke(t, name, how))
<1> DEFINE h == Act(name, Handle(t), how)
<1>1. invoke(t, name, how) = SettleAs(h, how, diff_of(h.t.text, h.text))
  BY DEF invoke, Settle
<1> HIDE DEF h
<1> QED BY <1>1 DEF SettleAs, IsRan

LEMMA CalmThenEvent ==
  ASSUME NEW t, ~t.pager.open, NEW u, SameTexts(t, u), u.kills = t.kills, NEW v, Event(u, v)
  PROVE  Event(t, v)
<1>1. Stacks(t, v)
  BY SameThenStacks DEF Event
<1>2. KillsFit(t, v)
  BY DEF Event, KillsFit, SameTexts
<1>3. Picks(t, v)
  BY DEF Picks
<1> QED BY <1>1, <1>2, <1>3 DEF Event

(* Both layer and operator are gone when the verb is invoked               *)
LEMMA VerbTaken ==
  ASSUME NEW t, Sound(t), Operating(t)
  PROVE  LET p == pop([t EXCEPT !.operator = ""]) IN
         Sound(p) /\ SameTexts(t, p) /\ p.kills = t.kills /\ AtMode(p)
<1> DEFINE none == ""
           k == [t EXCEPT !.operator = none]
           front == Front(t.layers)
           empty == <<>>
           p == [k EXCEPT !.layers = front, !.held = empty]
<1>1. DOMAIN t = StateFields /\ IsKept(t) /\ IsWritten(t)
  BY DEF Sound, IsKept
<1>2. /\ t.layers \in Seq(Layers) /\ Len(t.layers) \in Nat /\ Len(t.layers) > 1
      /\ Plain(Front(t.layers)) /\ t.layers # <<>>
  BY OnHas DEF Operating
<1>3. k.layers = t.layers
  BY <1>1 DEF StateFields
<1>4. pop(k) = p
  <2>1. ~(Len(k.layers) <= 1)
    BY <1>2, <1>3
  <2> HIDE DEF k
  <2> QED BY <1>3, <2>1 DEF pop
<1>5. front \in Seq(Layers) /\ Plain(front) /\ empty \in Seq(Token) /\ none = ""
  BY <1>2, PlainHas
<1> HIDE DEF none, front, empty
<1>6. /\ p.text = t.text /\ p.cursor = t.cursor /\ p.anchor = t.anchor /\ p.live = t.live
      /\ p.bumped = t.bumped /\ p.steps = t.steps /\ p.redoable = t.redoable
      /\ p.coalescing = t.coalescing /\ p.kills = t.kills /\ p.layers = front
      /\ p.operator = none /\ p.pager = t.pager /\ p.held = empty
      /\ DOMAIN p = StateFields /\ p.count = t.count /\ p.progress = t.progress
      /\ p.record = t.record /\ p.offered = t.offered /\ p.arming = t.arming
      /\ p.last_find = t.last_find /\ p.target = t.target /\ p.span_is_line = t.span_is_line
  BY <1>1 DEF StateFields
<1> HIDE DEF p
<1>7. IsKept(p)
  BY <1>1, <1>5, <1>6 DEF IsKept
<1>8. TextKept(p, t)
  BY <1>6 DEF TextKept
<1>9. Sound(p) /\ SameTexts(t, p)
  BY <1>7, <1>8, ActedSound
<1>10. AtMode(p)
  BY <1>5, <1>6 DEF AtMode, Operating
<1>11. pop([t EXCEPT !.operator = ""]) = p
  BY <1>4 DEF none
<1> QED BY <1>6, <1>9, <1>10, <1>11

(* What was begun beside the line                                          *)
LEMMA BeginsBeside ==
  ASSUME NEW t, Sound(t), NEW keys \in Seq(Token), NEW asked \in BOOLEAN, NEW u,
         u = [Begun(t, keys) EXCEPT !.bumped = FALSE, !.live = t.live \/ asked,
                                    !.anchor = IF asked THEN t.cursor ELSE t.anchor]
  PROVE  Beside(t, u)
<1> DEFINE b == Begun(t, keys)
           no == FALSE
           live == t.live \/ asked
           at == IF asked THEN t.cursor ELSE t.anchor
<1>1. Beside(t, b)
  BY BegunBeside
<1>2. t.live \in BOOLEAN /\ t.cursor \in Offsets(t.text) /\ t.anchor \in Offsets(t.text)
  BY DEF Sound, IsWritten, InText
<1>3. no \in BOOLEAN /\ live \in BOOLEAN /\ at \in Offsets(t.text)
  BY <1>2
<1> HIDE DEF b, no, live, at
<1>4. Sound(b) /\ b.text = t.text
  BY <1>1 DEF Beside, SameTexts
<1>5. u = [b EXCEPT !.bumped = no, !.live = live, !.anchor = at]
  BY DEF b, no, live, at
<1>6. Beside(b, u)
  BY <1>3, <1>4, <1>5, StartBeside
<1> QED BY <1>1, <1>6, BesideTwice

LEMMA RunsVerb ==
  ASSUME NEW t, ~t.pager.open, NEW r, Operated(t, r), Operating(r.t)
  PROVE  IsRan(run_verb(r)) /\ Made(t, run_verb(r))
<1> DEFINE u == r.t
           none == ""
           empty == <<>>
           p == pop([u EXCEPT !.operator = none])
           zero == 0
           q == [p EXCEPT !.count = zero]
           verb == u.operator
           how == [keys |-> encoded_keys_as_text(empty), count |-> p.count]
           v == invoke(q, verb, how)
           w == [v EXCEPT !.effects = r.effects \o v.effects]
<1>1. run_verb(r) = w
  BY DEF run_verb, invoke_action, Effected
<1>2. Sound(u) /\ SameTexts(t, u) /\ u.kills = t.kills /\ verb \in Verbs
  BY DEF Operated, Operating
<1>3. Sound(p) /\ SameTexts(u, p) /\ p.kills = u.kills /\ AtMode(p)
  BY <1>2, VerbTaken
<1>4. zero \in Nat
  OBVIOUS
<1> HIDE DEF p, none, empty, zero
<1>5. Beside(p, q)
  BY <1>3, <1>4, CountBeside
<1> HIDE DEF q
<1>6. Sound(q) /\ SameTexts(p, q) /\ q.kills = p.kills /\ AtMode(q)
  BY <1>3, <1>5, SameInStep DEF Beside
<1> HIDE DEF how, verb, u
<1>7. Made(q, v) /\ IsRan(v)
  BY <1>2, <1>6, VerbMade, InvokeRan
<1> HIDE DEF v
<1>8. w.t = v.t /\ w.injected = v.injected /\ IsRan(w)
  BY <1>7 DEF IsRan
<1> HIDE DEF w
<1>9. SameTexts(t, q) /\ q.kills = t.kills
  BY <1>2, <1>3, <1>6 DEF SameTexts
<1>10. Event(t, v.t)
  BY <1>7, <1>9, CalmThenEvent DEF Made
<1> QED BY <1>1, <1>7, <1>8, <1>10 DEF Made

LEMMA Closes ==
  ASSUME NEW t, Sound(t), Operating(t) \/ Finding(t), NEW r, Operated(t, r), IsRan(r),
         NEW asked \in BOOLEAN, asked
  PROVE  IsRan(Closing(r, asked, Len(t.layers))) /\ Made(t, Closing(r, asked, Len(t.layers)))
<1> DEFINE n == Len(t.layers)
           u == r.t
<1>1. ~t.pager.open
  BY DEF Operating, Finding
<1>2. CASE still_asking(u, n)
  <2>1. Closing(r, asked, n) = r
    BY <1>2 DEF Closing
  <2>2. /\ Sound(u) /\ SameTexts(t, u) /\ u.kills = t.kills /\ r.injected \in Seq(Token)
        /\ InStep(u)
    BY DEF Operated, InStep
  <2>3. Stacks(t, u)
    BY <2>2, SameStacks
  <2>4. Event(t, u)
    BY <1>1, <2>2, <2>3 DEF Event, KillsFit, Picks
  <2> QED BY <2>1, <2>2, <2>4 DEF Made
<1>3. CASE ~still_asking(u, n)
  <2>1. Closing(r, asked, n) = run_verb(r)
    BY <1>3 DEF Closing
  <2>2. u.operator # "" /\ ~(Len(u.layers) > n)
    BY <1>3 DEF still_asking
  <2>3. Operating(u)
    BY <2>2 DEF Operated, AtMode
  <2>4. IsRan(run_verb(r)) /\ Made(t, run_verb(r))
    BY <1>1, <2>3, RunsVerb
  <2> QED BY <2>1, <2>4
<1> QED BY <1>2, <1>3

LEMMA Records ==
  ASSUME NEW t, NEW r, IsRan(r), Made(t, r)
  PROVE  IsRan(Kept(r)) /\ Made(t, Kept(r))
<1> DEFINE u == Recorded(r.t)
           v == [r EXCEPT !.t = u]
<1>1. Kept(r) = v
  BY DEF Kept
<1>2. Beside(r.t, u)
  BY RecordedBeside DEF Made, Event
<1> HIDE DEF u
<1>3. v.t = u /\ v.injected = r.injected /\ IsRan(v)
  BY DEF IsRan
<1>4. Event(t, u)
  BY <1>2, EventThenBeside DEF Made
<1> QED BY <1>1, <1>3, <1>4 DEF Made

LEMMA MadeBeside ==
  ASSUME NEW t, NEW u, Beside(t, u), NEW r, Made(u, r)
  PROVE  Made(t, r)
BY BesideThenEvent DEF Made

(* run_binding: the line there is then is as it should be                  *)
LEMMA BindingRuns ==
  ASSUME NEW t, Sound(t), InStep(t), CompleterAnswers, NEW keys \in Seq(Token),
         NEW name, name = resolve_keys(t.layers, keys), name \notin {Held, Nothing}
  PROVE  IsRan(run_binding(t, name, keys)) /\ Made(t, run_binding(t, name, keys))
<1> DEFINE asked == t.operator # ""
           b == [Begun(t, keys) EXCEPT !.bumped = FALSE, !.live = t.live \/ asked,
                                       !.anchor = IF asked THEN t.cursor ELSE t.anchor]
           zero == 0
           q == [b EXCEPT !.count = zero]
           how == [keys |-> encoded_keys_as_text(keys), count |-> b.count]
           r == invoke(q, name, how)
           n == Len(t.layers)
<1>1. run_binding(t, name, keys) = Kept(Closing(r, asked, n))
  BY DEF run_binding, invoke_action
<1>2. Beside(t, b)
  <2>1. asked \in BOOLEAN
    OBVIOUS
  <2> HIDE DEF asked
  <2> QED BY <2>1, BeginsBeside
<1> HIDE DEF b
<1>3. zero \in Nat
  OBVIOUS
<1> HIDE DEF zero
<1>4. Sound(b) /\ b.count \in Nat
  BY <1>2 DEF Beside, Sound, IsKept
<1>5. Beside(b, q)
  BY <1>3, <1>4, CountBeside
<1>6. Beside(t, q)
  BY <1>2, <1>5, BesideTwice
<1>7. how.keys = encoded_keys_as_text(keys) /\ IsHow(how)
  BY <1>4, EncodedIs DEF IsHow
<1> HIDE DEF q, how
<1>8. /\ Sound(q) /\ SameModes(q, t) /\ q.layers = t.layers /\ q.operator = t.operator
      /\ SameTexts(t, q) /\ q.kills = t.kills /\ q.pager = t.pager
  BY <1>6 DEF Beside, SameModes
<1>9. Bound_(q, keys, name, how)
  BY <1>7, <1>8 DEF Bound_
<1>10. IsRan(r)
  BY InvokeRan
<1> HIDE DEF r
<1>11. IsRan(Closing(r, asked, n)) /\ Made(t, Closing(r, asked, n))
  <2>1. CASE ~asked
    <3>1. Closing(r, asked, n) = r
      BY <2>1 DEF Closing
    <3>2. AtMode(q) \/ InPager(q) \/ Awaiting(q)
      <4>1. t.operator \notin Verbs
        BY <2>1 DEF Verbs
      <4>2. AtMode(t) \/ InPager(t) \/ Awaiting(t)
        BY <4>1 DEF InStep, Operating, Finding
      <4> QED BY <1>8, <4>2, SameInStep
    <3>3. Made(q, r)
      BY <1>8, <1>9, <3>2, AtModeMade, InPagerMade, AwaitingMade DEF r
    <3> QED BY <1>6, <1>10, <3>1, <3>3, MadeBeside
  <2>2. CASE asked
    <3>1. Operating(t) \/ Finding(t)
      BY <2>2 DEF InStep, AtMode, InPager, Awaiting
    <3>2. Operating(q) \/ Finding(q)
      BY <1>8, <3>1, SameInStep
    <3>3. Operated(q, r)
      BY <1>8, <1>9, <3>2, OperatingMade DEF r
    <3>4. asked \in BOOLEAN /\ n = Len(q.layers)
      BY <1>8
    <3> HIDE DEF asked, n
    <3>5. IsRan(Closing(r, asked, n)) /\ Made(q, Closing(r, asked, n))
      BY <1>8, <1>10, <2>2, <3>2, <3>3, <3>4, Closes
    <3> QED BY <1>6, <3>5, MadeBeside
  <2> QED BY <2>1, <2>2
<1> DEFINE c == Closing(r, asked, n)
<1> HIDE DEF c
<1>12. IsRan(c) /\ Made(t, c)
  BY <1>11 DEF c
<1>13. IsRan(Kept(c)) /\ Made(t, Kept(c))
  BY <1>12, Records
<1> QED BY <1>1, <1>13 DEF c

LEMMA KeyHandled ==
  ASSUME NEW t, Sound(t), InStep(t), CompleterAnswers, NEW key \in Token
  PROVE  Made(t, handle_key(t, key))
<1> DEFINE keys == Append(t.held, key)
           empty == <<>>
           no == FALSE
           what == resolve_keys(t.layers, keys)
           k == [t EXCEPT !.held = keys]
           e == [t EXCEPT !.held = empty]
           Quiet(u) == [t |-> [u EXCEPT !.bumped = no], injected |-> empty, effects |-> empty]
<1>1. handle_key(t, key) = CASE what = Held    -> Quiet(k)
                             [] what = Nothing -> Quiet(e)
                             [] OTHER          -> run_binding(e, what, keys)
  BY DEF handle_key
<1>2. t.held \in Seq(Token) /\ keys \in Seq(Token) /\ empty \in Seq(Token) /\ no \in BOOLEAN
  <2>1. t.held \in Seq(Token)
    BY DEF Sound, IsKept
  <2>2. keys \in Seq(Token)
    BY <2>1
  <2> QED BY <2>1, <2>2
<1> HIDE DEF keys, empty, no
<1>3. Beside(t, k) /\ Beside(t, e)
  BY <1>2, HeldBeside
<1> HIDE DEF k, e
<1>4. ASSUME NEW u, Beside(t, u) PROVE Made(t, Quiet(u))
  <2> DEFINE v == [u EXCEPT !.bumped = no]
  <2>1. Beside(u, v)
    BY <1>2, <1>4, OnlyBumped DEF Beside
  <2>2. Beside(t, v)
    BY <1>4, <2>1, BesideTwice
  <2>3. Event(t, v)
    BY <2>2, BesideEvent
  <2>4. Quiet(u).t = v /\ Quiet(u).injected = empty
    OBVIOUS
  <2> HIDE DEF v, Quiet
  <2> QED BY <1>2, <2>3, <2>4 DEF Made
<1>5. CASE what = Held
  BY <1>1, <1>3, <1>4, <1>5
<1>6. CASE what = Nothing
  <2>1. handle_key(t, key) = Quiet(e)
    BY <1>1, <1>6 DEF Held, Nothing
  <2> QED BY <1>3, <1>4, <2>1
<1>7. CASE what \notin {Held, Nothing}
  <2>1. handle_key(t, key) = run_binding(e, what, keys)
    BY <1>1, <1>7
  <2>2. Sound(e) /\ InStep(e) /\ e.layers = t.layers
    BY <1>3, SameInStep DEF Beside, SameModes
  <2>3. what = resolve_keys(e.layers, keys)
    BY <2>2
  <2> HIDE DEF what
  <2>4. Made(e, run_binding(e, what, keys))
    BY <1>2, <1>7, <2>2, <2>3, BindingRuns
  <2> QED BY <1>3, <2>1, <2>4, MadeBeside
<1> QED BY <1>5, <1>6, <1>7

-----------------------------------------------------------------------------
(* Everything that happens to a line.                                      *)

(* A suggestion is a line                                                  *)
SuggesterAnswers == \A text \in Seq(Token) : Suggestion(text) \in Seq(Token)

(* What is begun is as it should be                                        *)
LEMMA FreshSound ==
  ASSUME NEW w, w.mode \in Modes, w.text \in Seq(Token), w.cursor \in Offsets(w.text)
  PROVE  /\ Sound(Fresh(w)) /\ InStep(Fresh(w))
         /\ Earlier(Fresh(w)) = <<>> /\ Later(Fresh(w)) = <<>>
<1> DEFINE t == Fresh(w)
           empty == <<>>
           no == FALSE
<1>1. /\ DOMAIN t = StateFields
      /\ t.text = w.text /\ t.cursor = w.cursor /\ t.anchor = 0 /\ t.live = no
      /\ t.layers = <<w.mode>> /\ t.held = empty /\ t.operator = "" /\ t.count = 0
      /\ t.steps = empty /\ t.redoable = empty /\ t.coalescing = no /\ t.bumped = no
      /\ t.kills = NoKill /\ t.progress = Idle /\ t.record = NoRecord /\ t.pager = Closed
      /\ t.offered = None /\ t.arming = "" /\ t.last_find = "" /\ t.target = empty
      /\ t.span_is_line = no
  BY DEF Fresh, StateFields
<1>2. no \in BOOLEAN /\ empty \in Seq(Token)
  OBVIOUS
<1>3. Plain(<<w.mode>>) /\ w.mode \in Layers
  BY PlainModes
<1>4. <<w.mode>> \in Seq(Layers)
  BY <1>3, OneIs, Zenon
<1>5. IsKill(NoKill) /\ NoRecord.keys \in Seq(Token)
  <2>1. NoKill.text = empty /\ NoKill.linewise = no /\ NoRecord.keys = empty
    BY DEF NoKill, NoRecord
  <2> HIDE DEF empty, no
  <2> QED BY <1>2, <2>1 DEF IsKill
<1>6. DOMAIN Idle = DOMAIN Idle /\ Idle.in_progress \in Seq(Token)
  BY IdleIs
<1>7. IsPager(Closed) /\ ~Closed.open
  BY ClosedIs
<1>8. None \in Seq(Token)
  <2> DEFINE x == "none"
  <2>1. x \in Token
    BY DEF Token
  <2>2. None = <<x>>
    BY DEF None
  <2> HIDE DEF x
  <2> QED BY <2>1, <2>2, OneIs, Zenon
<1> HIDE DEF t, no, empty
<1>9. IsKept(t)
  <2>1. t.layers \in Seq(Layers) /\ t.held \in Seq(Token)
    BY <1>1, <1>2, <1>4
  <2>2. t.operator \in Verbs \cup {""}
    BY <1>1
  <2>3. t.count \in Nat
    <3>1. t.count = 0
      BY <1>1, Zenon
    <3> QED BY <3>1
  <2>4. /\ IsKill(t.kills) /\ t.record.keys \in Seq(Token)
        /\ DOMAIN t.progress = DOMAIN Idle /\ t.progress.in_progress \in Seq(Token)
    BY <1>1, <1>5, <1>6
  <2>5. IsPager(t.pager) /\ t.offered \in Seq(Token) /\ t.target \in Seq(Token)
    BY <1>1, <1>2, <1>7, <1>8
  <2>6. t.arming \in Finds \cup {""} /\ t.last_find \in Finds \cup {""}
    BY <1>1
  <2>7. t.span_is_line \in BOOLEAN
    BY <1>1, <1>2
  <2>8. DOMAIN t = StateFields
    BY <1>1
  <2> QED BY <2>1, <2>2, <2>3, <2>4, <2>5, <2>6, <2>7, <2>8 DEF IsKept
<1>10. AtMode(t)
  BY <1>1, <1>3, <1>7 DEF AtMode
<1>11. Past(t, <<>>) /\ Future(t, <<>>)
  BY <1>1, ChainEmpty DEF Past, Future, Texts, empty
<1>12. Historied(t) /\ Earlier(t) = <<>> /\ Later(t) = <<>>
  BY <1>11, HistoryIs
<1>13. InText(t, t.text)
  <2>1. 0 \in Offsets(w.text)
    BY OffsetsAre
  <2> QED BY <1>1, <2>1 DEF InText
<1>14. Sound(t)
  BY <1>1, <1>2, <1>9, <1>12, <1>13 DEF Sound, IsWritten, Texts
<1> QED BY <1>10, <1>12, <1>14 DEF InStep, t

LEMMA OfferBeside ==
  ASSUME NEW t, Sound(t), NEW offered \in Seq(Token), NEW u, u = [t EXCEPT !.offered = offered]
  PROVE  Beside(t, u)
<1>1. DOMAIN t = StateFields /\ IsKept(t) /\ IsWritten(t)
  BY DEF Sound, IsKept
<1>2. /\ u.text = t.text /\ u.cursor = t.cursor /\ u.anchor = t.anchor /\ u.live = t.live
      /\ u.bumped = t.bumped /\ u.steps = t.steps /\ u.redoable = t.redoable
      /\ u.coalescing = t.coalescing /\ u.kills = t.kills /\ u.offered = offered
      /\ SameModes(u, t)
  BY <1>1 DEF StateFields, SameModes
<1>3. /\ DOMAIN u = StateFields /\ u.held = t.held /\ u.count = t.count
      /\ u.record = t.record /\ u.progress = t.progress /\ u.arming = t.arming
      /\ u.last_find = t.last_find /\ u.target = t.target /\ u.span_is_line = t.span_is_line
  BY <1>1 DEF StateFields
<1>4. IsKept(u)
  BY <1>1, <1>2, <1>3 DEF IsKept, SameModes
<1>5. u.anchor \in Offsets(t.text) /\ u.live \in BOOLEAN /\ u.bumped \in BOOLEAN
  BY <1>1, <1>2 DEF IsWritten, InText
<1> QED BY <1>2, <1>4, <1>5, BesideIs

(* An edit of the loop's own: neither kills, nor changes a mode            *)
LEMMA EditEvent ==
  ASSUME NEW t, Sound(t), InStep(t), NEW u, Sound(u), Stacks(t, u), Aside(u, t)
  PROVE  Event(t, u)
<1>1. SameModes(u, t) /\ u.kills = t.kills
  BY DEF Aside, SameModes
<1>2. InStep(u)
  BY <1>1, SameInStep
<1>3. Picks(t, u)
  BY <1>1, NarrowsItself DEF Picks, SameModes
<1> QED BY <1>1, <1>2, <1>3 DEF Event, KillsFit

LEMMA BreaksBeside ==
  ASSUME NEW t, Sound(t)
  PROVE  Beside(t, break_coalescing(t)) /\ Aside(break_coalescing(t), t)
BY CoalescingBroken DEF Beside, Aside, SameModes, SameTexts

LEMMA PasteEvent ==
  ASSUME NEW t, Sound(t), InStep(t), NEW text \in Seq(Token), NEW u,
         u = [apply_edit(break_coalescing(t), t.cursor, t.cursor, text, t.cursor + Len(text))
                EXCEPT !.coalescing = FALSE, !.bumped = FALSE]
  PROVE  Event(t, u)
<1> DEFINE b == break_coalescing(t)
           c == t.cursor
           at == c + Len(text)
           e == apply_edit(b, c, c, text, at)
           m == break_coalescing(e)
           no == FALSE
<1>1. Beside(t, b)
  BY BreaksBeside
<1> HIDE DEF b
<1>2. Sound(b) /\ b.text = t.text /\ InStep(b)
  BY <1>1, SameInStep DEF Beside, SameTexts
<1>3. t.text \in Seq(Token) /\ c \in Nat /\ c <= Len(t.text) /\ Len(text) \in Nat /\ Len(t.text) \in Nat
  BY DEF Sound, IsWritten, InText, Texts, Offsets
<1>4. Within(b.text, c, c, text)
  BY <1>2, <1>3 DEF Within
<1>5. at \in Offsets(replace(b.text, c, c, text))
  <2> DEFINE m0 == Len(replace(b.text, c, c, text))
             k == Len(text)
             n == Len(t.text)
  <2>1. m0 = c + k + (n - c)
    BY <1>2, <1>4, ReplaceIs
  <2>2. at = c + k
    OBVIOUS
  <2>3. m0 \in Nat /\ at \in 0 .. m0
    <3> HIDE DEF m0, k, n, c, at
    <3> QED BY <1>3, <2>1, <2>2 DEF k, n
  <2> QED BY <2>3 DEF Offsets
<1> HIDE DEF c, at
<1>6. Sound(e) /\ Stacks(b, e) /\ Aside(e, b)
  BY <1>2, <1>4, <1>5, EditStacks
<1>7. Event(b, e)
  BY <1>2, <1>6, EditEvent
<1>8. Event(t, e)
  BY <1>1, <1>7, BesideThenEvent
<1>9. no \in BOOLEAN /\ DOMAIN e = StateFields
  BY <1>6 DEF Sound, IsKept
<1>10. u = [m EXCEPT !.bumped = no]
  <2>1. u = [e EXCEPT !.coalescing = no, !.bumped = no]
    BY DEF b, c, at
  <2>2. m = [e EXCEPT !.coalescing = no]
    BY DEF break_coalescing
  <2> HIDE DEF e, m, no
  <2> QED BY <1>9, <2>1, <2>2 DEF StateFields
<1>11. Beside(e, m)
  <2> HIDE DEF e
  <2> QED BY <1>6, BreaksBeside
<1> HIDE DEF m, no, e
<1>12. Beside(m, u)
  BY <1>9, <1>10, <1>11, OnlyBumped DEF Beside
<1> QED BY <1>8, <1>11, <1>12, EventThenBeside

(* What is accepted or cancelled is erased                                 *)
LEMMA EmptiedEvent ==
  ASSUME NEW t, Sound(t), InStep(t)
  PROVE  Event(t, break_coalescing(apply_edit(t, 0, Len(t.text), <<>>, 0)))
<1> DEFINE zero == 0
           empty == <<>>
           n == Len(t.text)
           e == apply_edit(t, zero, n, empty, zero)
<1>1. t.text \in Seq(Token) /\ n \in Nat /\ zero \in Nat /\ zero <= n /\ empty \in Seq(Token)
  BY DEF Sound, IsWritten, Texts
<1>2. Within(t.text, zero, n, empty)
  BY <1>1 DEF Within
<1>3. zero \in Offsets(replace(t.text, zero, n, empty))
  <2>1. replace(t.text, zero, n, empty) \in Seq(Token)
    BY <1>2, ReplaceIs
  <2> QED BY <2>1, OffsetsAre
<1> HIDE DEF zero, empty, n
<1>4. Sound(e) /\ Stacks(t, e) /\ Aside(e, t)
  BY <1>2, <1>3, EditStacks
<1>5. Event(t, e)
  BY <1>4, EditEvent
<1> HIDE DEF e
<1>6. Beside(e, break_coalescing(e))
  BY <1>4, BreaksBeside
<1>7. Event(t, break_coalescing(e))
  BY <1>5, <1>6, EventThenBeside
<1> QED BY <1>7 DEF e, zero, empty, n

LEMMA InterruptMade ==
  ASSUME NEW t, Sound(t), InStep(t), NEW how
  PROVE  Made(t, invoke(t, "cancel_line", how))
<1> DEFINE h == Handle(t)
           what == "cancel_line"
           g == [h EXCEPT !.outcome = what]
<1>1. IsHandle(h)
  BY HandleIs
<1>2. what \in Asks
  BY DEF Asks
<1>3. invoke(t, "cancel_line", how) = Settle(g, how)
  <2>1. Act("cancel_line", h, how) = [h EXCEPT !.outcome = "cancel_line"]
    BY PlainActsAre
  <2> QED BY <2>1 DEF invoke
<1> HIDE DEF h, what
<1>4. /\ DOMAIN g = HandleFields /\ g.t = h.t /\ g.text = h.text /\ g.cursor = h.cursor
      /\ g.anchor = h.anchor /\ g.live = h.live /\ g.wrote = h.wrote /\ g.moved = h.moved
      /\ g.chose = h.chose /\ g.pushed = h.pushed /\ g.outcome = what
  BY <1>1 DEF IsHandle, HandleFields
<1> HIDE DEF g
<1>5. IsHandle(g)
  BY <1>1, <1>2, <1>4 DEF IsHandle
<1>6. Looks(h, g)
  BY <1>4, <1>5 DEF Looks, Calm, TextKept, ModesKept
<1>7. Made(t, Settle(g, how))
  BY <1>6, LooksMade DEF h
<1> QED BY <1>3, <1>7

-----------------------------------------------------------------------------
(* The modes, as the properties say them.                                  *)

Resting == Modes \cup {"vi_visual"}

(* A mode, and what is selected in it                                      *)
LEMMA PlainHolds ==
  ASSUME NEW l, Plain(l)
  PROVE  /\ Len(l) \in Nat /\ Len(l) >= 1 /\ DOMAIN l = 1 .. Len(l) /\ Last(l) = l[Len(l)]
         /\ \A d \in DOMAIN l : l[d] \in Resting
<1>1. l \in Seq(Layers) /\ Len(l) >= 1 /\ l[1] \in Modes /\ \A d \in 2 .. Len(l) : l[d] = "vi_visual"
  BY DEF Plain
<1>2. Len(l) \in Nat /\ DOMAIN l = 1 .. Len(l)
  BY <1>1
<1>3. ASSUME NEW d \in DOMAIN l
      PROVE  l[d] \in Resting
  <2>1. d = 1 \/ d \in 2 .. Len(l)
    BY <1>2
  <2> QED BY <1>1, <2>1 DEF Resting
<1> QED BY <1>1, <1>2, <1>3 DEF Last

(* A layer on it                                                           *)
LEMMA OnHolds ==
  ASSUME NEW l, NEW x, On(l, x)
  PROVE  /\ Len(l) \in Nat /\ Len(l) > 1 /\ DOMAIN l = 1 .. Len(l) /\ Last(l) = l[Len(l)]
         /\ l[Len(l)] = x
         /\ \A d \in DOMAIN l : d # Len(l) => l[d] \in Resting
<1> DEFINE f == Front(l)
           n == Len(l)
<1>1. l \in Seq(Layers) /\ n > 1 /\ Last(l) = x /\ Plain(f)
  BY DEF On
<1>2. n \in Nat /\ DOMAIN l = 1 .. n /\ l # <<>>
  BY <1>1, EmptySeq
<1>3. Len(f) = n - 1 /\ \A i \in 1 .. n - 1 : f[i] = l[i]
  BY <1>1, <1>2, FrontIs
<1> HIDE DEF f
<1>4. DOMAIN f = 1 .. Len(f) /\ \A d \in DOMAIN f : f[d] \in Resting
  BY <1>1, PlainHolds
<1>5. ASSUME NEW d \in DOMAIN l, d # n
      PROVE  l[d] \in Resting
  <2>1. d \in 1 .. n - 1 /\ d \in DOMAIN f
    BY <1>2, <1>3, <1>4, <1>5
  <2> QED BY <1>3, <1>4, <2>1
<1> QED BY <1>1, <1>2, <1>5 DEF Last

LEMMA PointsInside ==
  ASSUME Sound(ed)
  PROVE  PointsStayInside
<1>1. ed.cursor \in Offsets(ed.text) /\ ed.anchor \in Offsets(ed.text)
  BY DEF Sound, IsWritten, InText
<1>2. ed.redoable \in Seq(Edits)
  BY DEF Sound, IsWritten, Historied, Future, Chain
<1>3. ASSUME NEW i \in DOMAIN ed.redoable
      PROVE  ed.redoable[i].at >= 0
  <2>1. ed.redoable[i] \in Edits
    BY <1>2
  <2>2. ed.redoable[i].at \in Nat
    BY <2>1 DEF Edits
  <2> QED BY <2>2
<1> QED BY <1>1, <1>3 DEF PointsStayInside

(* An operator and its layer, a wait and its layer, the pager and its layer *)
LEMMA ModesInStep ==
  ASSUME InStep(ed)
  PROVE  OperatorHasItsLayer /\ PagerIsModal
<1> DEFINE l == ed.layers
           n == Len(l)
<1> SUFFICES OperatorHasItsLayer /\ (ed.pager.open <=> Last(l) = "pager")
             /\ (ed.pager.open => GoodPager(ed.pager))
  BY DEF PagerIsModal, GoodPager, GoodRows, showing
<1>1. CASE AtMode(ed)
  <2>1. /\ n \in Nat /\ n >= 1 /\ DOMAIN l = 1 .. n /\ Last(l) = l[n]
        /\ \A d \in DOMAIN l : l[d] \in Resting
    BY <1>1, PlainHolds DEF AtMode
  <2>2. n \in DOMAIN l
    BY <2>1
  <2> HIDE DEF l, n
  <2>3. Last(l) # "pager" /\ \A d \in DOMAIN l : l[d] \notin {"vi_operator_pending", "vi_find_char",
                                                            "vi_replace_char"}
    BY <2>1, <2>2 DEF Resting, Modes
  <2> QED BY <1>1, <2>3 DEF AtMode, OperatorHasItsLayer, ToSet, l, n
<1>2. CASE InPager(ed)
  <2>1. /\ n \in Nat /\ DOMAIN l = 1 .. n /\ Last(l) = l[n] /\ l[n] = "pager"
        /\ \A d \in DOMAIN l : d # n => l[d] \in Resting
    BY <1>2, OnHolds DEF InPager
  <2> HIDE DEF l, n
  <2>2. \A d \in DOMAIN l : l[d] \notin {"vi_operator_pending", "vi_find_char", "vi_replace_char"}
    BY <2>1 DEF Resting, Modes
  <2> QED BY <1>2, <2>1, <2>2 DEF InPager, OperatorHasItsLayer, ToSet, l, n
<1>3. CASE Awaiting(ed)
  <2>1. PICK x \in {"vi_find_char", "vi_replace_char"} : On(l, x)
    BY <1>3 DEF Awaiting
  <2>2. /\ n \in Nat /\ DOMAIN l = 1 .. n /\ Last(l) = l[n] /\ l[n] = x
        /\ \A d \in DOMAIN l : d # n => l[d] \in Resting
    BY <2>1, OnHolds
  <2> HIDE DEF l, n
  <2>3. \A d \in DOMAIN l : /\ l[d] # "vi_operator_pending"
                            /\ l[d] \in {"vi_find_char", "vi_replace_char"} => d = n
    BY <2>2 DEF Resting, Modes
  <2>4. Last(l) # "pager"
    BY <2>2
  <2> QED BY <1>3, <2>3, <2>4 DEF Awaiting, OperatorHasItsLayer, ToSet, l, n
<1>4. CASE Operating(ed)
  <2>1. /\ n \in Nat /\ n > 1 /\ DOMAIN l = 1 .. n /\ Last(l) = l[n] /\ l[n] = "vi_operator_pending"
        /\ \A d \in DOMAIN l : d # n => l[d] \in Resting
    BY <1>4, OnHolds DEF Operating
  <2>2. n \in DOMAIN l
    BY <2>1
  <2> HIDE DEF l, n
  <2>3. \A d \in DOMAIN l : l[d] \notin {"vi_find_char", "vi_replace_char"}
    BY <2>1 DEF Resting, Modes
  <2>4. Last(l) # "pager" /\ ed.operator # ""
    BY <1>4, <2>1 DEF Operating, Verbs
  <2> QED BY <1>4, <2>1, <2>2, <2>3, <2>4 DEF Operating, OperatorHasItsLayer, ToSet, l, n
<1>5. CASE Finding(ed)
  <2> DEFINE f == Front(l)
             m == Len(f)
  <2>1. l \in Seq(Layers) /\ n > 1 /\ Last(l) = "vi_find_char" /\ On(f, "vi_operator_pending")
    BY <1>5 DEF Finding
  <2>2. /\ m \in Nat /\ m > 1 /\ DOMAIN f = 1 .. m /\ f[m] = "vi_operator_pending"
        /\ \A d \in DOMAIN f : d # m => f[d] \in Resting
    BY <2>1, OnHolds
  <2>3. n \in Nat /\ DOMAIN l = 1 .. n /\ l # <<>> /\ l[n] = "vi_find_char"
    BY <2>1, EmptySeq DEF Last
  <2>4. m = n - 1 /\ \A i \in 1 .. n - 1 : f[i] = l[i]
    BY <2>1, <2>3, FrontIs
  <2> HIDE DEF l, n, f, m
  <2>5. m \in DOMAIN l /\ l[m] = "vi_operator_pending"
    BY <2>2, <2>3, <2>4
  <2>6. ASSUME NEW d \in DOMAIN l, l[d] \in {"vi_find_char", "vi_replace_char"}
        PROVE  d = n
    <3>1. d = n \/ d \in 1 .. n - 1
      BY <2>3
    <3>2. CASE d \in 1 .. n - 1
      <4>1. d \in DOMAIN f /\ f[d] = l[d]
        BY <2>2, <2>4, <3>2
      <4>2. f[d] \in Resting \/ f[d] = "vi_operator_pending"
        BY <2>2, <4>1
      <4> QED BY <2>6, <4>1, <4>2 DEF Resting, Modes
    <3> QED BY <3>1, <3>2
  <2>7. Last(l) # "pager" /\ ed.operator # ""
    BY <1>5, <2>1 DEF Finding, Verbs
  <2> QED BY <1>5, <2>5, <2>6, <2>7 DEF Finding, OperatorHasItsLayer, ToSet, l, n
<1> QED BY <1>1, <1>2, <1>3, <1>4, <1>5 DEF InStep

-----------------------------------------------------------------------------
(* The inductive invariant: the line, its history and its modes are as     *)
(* they should be, and what is yet to be replayed are keys.                *)

SoundInv == Sound(ed) /\ InStep(ed) /\ injected \in Seq(Token) /\ world \in Worlds

(* What every step is                                                      *)
Stepped == SoundInv' /\ Event(ed, ed')

LEMMA StringsAreText ==
  ASSUME NEW s \in Seq(STRING)
  PROVE  s \in Seq(Token)
<1>1. STRING \subseteq Token
  BY DEF Token
<1>2. s \in [1 .. Len(s) -> STRING] /\ Len(s) \in Nat
  OBVIOUS
<1>3. s \in [1 .. Len(s) -> Token]
  BY <1>1, <1>2
<1> HIDE DEF Token
<1> QED BY <1>2, <1>3

LEMMA NoneIsText == None \in Seq(Token)
<1> DEFINE x == "none"
<1>1. x \in Token
  BY DEF Token
<1>2. None = <<x>>
  BY DEF None
<1> HIDE DEF x
<1> QED BY <1>1, <1>2, OneIs, Zenon

LEMMA WorldIs ==
  ASSUME NEW w \in Worlds
  PROVE  /\ w.mode \in Modes /\ w.text \in Seq(Token) /\ w.cursor \in Offsets(w.text)
         /\ \A key \in w.keys : key \in Token
         /\ \A text \in w.pastes : text \in Seq(Token)
<1>1. /\ w.mode \in Modes /\ w.text \in Seq(STRING) /\ w.cursor \in Offsets(w.text)
      /\ w.keys \subseteq STRING /\ w.pastes \subseteq Seq(STRING)
  BY WorldAssumption DEF Modes
<1>2. STRING \subseteq Token
  BY DEF Token
<1>3. \A s \in Seq(STRING) : s \in Seq(Token)
  BY StringsAreText
<1> QED BY <1>1, <1>2, <1>3

LEMMA SoundAtFirst ==
  ASSUME Init
  PROVE  SoundInv /\ Earlier(ed) = <<>> /\ Later(ed) = <<>>
<1>1. world \in Worlds /\ ed = Fresh(world) /\ injected = <<>>
  BY DEF Init
<1>2. world.mode \in Modes /\ world.text \in Seq(Token) /\ world.cursor \in Offsets(world.text)
  BY <1>1, WorldIs
<1>3. Sound(ed) /\ InStep(ed) /\ Earlier(ed) = <<>> /\ Later(ed) = <<>>
  BY <1>1, <1>2, FreshSound
<1>4. injected \in Seq(Token)
  BY <1>1
<1> QED BY <1>1, <1>3, <1>4 DEF SoundInv

(* A key, pressed or replayed                                              *)
LEMMA HandledEvent ==
  ASSUME CompleterAnswers, SoundInv, NEW key \in Token, Handled(key)
  PROVE  Stepped
<1>1. Sound(ed) /\ InStep(ed) /\ injected \in Seq(Token) /\ world \in Worlds
  BY DEF SoundInv
<1>2. PICK result \in {handle_key(ed, key)} :
        /\ ed' = result.t
        /\ injected' = (IF injected = <<>> THEN <<>> ELSE Tail(injected)) \o result.injected
        /\ world' = world
  BY DEF Handled
<1>3. Made(ed, result)
  BY <1>1, <1>2, KeyHandled
<1> DEFINE rest_ == IF injected = <<>> THEN <<>> ELSE Tail(injected)
           more == result.injected
<1>4. Event(ed, ed') /\ more \in Seq(Token)
  BY <1>2, <1>3 DEF Made
<1>5. rest_ \in Seq(Token)
  BY <1>1
<1>6. injected' = rest_ \o more
  BY <1>2
<1>7. injected' \in Seq(Token)
  <2> HIDE DEF rest_, more
  <2> QED BY <1>4, <1>5, <1>6
<1>8. Sound(ed') /\ InStep(ed')
  BY <1>4 DEF Event
<1> QED BY <1>1, <1>2, <1>4, <1>7, <1>8 DEF Stepped, SoundInv

(* The loop's own steps leave what is replayed, and the world              *)
LEMMA EventStepped ==
  ASSUME SoundInv, Event(ed, ed'), UNCHANGED <<injected, world>>
  PROVE  Stepped
BY DEF Stepped, SoundInv, Event

LEMMA SuggestEvent ==
  ASSUME SuggesterAnswers, SoundInv, Suggest
  PROVE  Stepped
<1> DEFINE offered == Suggestion(ed.text)
<1>1. Sound(ed) /\ InStep(ed) /\ ed.text \in Seq(Token)
  BY DEF SoundInv, Sound, IsWritten, Texts
<1>2. offered \in Seq(Token)
  BY <1>1 DEF SuggesterAnswers
<1>3. ed' = [ed EXCEPT !.offered = offered] /\ UNCHANGED <<injected, world>>
  BY DEF Suggest
<1> HIDE DEF offered
<1>4. Event(ed, ed')
  BY <1>1, <1>2, <1>3, OfferBeside, BesideEvent
<1> QED BY <1>3, <1>4, EventStepped

LEMMA PasteStepped ==
  ASSUME SoundInv, Paste
  PROVE  Stepped
<1>1. Sound(ed) /\ InStep(ed) /\ world \in Worlds
  BY DEF SoundInv
<1>2. PICK text \in world.pastes :
        ed' = [apply_edit(break_coalescing(ed), ed.cursor, ed.cursor, text, ed.cursor + Len(text))
                 EXCEPT !.coalescing = FALSE, !.bumped = FALSE]
  BY DEF Paste
<1>3. text \in Seq(Token)
  BY <1>1, WorldIs
<1>4. Event(ed, ed')
  BY <1>1, <1>2, <1>3, PasteEvent
<1>5. UNCHANGED <<injected, world>>
  BY DEF Paste
<1> QED BY <1>4, <1>5, EventStepped

LEMMA InterruptStepped ==
  ASSUME SoundInv, Interrupt
  PROVE  Stepped
<1>1. Sound(ed) /\ InStep(ed)
  BY DEF SoundInv
<1>2. ed' = invoke(ed, "cancel_line", [keys |-> <<>>, count |-> 0]).t /\ UNCHANGED <<injected, world>>
  BY DEF Interrupt
<1>3. Event(ed, ed')
  BY <1>1, <1>2, InterruptMade DEF Made
<1> QED BY <1>2, <1>3, EventStepped

LEMMA CarryOutStepped ==
  ASSUME SoundInv, CarryOut
  PROVE  Stepped
<1> DEFINE as_it_was == effects[1] = "accept_line" /\ ed.text = <<>>
           m == IF as_it_was THEN ed ELSE Emptied
           no == FALSE
           none == None
           o == [m EXCEPT !.offered = none]
<1>1. Sound(ed) /\ InStep(ed)
  BY DEF SoundInv
<1>2. UNCHANGED <<injected, world>>
  BY DEF CarryOut
<1>3. ed' = ed \/ ed' = [m EXCEPT !.offered = none, !.bumped = no]
  BY DEF CarryOut
<1>4. Event(ed, ed)
  <2>1. Beside(ed, ed)
    BY <1>1 DEF Beside, SameTexts, SameModes
  <2> QED BY <1>1, <2>1, BesideEvent
<1>5. Event(ed, Emptied)
  BY <1>1, EmptiedEvent DEF Emptied
<1>6. Event(ed, m) /\ Sound(m)
  BY <1>4, <1>5 DEF Event
<1>7. no \in BOOLEAN /\ none \in Seq(Token) /\ DOMAIN m = StateFields
  BY <1>6, NoneIsText DEF Sound, IsKept
<1> HIDE DEF m, no, none
<1>8. Beside(m, o)
  BY <1>6, <1>7, OfferBeside
<1>9. [m EXCEPT !.offered = none, !.bumped = no] = [o EXCEPT !.bumped = no]
  BY <1>7 DEF StateFields
<1>10. Event(ed, o) /\ Sound(o)
  BY <1>6, <1>8, EventThenBeside DEF Event
<1> HIDE DEF o
<1>11. Beside(o, [o EXCEPT !.bumped = no])
  BY <1>7, <1>10, OnlyBumped
<1>12. Event(ed, [o EXCEPT !.bumped = no])
  BY <1>10, <1>11, EventThenBeside
<1>13. Event(ed, ed')
  BY <1>3, <1>4, <1>9, <1>12
<1> QED BY <1>2, <1>13, EventStepped

(* Every step, whatever is pressed, pasted, replayed or given up           *)
LEMMA StepIsSound ==
  ASSUME CompleterAnswers, SuggesterAnswers, SoundInv, [Next]_vars
  PROVE  Stepped
<1>1. ASSUME Press
      PROVE  Stepped
  <2>1. PICK key \in world.keys : Handled(key)
    BY <1>1 DEF Press
  <2>2. key \in Token
    BY <2>1, WorldIs DEF SoundInv
  <2> QED BY <2>1, <2>2, HandledEvent
<1>2. ASSUME Replay
      PROVE  Stepped
  <2>1. injected # <<>> /\ Handled(Head(injected)) /\ injected \in Seq(Token)
    BY <1>2 DEF Replay, SoundInv
  <2>2. Head(injected) \in Token
    BY <2>1
  <2> QED BY <2>1, <2>2, HandledEvent
<1>3. ASSUME UNCHANGED vars
      PROVE  Stepped
  <2>1. Beside(ed, ed) /\ InStep(ed)
    BY DEF SoundInv, Beside, SameTexts, SameModes
  <2>2. ed' = ed /\ UNCHANGED <<injected, world>>
    BY <1>3 DEF vars
  <2>3. Event(ed, ed')
    BY <2>1, <2>2, BesideEvent
  <2> QED BY <2>2, <2>3, EventStepped
<1> QED BY <1>1, <1>2, <1>3, SuggestEvent, PasteStepped, InterruptStepped, CarryOutStepped DEF Next

-----------------------------------------------------------------------------
(* What holds of every line that is edited.                                *)

(* The invariant holds throughout, for every completer that answers with   *)
(* candidates of the text it was asked of, and every suggester that        *)
(* answers with a line.                                                    *)
THEOREM SoundThroughout ==
  ASSUME CompleterAnswers, SuggesterAnswers
  PROVE  Spec => []SoundInv
<1>1. Init => SoundInv
  BY SoundAtFirst
<1>2. SoundInv /\ [Next]_vars => SoundInv'
  BY StepIsSound DEF Stepped
<1> QED BY <1>1, <1>2, PTL DEF Spec

(* The cursor and the anchor stay in the text, an operator and its layer   *)
(* come and go together, and the pager is open exactly while it takes the  *)
(* keys, with what is selected in it shown (state.h:642, vi.cpp:387,       *)
(* registry.cpp:489), however many keys are pressed, undone or replayed.   *)
THEOREM EditorsModesAgree ==
  ASSUME CompleterAnswers, SuggesterAnswers
  PROVE  Spec => []ModesAgree
<1>1. SoundInv => ModesAgree
  BY PointsInside, ModesInStep DEF SoundInv, ModesAgree
<1> QED BY <1>1, SoundThroughout, PTL

(* A kill put back where the cursor is left makes the line that was        *)
LEMMA KillFitsBack ==
  ASSUME Event(ed, ed'), ed'.kills # ed.kills, Len(ed'.text) < Len(ed.text)
  PROVE  ed.text \in {replace(ed'.text, ed'.cursor, ed'.cursor, ed'.kills.text),
                      replace(ed'.text, ed'.cursor, ed'.cursor, Front(ed'.kills.text))}
<1> DEFINE s == ed.text
           r == ed'.text
           kill == ed'.kills.text
           none == <<>>
<1>1. r # s
  <2>1. r \in Seq(Token) /\ Len(r) \in Nat
    BY DEF Event, Sound, IsWritten, Texts
  <2> QED BY <2>1
<1>2. PICK from, to : /\ Within(s, from, to, none) /\ r = replace(s, from, to, none)
                      /\ ed'.cursor = from /\ Cut(kill, slice(s, from, to))
  BY <1>1 DEF Event, KillsFit
<1> DEFINE cut == slice(s, from, to)
<1>3. Len(none) = 0 /\ from \in Nat /\ to \in Nat /\ from <= to /\ to <= Len(s) /\ s \in Seq(Token)
  BY <1>2 DEF Within
<1>4. from + Len(none) = from
  BY <1>3
<1>5. replace(replace(s, from, to, none), from, from + Len(none), cut) = s
  BY <1>2, ReplaceBack
<1>6. cut \in Seq(Token)
  BY <1>3, SliceIs
<1>7. replace(r, from, from, cut) = s
  BY <1>2, <1>4, <1>5
<1>8. kill = cut \/ kill = Append(cut, NL)
  BY <1>2 DEF Cut
<1> HIDE DEF s, r, kill, none, cut
<1>9. kill = cut \/ Front(kill) = cut
  <2>1. NL \in Token
    BY DEF Token
  <2>2. Front(Append(cut, NL)) = cut
    BY <1>6, <2>1, AppendedIs
  <2> QED BY <1>8, <2>2
<1>10. s = replace(r, from, from, kill) \/ s = replace(r, from, from, Front(kill))
  BY <1>7, <1>9
<1> QED BY <1>2, <1>10 DEF s, r, kill

(* Narrowing the pager keeps the candidate that was chosen as long as it   *)
(* matches (pager.cpp:156), and what is killed is what has gone: put back  *)
(* where the cursor is left, it makes the line that was (vi.cpp:139,       *)
(* builtin_actions.cpp:103).                                               *)
THEOREM NothingIsLost ==
  ASSUME CompleterAnswers, SuggesterAnswers
  PROVE  Spec => NothingChosenIsLost
<1>1. SoundInv /\ [Next]_vars =>
        [ed.pager.open /\ ed'.pager.open /\ ed'.pager.filter # ed.pager.filter =>
           Selected(ed.pager) \cap ToSet(ed'.pager.matching) \subseteq Selected(ed'.pager)]_vars
  BY StepIsSound DEF Stepped, Event, Picks, Narrows
<1>2. SoundInv /\ [Next]_vars =>
        [ed'.kills # ed.kills /\ Len(ed'.text) < Len(ed.text) =>
           LET kill == ed'.kills.text
               Back(cut) == replace(ed'.text, ed'.cursor, ed'.cursor, cut)
           IN  ed.text \in {Back(kill), Back(Front(kill))}]_vars
  BY StepIsSound, KillFitsBack DEF Stepped
<1>3. Spec => ChoiceIsKept
  BY <1>1, SoundThroughout, PTL DEF Spec, ChoiceIsKept
<1>4. Spec => KillComesBack
  BY <1>2, SoundThroughout, PTL DEF Spec, KillComesBack
<1> QED BY <1>3, <1>4 DEF NothingChosenIsLost

(* The history of edits implements the stack of texts that undo promises   *)
(* (undo.h:86): a change that is begun is a text more, one that is joined  *)
(* to the last is undone with it, and undo and redo go back and forward    *)
(* through the texts as they were.                                         *)
THEOREM HistoryIsAStack ==
  ASSUME CompleterAnswers, SuggesterAnswers
  PROVE  Spec => UndoIsAStack
<1>1. Init => Stack!Init
  BY SoundAtFirst DEF Stack!Init
<1>2. SoundInv /\ [Next]_vars => [Stack!Next]_<<Earlier(ed), ed.text, Later(ed)>>
  <2> SUFFICES ASSUME SoundInv, [Next]_vars
               PROVE  [Stack!Next]_<<Earlier(ed), ed.text, Later(ed)>>
    OBVIOUS
  <2>1. Stacks(ed, ed')
    BY StepIsSound DEF Stepped, Event
  <2>2. CASE Earlier(ed') = Earlier(ed) /\ ed'.text = ed.text /\ Later(ed') = Later(ed)
    BY <2>2
  <2>3. CASE Earlier(ed') = Append(Earlier(ed), ed.text) /\ Later(ed') = <<>>
    BY <2>3 DEF Stack!Next, Stack!Change
  <2>4. CASE /\ Earlier(ed) # <<>> /\ Earlier(ed') = Earlier(ed)
             /\ Len(ed'.text) > Len(ed.text) /\ Later(ed') = <<>>
    BY <2>4 DEF Stack!Next, Stack!Amend
  <2>5. CASE /\ Earlier(ed) # <<>> /\ Earlier(ed') = Front(Earlier(ed))
             /\ ed'.text = Last(Earlier(ed)) /\ Later(ed') = Append(Later(ed), ed.text)
    BY <2>5 DEF Stack!Next, Stack!Undo, Front, Last, Stack!Front, Stack!Last
  <2>6. CASE /\ Later(ed) # <<>> /\ Earlier(ed') = Append(Earlier(ed), ed.text)
             /\ ed'.text = Last(Later(ed)) /\ Later(ed') = Front(Later(ed))
    BY <2>6 DEF Stack!Next, Stack!Redo, Front, Last, Stack!Front, Stack!Last
  <2> QED BY <2>1, <2>2, <2>3, <2>4, <2>5, <2>6 DEF Stacks
<1> QED BY <1>1, <1>2, SoundThroughout, PTL DEF Spec, UndoIsAStack, Stack!Spec

=============================================================================
