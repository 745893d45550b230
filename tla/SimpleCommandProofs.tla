------------------------ MODULE SimpleCommandProofs ------------------------
(***************************************************************************)
(* Descriptors and variables come back, and an error ends the shell when   *)
(* POSIX says so, proved for any script of simple commands, functions,     *)
(* evals and groups, of any length and nesting.                            *)
(***************************************************************************)
EXTENDS SimpleCommand, FiniteSetTheorems, SequenceTheorems, WellFoundedInduction, TLAPS

-----------------------------------------------------------------------------
(* The folds of the model unfold: each is reached from one step to the next. *)

(* A set of numbers that is not empty has a least.                         *)
LEMMA HasLeast ==
  ASSUME NEW T, T \subseteq Nat, T # {}
  PROVE  \E x \in T : \A y \in T : x <= y
<1> DEFINE R == OpToRel(<, Nat)
<1>1. IsWellFoundedOn(R, Nat)
  BY NatLessThanWellFounded
<1>2. \A x, y \in Nat : <<x, y>> \in R <=> x < y
  BY DEF OpToRel
<1> HIDE DEF R
<1>3. PICK x \in T : \A y \in T : ~ (<<y, x>> \in R)
  BY <1>1, WFMin
<1>4. \A y \in T : x <= y
  <2> TAKE y \in T
  <2>1. x \in Nat /\ y \in Nat /\ ~(y < x)
    BY <1>2, <1>3
  <2> QED BY <2>1
<1> QED BY <1>4

(* What is done for each of a list in turn is a function of the steps.      *)
LEMMA RedirectionsUnfold ==
  ASSUME NEW keep, NEW table, NEW f0, NEW redirs, NEW subbed, Len(redirs) \in Nat
  PROVE  \E after : /\ after[0] = Applying(keep, table, f0, subbed)
                    /\ \A i \in 1..Len(redirs) : after[i] = RedirectedNext(after[i - 1], redirs[i])
                    /\ apply_redirections(keep, table, f0, redirs, subbed) = after[Len(redirs)]
<1> DEFINE n0 == Len(redirs)
           zero == Applying(keep, table, f0, subbed)
           next(x, i) == RedirectedNext(x, redirs[i])
           good(f, n) == f = [i \in 0..n |-> IF i = 0 THEN zero ELSE next(f[i - 1], i)]
           bad == {n \in 0..n0 : ~ \E f : good(f, n)}
<1>1. apply_redirections(keep, table, f0, redirs, subbed) = (CHOOSE f : good(f, n0))[n0]
  BY DEF apply_redirections
<1> HIDE DEF zero, next
<1>2. bad = {}
  <2> SUFFICES ASSUME bad # {} PROVE FALSE
    OBVIOUS
  <2>1. PICK n \in bad : \A m \in bad : n <= m
    <3>1. bad \subseteq Nat
      OBVIOUS
    <3> HIDE DEF bad
    <3> QED BY <3>1, HasLeast
  <2>2. n # 0
    <3>1. good([i \in 0..0 |-> zero], 0)
      OBVIOUS
    <3> QED BY <3>1, <2>1
  <2>3. n - 1 \in 0..n0 /\ n \in Nat /\ n >= 1 /\ ~(n <= n - 1)
    BY <2>1, <2>2
  <2>4. PICK g : good(g, n - 1)
    <3> HIDE DEF good, n0
    <3> QED BY <2>1, <2>3
  <2> DEFINE f == [i \in 0..n |-> IF i < n THEN g[i] ELSE next(g[n - 1], n)]
  <2>5. \A i \in 0..n : f[i] = IF i = 0 THEN zero ELSE next(f[i - 1], i)
    <3> TAKE i \in 0..n
    <3>1. CASE i = 0
      BY <2>3, <2>4, <3>1
    <3>2. CASE i # 0 /\ i < n
      <4>1. i \in 0..(n - 1) /\ i - 1 \in 0..n /\ i - 1 < n
        BY <2>3, <3>2
      <4> QED BY <2>4, <3>2, <4>1
    <3>3. CASE i = n
      BY <2>3, <3>3
    <3> QED BY <2>3, <3>1, <3>2, <3>3
  <2>6. good(f, n)
    BY <2>5
  <2> HIDE DEF f, good
  <2> QED BY <2>1, <2>6
<1> DEFINE after == CHOOSE f : good(f, n0)
<1>3. good(after, n0)
  <2>1. \E f : good(f, n0)
    <3> HIDE DEF good, n0
    <3>1. n0 \in 0..n0
      BY DEF n0
    <3> QED BY <1>2, <3>1
  <2> HIDE DEF good, n0
  <2> QED BY <2>1
<1> HIDE DEF after
<1>4. after[0] = zero
  BY <1>3
<1>5. \A i \in 1..n0 : after[i] = next(after[i - 1], i)
  BY <1>3
<1>6. apply_redirections(keep, table, f0, redirs, subbed) = after[n0]
  BY <1>1 DEF after
<1> QED BY <1>4, <1>5, <1>6 DEF zero, next

Overlays(after, shell, assigns, persist) ==
  /\ after[0] = [sh |-> shell, restore |-> <<>>, refused |-> FALSE, fatal |-> FALSE, sub |-> NoSub]
  /\ \A i \in 1..Len(assigns) : after[i] = Overlaid(after[i - 1], assigns[i], persist)
  /\ apply_prefix(shell, assigns, persist) = after[Len(assigns)]

LEMMA PrefixUnfolds ==
  ASSUME NEW shell, NEW assigns, NEW persist, Len(assigns) \in Nat
  PROVE  \E after : Overlays(after, shell, assigns, persist)
<1> DEFINE n0 == Len(assigns)
           zero == [sh |-> shell, restore |-> <<>>, refused |-> FALSE, fatal |-> FALSE, sub |-> NoSub]
           next(x, i) == Overlaid(x, assigns[i], persist)
           good(f, n) == f = [i \in 0..n |-> IF i = 0 THEN zero ELSE next(f[i - 1], i)]
           bad == {n \in 0..n0 : ~ \E f : good(f, n)}
<1>1. apply_prefix(shell, assigns, persist) = (CHOOSE f : good(f, n0))[n0]
  BY DEF apply_prefix
<1> HIDE DEF zero, next
<1>2. bad = {}
  <2> SUFFICES ASSUME bad # {} PROVE FALSE
    OBVIOUS
  <2>1. PICK n \in bad : \A m \in bad : n <= m
    <3>1. bad \subseteq Nat
      OBVIOUS
    <3> HIDE DEF bad
    <3> QED BY <3>1, HasLeast
  <2>2. n # 0
    <3>1. good([i \in 0..0 |-> zero], 0)
      OBVIOUS
    <3> QED BY <3>1, <2>1
  <2>3. n - 1 \in 0..n0 /\ n \in Nat /\ n >= 1 /\ ~(n <= n - 1)
    BY <2>1, <2>2
  <2>4. PICK g : good(g, n - 1)
    <3> HIDE DEF good, n0
    <3> QED BY <2>1, <2>3
  <2> DEFINE f == [i \in 0..n |-> IF i < n THEN g[i] ELSE next(g[n - 1], n)]
  <2>5. \A i \in 0..n : f[i] = IF i = 0 THEN zero ELSE next(f[i - 1], i)
    <3> TAKE i \in 0..n
    <3>1. CASE i = 0
      BY <2>3, <2>4, <3>1
    <3>2. CASE i # 0 /\ i < n
      <4>1. i \in 0..(n - 1) /\ i - 1 \in 0..n /\ i - 1 < n
        BY <2>3, <3>2
      <4> QED BY <2>4, <3>2, <4>1
    <3>3. CASE i = n
      BY <2>3, <3>3
    <3> QED BY <2>3, <3>1, <3>2, <3>3
  <2>6. good(f, n)
    BY <2>5
  <2> HIDE DEF f, good
  <2> QED BY <2>1, <2>6
<1> DEFINE after == CHOOSE f : good(f, n0)
<1>3. good(after, n0)
  <2>1. \E f : good(f, n0)
    <3> HIDE DEF good, n0
    <3>1. n0 \in 0..n0
      BY DEF n0
    <3> QED BY <1>2, <3>1
  <2> HIDE DEF good, n0
  <2> QED BY <2>1
<1> HIDE DEF after
<1>4. after[0] = zero
  BY <1>3
<1>5. \A i \in 1..n0 : after[i] = next(after[i - 1], i)
  BY <1>3
<1>6. apply_prefix(shell, assigns, persist) = after[n0]
  BY <1>1 DEF after
<1> QED BY <1>4, <1>5, <1>6 DEF zero, next, Overlays

Uncovers(after, shell, restore) ==
  /\ after[0] = shell
  /\ \A i \in 1..Len(restore) : after[i] = Uncovered(after[i - 1], restore[i])
  /\ restore_prefix(shell, restore) = after[Len(restore)]

LEMMA RestoreUnfolds ==
  ASSUME NEW shell, NEW restore, Len(restore) \in Nat
  PROVE  \E after : Uncovers(after, shell, restore)
<1> DEFINE n0 == Len(restore)
           zero == shell
           next(x, i) == Uncovered(x, restore[i])
           good(f, n) == f = [i \in 0..n |-> IF i = 0 THEN zero ELSE next(f[i - 1], i)]
           bad == {n \in 0..n0 : ~ \E f : good(f, n)}
<1>1. restore_prefix(shell, restore) = (CHOOSE f : good(f, n0))[n0]
  BY DEF restore_prefix
<1> HIDE DEF zero, next
<1>2. bad = {}
  <2> SUFFICES ASSUME bad # {} PROVE FALSE
    OBVIOUS
  <2>1. PICK n \in bad : \A m \in bad : n <= m
    <3>1. bad \subseteq Nat
      OBVIOUS
    <3> HIDE DEF bad
    <3> QED BY <3>1, HasLeast
  <2>2. n # 0
    <3>1. good([i \in 0..0 |-> zero], 0)
      OBVIOUS
    <3> QED BY <3>1, <2>1
  <2>3. n - 1 \in 0..n0 /\ n \in Nat /\ n >= 1 /\ ~(n <= n - 1)
    BY <2>1, <2>2
  <2>4. PICK g : good(g, n - 1)
    <3> HIDE DEF good, n0
    <3> QED BY <2>1, <2>3
  <2> DEFINE f == [i \in 0..n |-> IF i < n THEN g[i] ELSE next(g[n - 1], n)]
  <2>5. \A i \in 0..n : f[i] = IF i = 0 THEN zero ELSE next(f[i - 1], i)
    <3> TAKE i \in 0..n
    <3>1. CASE i = 0
      BY <2>3, <2>4, <3>1
    <3>2. CASE i # 0 /\ i < n
      <4>1. i \in 0..(n - 1) /\ i - 1 \in 0..n /\ i - 1 < n
        BY <2>3, <3>2
      <4> QED BY <2>4, <3>2, <4>1
    <3>3. CASE i = n
      BY <2>3, <3>3
    <3> QED BY <2>3, <3>1, <3>2, <3>3
  <2>6. good(f, n)
    BY <2>5
  <2> HIDE DEF f, good
  <2> QED BY <2>1, <2>6
<1> DEFINE after == CHOOSE f : good(f, n0)
<1>3. good(after, n0)
  <2>1. \E f : good(f, n0)
    <3> HIDE DEF good, n0
    <3>1. n0 \in 0..n0
      BY DEF n0
    <3> QED BY <1>2, <3>1
  <2> HIDE DEF good, n0
  <2> QED BY <2>1
<1> HIDE DEF after
<1>4. after[0] = zero
  BY <1>3
<1>5. \A i \in 1..n0 : after[i] = next(after[i - 1], i)
  BY <1>3
<1>6. restore_prefix(shell, restore) = after[n0]
  BY <1>1 DEF after
<1> QED BY <1>4, <1>5, <1>6 DEF zero, next, Uncovers

Exports(after, shell, assigns) ==
  /\ after[0] = shell
  /\ \A i \in 1..Len(assigns) : after[i] = set_exported(after[i - 1], assigns[i].name, assigns[i].value)
  /\ Environment(shell, assigns) = after[Len(assigns)]

LEMMA EnvironmentUnfolds ==
  ASSUME NEW shell, NEW assigns, Len(assigns) \in Nat
  PROVE  \E after : Exports(after, shell, assigns)
<1> DEFINE n0 == Len(assigns)
           zero == shell
           next(x, i) == set_exported(x, assigns[i].name, assigns[i].value)
           good(f, n) == f = [i \in 0..n |-> IF i = 0 THEN zero ELSE next(f[i - 1], i)]
           bad == {n \in 0..n0 : ~ \E f : good(f, n)}
<1>1. Environment(shell, assigns) = (CHOOSE f : good(f, n0))[n0]
  BY DEF Environment
<1> HIDE DEF zero, next
<1>2. bad = {}
  <2> SUFFICES ASSUME bad # {} PROVE FALSE
    OBVIOUS
  <2>1. PICK n \in bad : \A m \in bad : n <= m
    <3>1. bad \subseteq Nat
      OBVIOUS
    <3> HIDE DEF bad
    <3> QED BY <3>1, HasLeast
  <2>2. n # 0
    <3>1. good([i \in 0..0 |-> zero], 0)
      OBVIOUS
    <3> QED BY <3>1, <2>1
  <2>3. n - 1 \in 0..n0 /\ n \in Nat /\ n >= 1 /\ ~(n <= n - 1)
    BY <2>1, <2>2
  <2>4. PICK g : good(g, n - 1)
    <3> HIDE DEF good, n0
    <3> QED BY <2>1, <2>3
  <2> DEFINE f == [i \in 0..n |-> IF i < n THEN g[i] ELSE next(g[n - 1], n)]
  <2>5. \A i \in 0..n : f[i] = IF i = 0 THEN zero ELSE next(f[i - 1], i)
    <3> TAKE i \in 0..n
    <3>1. CASE i = 0
      BY <2>3, <2>4, <3>1
    <3>2. CASE i # 0 /\ i < n
      <4>1. i \in 0..(n - 1) /\ i - 1 \in 0..n /\ i - 1 < n
        BY <2>3, <3>2
      <4> QED BY <2>4, <3>2, <4>1
    <3>3. CASE i = n
      BY <2>3, <3>3
    <3> QED BY <2>3, <3>1, <3>2, <3>3
  <2>6. good(f, n)
    BY <2>5
  <2> HIDE DEF f, good
  <2> QED BY <2>1, <2>6
<1> DEFINE after == CHOOSE f : good(f, n0)
<1>3. good(after, n0)
  <2>1. \E f : good(f, n0)
    <3> HIDE DEF good, n0
    <3>1. n0 \in 0..n0
      BY DEF n0
    <3> QED BY <1>2, <3>1
  <2> HIDE DEF good, n0
  <2> QED BY <2>1
<1> HIDE DEF after
<1>4. after[0] = zero
  BY <1>3
<1>5. \A i \in 1..n0 : after[i] = next(after[i - 1], i)
  BY <1>3
<1>6. Environment(shell, assigns) = after[n0]
  BY <1>1 DEF after
<1> QED BY <1>4, <1>5, <1>6 DEF zero, next, Exports

Assigns(after, cmd) ==
  /\ after[0] = [sh |-> sh, error |-> "none", sub |-> NoSub]
  /\ \A i \in 1..Len(cmd.assigns) : after[i] = AssignedNext(after[i - 1], cmd.assigns[i])
  /\ Assignments(cmd) = after[Len(cmd.assigns)]

LEMMA AssignmentsUnfold ==
  ASSUME NEW cmd, Len(cmd.assigns) \in Nat
  PROVE  \E after : Assigns(after, cmd)
<1> DEFINE n0 == Len(cmd.assigns)
           zero == [sh |-> sh, error |-> "none", sub |-> NoSub]
           next(x, i) == AssignedNext(x, cmd.assigns[i])
           good(f, n) == f = [i \in 0..n |-> IF i = 0 THEN zero ELSE next(f[i - 1], i)]
           bad == {n \in 0..n0 : ~ \E f : good(f, n)}
<1>1. Assignments(cmd) = (CHOOSE f : good(f, n0))[n0]
  BY DEF Assignments
<1> HIDE DEF zero, next
<1>2. bad = {}
  <2> SUFFICES ASSUME bad # {} PROVE FALSE
    OBVIOUS
  <2>1. PICK n \in bad : \A m \in bad : n <= m
    <3>1. bad \subseteq Nat
      OBVIOUS
    <3> HIDE DEF bad
    <3> QED BY <3>1, HasLeast
  <2>2. n # 0
    <3>1. good([i \in 0..0 |-> zero], 0)
      OBVIOUS
    <3> QED BY <3>1, <2>1
  <2>3. n - 1 \in 0..n0 /\ n \in Nat /\ n >= 1 /\ ~(n <= n - 1)
    BY <2>1, <2>2
  <2>4. PICK g : good(g, n - 1)
    <3> HIDE DEF good, n0
    <3> QED BY <2>1, <2>3
  <2> DEFINE f == [i \in 0..n |-> IF i < n THEN g[i] ELSE next(g[n - 1], n)]
  <2>5. \A i \in 0..n : f[i] = IF i = 0 THEN zero ELSE next(f[i - 1], i)
    <3> TAKE i \in 0..n
    <3>1. CASE i = 0
      BY <2>3, <2>4, <3>1
    <3>2. CASE i # 0 /\ i < n
      <4>1. i \in 0..(n - 1) /\ i - 1 \in 0..n /\ i - 1 < n
        BY <2>3, <3>2
      <4> QED BY <2>4, <3>2, <4>1
    <3>3. CASE i = n
      BY <2>3, <3>3
    <3> QED BY <2>3, <3>1, <3>2, <3>3
  <2>6. good(f, n)
    BY <2>5
  <2> HIDE DEF f, good
  <2> QED BY <2>1, <2>6
<1> DEFINE after == CHOOSE f : good(f, n0)
<1>3. good(after, n0)
  <2>1. \E f : good(f, n0)
    <3> HIDE DEF good, n0
    <3>1. n0 \in 0..n0
      BY DEF n0
    <3> QED BY <1>2, <3>1
  <2> HIDE DEF good, n0
  <2> QED BY <2>1
<1> HIDE DEF after
<1>4. after[0] = zero
  BY <1>3
<1>5. \A i \in 1..n0 : after[i] = next(after[i - 1], i)
  BY <1>3
<1>6. Assignments(cmd) = after[n0]
  BY <1>1 DEF after
<1> QED BY <1>4, <1>5, <1>6 DEF zero, next, Assigns

LEMMA WrittenUnfolds ==
  ASSUME NEW shell, NEW writes, Len(writes) \in Nat
  PROVE  \E after : /\ after[0] = [sh |-> shell, refused |-> FALSE]
                    /\ \A i \in 1..Len(writes) : after[i] = Wrote(after[i - 1], writes[i])
                    /\ Written(shell, writes) = after[Len(writes)]
<1> DEFINE n0 == Len(writes)
           zero == [sh |-> shell, refused |-> FALSE]
           next(x, i) == Wrote(x, writes[i])
           good(f, n) == f = [i \in 0..n |-> IF i = 0 THEN zero ELSE next(f[i - 1], i)]
           bad == {n \in 0..n0 : ~ \E f : good(f, n)}
<1>1. Written(shell, writes) = (CHOOSE f : good(f, n0))[n0]
  BY DEF Written
<1> HIDE DEF zero, next
<1>2. bad = {}
  <2> SUFFICES ASSUME bad # {} PROVE FALSE
    OBVIOUS
  <2>1. PICK n \in bad : \A m \in bad : n <= m
    <3>1. bad \subseteq Nat
      OBVIOUS
    <3> HIDE DEF bad
    <3> QED BY <3>1, HasLeast
  <2>2. n # 0
    <3>1. good([i \in 0..0 |-> zero], 0)
      OBVIOUS
    <3> QED BY <3>1, <2>1
  <2>3. n - 1 \in 0..n0 /\ n \in Nat /\ n >= 1 /\ ~(n <= n - 1)
    BY <2>1, <2>2
  <2>4. PICK g : good(g, n - 1)
    <3> HIDE DEF good, n0
    <3> QED BY <2>1, <2>3
  <2> DEFINE f == [i \in 0..n |-> IF i < n THEN g[i] ELSE next(g[n - 1], n)]
  <2>5. \A i \in 0..n : f[i] = IF i = 0 THEN zero ELSE next(f[i - 1], i)
    <3> TAKE i \in 0..n
    <3>1. CASE i = 0
      BY <2>3, <2>4, <3>1
    <3>2. CASE i # 0 /\ i < n
      <4>1. i \in 0..(n - 1) /\ i - 1 \in 0..n /\ i - 1 < n
        BY <2>3, <3>2
      <4> QED BY <2>4, <3>2, <4>1
    <3>3. CASE i = n
      BY <2>3, <3>3
    <3> QED BY <2>3, <3>1, <3>2, <3>3
  <2>6. good(f, n)
    BY <2>5
  <2> HIDE DEF f, good
  <2> QED BY <2>1, <2>6
<1> DEFINE after == CHOOSE f : good(f, n0)
<1>3. good(after, n0)
  <2>1. \E f : good(f, n0)
    <3> HIDE DEF good, n0
    <3>1. n0 \in 0..n0
      BY DEF n0
    <3> QED BY <1>2, <3>1
  <2> HIDE DEF good, n0
  <2> QED BY <2>1
<1> HIDE DEF after
<1>4. after[0] = zero
  BY <1>3
<1>5. \A i \in 1..n0 : after[i] = next(after[i - 1], i)
  BY <1>3
<1>6. Written(shell, writes) = after[n0]
  BY <1>1 DEF after
<1> QED BY <1>4, <1>5, <1>6 DEF zero, next

Declares(after, shell, operands, make_readonly) ==
  /\ after[0] = Done(shell, 0)
  /\ \A i \in 1..Len(operands) : after[i] = DeclaredNext(after[i - 1], operands[i], make_readonly)
  /\ run_declaration(shell, operands, make_readonly) = after[Len(operands)]

LEMMA DeclarationUnfolds ==
  ASSUME NEW shell, NEW operands, NEW make_readonly, Len(operands) \in Nat
  PROVE  \E after : Declares(after, shell, operands, make_readonly)
<1> DEFINE n0 == Len(operands)
           zero == Done(shell, 0)
           next(x, i) == DeclaredNext(x, operands[i], make_readonly)
           good(f, n) == f = [i \in 0..n |-> IF i = 0 THEN zero ELSE next(f[i - 1], i)]
           bad == {n \in 0..n0 : ~ \E f : good(f, n)}
<1>1. run_declaration(shell, operands, make_readonly) = (CHOOSE f : good(f, n0))[n0]
  BY DEF run_declaration
<1> HIDE DEF zero, next
<1>2. bad = {}
  <2> SUFFICES ASSUME bad # {} PROVE FALSE
    OBVIOUS
  <2>1. PICK n \in bad : \A m \in bad : n <= m
    <3>1. bad \subseteq Nat
      OBVIOUS
    <3> HIDE DEF bad
    <3> QED BY <3>1, HasLeast
  <2>2. n # 0
    <3>1. good([i \in 0..0 |-> zero], 0)
      OBVIOUS
    <3> QED BY <3>1, <2>1
  <2>3. n - 1 \in 0..n0 /\ n \in Nat /\ n >= 1 /\ ~(n <= n - 1)
    BY <2>1, <2>2
  <2>4. PICK g : good(g, n - 1)
    <3> HIDE DEF good, n0
    <3> QED BY <2>1, <2>3
  <2> DEFINE f == [i \in 0..n |-> IF i < n THEN g[i] ELSE next(g[n - 1], n)]
  <2>5. \A i \in 0..n : f[i] = IF i = 0 THEN zero ELSE next(f[i - 1], i)
    <3> TAKE i \in 0..n
    <3>1. CASE i = 0
      BY <2>3, <2>4, <3>1
    <3>2. CASE i # 0 /\ i < n
      <4>1. i \in 0..(n - 1) /\ i - 1 \in 0..n /\ i - 1 < n
        BY <2>3, <3>2
      <4> QED BY <2>4, <3>2, <4>1
    <3>3. CASE i = n
      BY <2>3, <3>3
    <3> QED BY <2>3, <3>1, <3>2, <3>3
  <2>6. good(f, n)
    BY <2>5
  <2> HIDE DEF f, good
  <2> QED BY <2>1, <2>6
<1> DEFINE after == CHOOSE f : good(f, n0)
<1>3. good(after, n0)
  <2>1. \E f : good(f, n0)
    <3> HIDE DEF good, n0
    <3>1. n0 \in 0..n0
      BY DEF n0
    <3> QED BY <1>2, <3>1
  <2> HIDE DEF good, n0
  <2> QED BY <2>1
<1> HIDE DEF after
<1>4. after[0] = zero
  BY <1>3
<1>5. \A i \in 1..n0 : after[i] = next(after[i - 1], i)
  BY <1>3
<1>6. run_declaration(shell, operands, make_readonly) = after[n0]
  BY <1>1 DEF after
<1> QED BY <1>4, <1>5, <1>6 DEF zero, next, Declares

LEMMA OptionsUnfold ==
  ASSUME NEW shell, NEW options, Len(options) \in Nat
  PROVE  \E after : /\ after[0] = Done(shell, 0)
                    /\ \A i \in 1..Len(options) : after[i] = OptionNext(after[i - 1], options[i])
                    /\ OptionsApplied(shell, options) = after[Len(options)]
<1> DEFINE n0 == Len(options)
           zero == Done(shell, 0)
           next(x, i) == OptionNext(x, options[i])
           good(f, n) == f = [i \in 0..n |-> IF i = 0 THEN zero ELSE next(f[i - 1], i)]
           bad == {n \in 0..n0 : ~ \E f : good(f, n)}
<1>1. OptionsApplied(shell, options) = (CHOOSE f : good(f, n0))[n0]
  BY DEF OptionsApplied
<1> HIDE DEF zero, next
<1>2. bad = {}
  <2> SUFFICES ASSUME bad # {} PROVE FALSE
    OBVIOUS
  <2>1. PICK n \in bad : \A m \in bad : n <= m
    <3>1. bad \subseteq Nat
      OBVIOUS
    <3> HIDE DEF bad
    <3> QED BY <3>1, HasLeast
  <2>2. n # 0
    <3>1. good([i \in 0..0 |-> zero], 0)
      OBVIOUS
    <3> QED BY <3>1, <2>1
  <2>3. n - 1 \in 0..n0 /\ n \in Nat /\ n >= 1 /\ ~(n <= n - 1)
    BY <2>1, <2>2
  <2>4. PICK g : good(g, n - 1)
    <3> HIDE DEF good, n0
    <3> QED BY <2>1, <2>3
  <2> DEFINE f == [i \in 0..n |-> IF i < n THEN g[i] ELSE next(g[n - 1], n)]
  <2>5. \A i \in 0..n : f[i] = IF i = 0 THEN zero ELSE next(f[i - 1], i)
    <3> TAKE i \in 0..n
    <3>1. CASE i = 0
      BY <2>3, <2>4, <3>1
    <3>2. CASE i # 0 /\ i < n
      <4>1. i \in 0..(n - 1) /\ i - 1 \in 0..n /\ i - 1 < n
        BY <2>3, <3>2
      <4> QED BY <2>4, <3>2, <4>1
    <3>3. CASE i = n
      BY <2>3, <3>3
    <3> QED BY <2>3, <3>1, <3>2, <3>3
  <2>6. good(f, n)
    BY <2>5
  <2> HIDE DEF f, good
  <2> QED BY <2>1, <2>6
<1> DEFINE after == CHOOSE f : good(f, n0)
<1>3. good(after, n0)
  <2>1. \E f : good(f, n0)
    <3> HIDE DEF good, n0
    <3>1. n0 \in 0..n0
      BY DEF n0
    <3> QED BY <1>2, <3>1
  <2> HIDE DEF good, n0
  <2> QED BY <2>1
<1> HIDE DEF after
<1>4. after[0] = zero
  BY <1>3
<1>5. \A i \in 1..n0 : after[i] = next(after[i - 1], i)
  BY <1>3
<1>6. OptionsApplied(shell, options) = after[n0]
  BY <1>1 DEF after
<1> QED BY <1>4, <1>5, <1>6 DEF zero, next

(* Descriptors are put back from the last that was saved.                  *)
LEMMA RestoringUnfolds ==
  ASSUME NEW table, NEW saved, Len(saved) \in Nat
  PROVE  \E from : /\ from[Len(saved) + 1] = table
                   /\ \A i \in 1..Len(saved) : from[i] = PutBack(from[i + 1], saved[i])
                   /\ restore_fds(table, saved) = from[1]
<1> DEFINE n0 == Len(saved)
           next(x, i) == PutBack(x, saved[i])
           good(f, m) == f = [i \in m..(n0 + 1) |-> IF i > n0 THEN table ELSE next(f[i + 1], i)]
           bad == {n \in 0..n0 : ~ \E f : good(f, n0 + 1 - n)}
<1>1. restore_fds(table, saved) = (CHOOSE f : good(f, 1))[1]
  BY DEF restore_fds
<1> HIDE DEF next
<1>2. bad = {}
  <2> SUFFICES ASSUME bad # {} PROVE FALSE
    OBVIOUS
  <2>1. PICK n \in bad : \A m \in bad : n <= m
    <3>1. bad \subseteq Nat
      OBVIOUS
    <3> HIDE DEF bad
    <3> QED BY <3>1, HasLeast
  <2>2. n # 0
    <3>1. good([i \in (n0 + 1)..(n0 + 1) |-> table], n0 + 1)
      OBVIOUS
    <3>2. n0 + 1 - 0 = n0 + 1
      OBVIOUS
    <3>3. \E f : good(f, n0 + 1)
      BY <3>1
    <3> HIDE DEF good, n0
    <3> QED BY <3>2, <3>3, <2>1
  <2>3. n - 1 \in 0..n0 /\ n \in Nat /\ n >= 1 /\ ~(n <= n - 1) /\ n0 + 1 - (n - 1) = n0 + 2 - n
        /\ n <= n0
    BY <2>1, <2>2
  <2>4. PICK g : good(g, n0 + 2 - n)
    <3>1. \E g : good(g, n0 + 1 - (n - 1))
      <4> HIDE DEF good, n0
      <4> QED BY <2>1, <2>3
    <3> HIDE DEF good, n0
    <3> QED BY <2>3, <3>1
  <2> DEFINE b == n0 + 1 - n
             f == [i \in b..(n0 + 1) |-> IF i > b THEN g[i] ELSE next(g[b + 1], b)]
  <2>b. b \in 1..n0 /\ b + 1 = n0 + 2 - n
    BY <2>3
  <2>5. \A i \in b..(n0 + 1) : f[i] = IF i > n0 THEN table ELSE next(f[i + 1], i)
    <3> TAKE i \in b..(n0 + 1)
    <3> HIDE DEF b
    <3>1. CASE i = b
      <4>1. f[i] = next(g[b + 1], b) /\ b + 1 \in b..(n0 + 1) /\ f[b + 1] = g[b + 1] /\ ~(i > n0)
        BY <2>b, <3>1
      <4> QED BY <3>1, <4>1
    <3>2. CASE i > b /\ i > n0
      BY <2>b, <2>4, <3>2
    <3>3. CASE i > b /\ ~(i > n0)
      <4>1. i \in (n0 + 2 - n)..(n0 + 1) /\ i + 1 \in b..(n0 + 1) /\ i + 1 > b
        BY <2>b, <3>3
      <4> QED BY <2>4, <3>3, <4>1
    <3> QED BY <2>b, <3>1, <3>2, <3>3
  <2>6. good(f, b)
    BY <2>5
  <2> HIDE DEF f, good
  <2> QED BY <2>1, <2>6
<1> DEFINE from == CHOOSE f : good(f, 1)
<1>3. good(from, 1)
  <2>1. \E f : good(f, 1)
    <3>1. n0 + 1 - n0 = 1 /\ n0 \in 0..n0
      OBVIOUS
    <3> HIDE DEF good, n0
    <3> QED BY <1>2, <3>1
  <2> HIDE DEF good, n0
  <2> QED BY <2>1
<1> HIDE DEF from
<1>4. from[n0 + 1] = table
  BY <1>3
<1>5. \A i \in 1..n0 : from[i] = next(from[i + 1], i)
  BY <1>3
<1>6. restore_fds(table, saved) = from[1]
  BY <1>1 DEF from
<1> QED BY <1>4, <1>5, <1>6 DEF next

-----------------------------------------------------------------------------
(* Lists                                                                   *)

LEMMA ListTells ==
  ASSUME NEW s, IsList(s)
  PROVE  /\ Len(s) \in Nat /\ DOMAIN s = 1..Len(s)
         /\ s = [i \in 1..Len(s) |-> s[i]]
<1> DEFINE T == {s[i] : i \in DOMAIN s}
<1>1. s \in Seq(T)
  BY DEF IsList
<1> HIDE DEF T
<1> QED BY <1>1

LEMMA ListOf ==
  ASSUME NEW T, NEW s \in Seq(T)
  PROVE  IsList(s)
<1>1. \A i \in 1..Len(s) : s[i] \in {s[j] : j \in DOMAIN s}
  OBVIOUS
<1>2. Len(s) \in Nat /\ s = [i \in 1..Len(s) |-> s[i]]
  OBVIOUS
<1> HIDE DEF IsList
<1>3. s \in Seq({s[j] : j \in DOMAIN s})
  <2> DEFINE U == {s[j] : j \in DOMAIN s}
  <2>1. \A i \in 1..Len(s) : s[i] \in U
    BY <1>1
  <2> HIDE DEF U
  <2>2. s \in [1..Len(s) -> U]
    BY <1>2, <2>1
  <2>3. s \in Seq(U)
    BY <1>2, <2>2, IsASeq
  <2> QED BY <2>3 DEF U
<1> QED BY <1>3 DEF IsList

LEMMA Appended ==
  ASSUME NEW s, IsList(s), NEW x
  PROVE  /\ IsList(Append(s, x)) /\ Len(Append(s, x)) = Len(s) + 1
         /\ \A i \in 1..Len(s) : Append(s, x)[i] = s[i]
         /\ Append(s, x)[Len(s) + 1] = x
<1> DEFINE T == {s[i] : i \in DOMAIN s} \cup {x}
<1>1. s \in Seq(T) /\ x \in T
  <2>1. Len(s) \in Nat /\ DOMAIN s = 1..Len(s) /\ s = [i \in 1..Len(s) |-> s[i]]
    BY ListTells
  <2>2. \A i \in 1..Len(s) : s[i] \in T
    BY <2>1
  <2>3. x \in T
    OBVIOUS
  <2> HIDE DEF T
  <2>4. s \in [1..Len(s) -> T]
    BY <2>1, <2>2
  <2> QED BY <2>1, <2>3, <2>4, IsASeq
<1> HIDE DEF T
<1>2. Append(s, x) \in Seq(T)
  BY <1>1
<1>3. IsList(Append(s, x))
  BY <1>2, ListOf
<1>4. Len(s) \in Nat
  BY <1>1
<1> QED BY <1>1, <1>3, <1>4

LEMMA Fronted ==
  ASSUME NEW s, IsList(s), s # <<>>
  PROVE  /\ Len(s) >= 1 /\ Last(s) = s[Len(s)]
         /\ IsList(Front(s)) /\ Len(Front(s)) = Len(s) - 1
         /\ \A i \in 1..(Len(s) - 1) : Front(s)[i] = s[i]
<1>1. Len(s) \in Nat /\ DOMAIN s = 1..Len(s) /\ s = [i \in 1..Len(s) |-> s[i]]
  BY ListTells
<1>2. Len(s) >= 1
  <2> SUFFICES ASSUME Len(s) = 0 PROVE FALSE
    BY <1>1
  <2>1. s \in Seq({})
    BY <1>1, IsASeq
  <2> QED BY <2>1
<1> DEFINE T == {s[i] : i \in DOMAIN s}
<1>3. s \in Seq(T)
  BY DEF IsList
<1> HIDE DEF T
<1>4. Front(s) \in Seq(T) /\ Len(Front(s)) = Len(s) - 1
      /\ \A i \in 1..(Len(s) - 1) : Front(s)[i] = s[i]
  <2>1. Front(s) = SubSeq(s, 1, Len(s) - 1)
    BY DEF Front
  <2>2. Len(s) - 1 \in Nat
    BY <1>1, <1>2
  <2> QED BY <1>1, <1>3, <2>1, <2>2
<1> QED BY <1>2, <1>4, ListOf DEF Last

-----------------------------------------------------------------------------
(* Descriptor tables, and what a redirection does to one.                  *)

(* Descriptor tables.  The user's descriptors are below SaveFrom; one at or  *)
(* above it is a copy, which no program inherits.                          *)

User == 0..(SaveFrom - 1)
High == SaveFrom..Top

Desc(x) == x = [file |-> x.file, mode |-> x.mode, cloexec |-> x.cloexec] /\ x.cloexec \in BOOLEAN

IsTable(t) ==
  /\ t = [d \in 0..Top |-> t[d]]
  /\ \A d \in 0..Top : Desc(t[d])
  /\ \A d \in User : t[d].cloexec = FALSE
  /\ \A d \in High : t[d] = Closed \/ t[d].cloexec = TRUE

SavedFds == [original : User, copy : {-1} \cup High]

Owed(now, saved) ==
  /\ saved \in Seq(SavedFds)
  /\ \A k \in 1..Len(saved) : saved[k].copy # -1 => now[saved[k].copy] # Closed
  /\ \A k, l \in 1..Len(saved) : saved[k].copy # -1 /\ saved[k].copy = saved[l].copy => k = l

First(saved, k) == \A l \in 1..(k - 1) : saved[l].original # saved[k].original
SavesFd(saved, d) == \E k \in 1..Len(saved) : saved[k].original = d
CopyIn(saved, d) == \E k \in 1..Len(saved) : saved[k].copy = d

(* What the first copy of a descriptor recalls is how the table had it.     *)
Recalls(now, saved, table) ==
  \A k \in 1..Len(saved) : First(saved, k) =>
     IF saved[k].copy = -1 THEN table[saved[k].original] = Closed
     ELSE now[saved[k].copy] = [table[saved[k].original] EXCEPT !.cloexec = TRUE]

LEMMA Descriptors ==
  /\ SaveFrom \in Nat /\ Top \in Nat /\ SaveFrom >= 3 /\ SaveFrom <= Top
  /\ User \subseteq 0..Top /\ High \subseteq 0..Top /\ User \cup High = 0..Top
  /\ User \cap High = {} /\ -1 \notin High
BY SimpleCommandDescriptors DEF User, High

LEMMA DescWith ==
  ASSUME NEW f, NEW m, NEW b, NEW w
  PROVE  [[file |-> f, mode |-> m, cloexec |-> b] EXCEPT !.cloexec = w]
            = [file |-> f, mode |-> m, cloexec |-> w]
OBVIOUS

LEMMA DescTells ==
  ASSUME NEW x, Desc(x)
  PROVE  /\ [x EXCEPT !.cloexec = TRUE] = [file |-> x.file, mode |-> x.mode, cloexec |-> TRUE]
         /\ [x EXCEPT !.cloexec = FALSE] = [file |-> x.file, mode |-> x.mode, cloexec |-> FALSE]
         /\ Desc([x EXCEPT !.cloexec = TRUE]) /\ Desc([x EXCEPT !.cloexec = FALSE])
         /\ [x EXCEPT !.cloexec = TRUE] # Closed
         /\ [x EXCEPT !.cloexec = TRUE].cloexec = TRUE
         /\ [x EXCEPT !.cloexec = FALSE].cloexec = FALSE
         /\ x.cloexec = FALSE => [x EXCEPT !.cloexec = FALSE] = x
         /\ x.cloexec = FALSE => [[x EXCEPT !.cloexec = TRUE] EXCEPT !.cloexec = FALSE] = x
<1>1. /\ [x EXCEPT !.cloexec = TRUE] = [file |-> x.file, mode |-> x.mode, cloexec |-> TRUE]
      /\ [x EXCEPT !.cloexec = FALSE] = [file |-> x.file, mode |-> x.mode, cloexec |-> FALSE]
      /\ [[x EXCEPT !.cloexec = TRUE] EXCEPT !.cloexec = FALSE]
           = [file |-> x.file, mode |-> x.mode, cloexec |-> FALSE]
  <2>1. PICK f, m, b : x = [file |-> f, mode |-> m, cloexec |-> b]
    BY DEF Desc
  <2>2. x.file = f /\ x.mode = m
    BY <2>1
  <2>3. \A w, v : [[file |-> f, mode |-> m, cloexec |-> v] EXCEPT !.cloexec = w]
                  = [file |-> f, mode |-> m, cloexec |-> w]
    BY DescWith
  <2>4. \A w : [x EXCEPT !.cloexec = w] = [file |-> f, mode |-> m, cloexec |-> w]
    BY <2>1, <2>3
  <2> QED BY <2>2, <2>3, <2>4
<1>2. [file |-> x.file, mode |-> x.mode, cloexec |-> TRUE] # Closed
  <2>1. [file |-> x.file, mode |-> x.mode, cloexec |-> TRUE].cloexec = TRUE /\ Closed.cloexec = FALSE
    BY DEF Closed
  <2> QED BY <2>1
<1> QED BY <1>1, <1>2 DEF Desc

LEMMA ClosedTells == Desc(Closed) /\ Closed.cloexec = FALSE
BY DEF Desc, Closed

LEMMA OpenTells ==
  ASSUME NEW f, NEW m
  PROVE  Desc(Open(f, m)) /\ Open(f, m).cloexec = FALSE
BY DEF Desc, Open

LEMMA TableTells ==
  ASSUME NEW t, IsTable(t), NEW d \in 0..Top
  PROVE  /\ Desc(t[d]) /\ (d \in User => t[d].cloexec = FALSE)
         /\ d \in High => t[d] = Closed \/ t[d].cloexec = TRUE
BY DEF IsTable

(* What a descriptor may hold. *)
Fits(d, x) ==
  /\ Desc(x)
  /\ d \in User => x.cloexec = FALSE
  /\ d \in High => x = Closed \/ x.cloexec = TRUE

With(t, d, x) == [t EXCEPT ![d] = x]

LEMMA TableWith ==
  ASSUME NEW t, IsTable(t), NEW d \in 0..Top, NEW x, Fits(d, x)
  PROVE  IsTable(With(t, d, x)) /\ With(t, d, x)[d] = x
         /\ \A e \in 0..Top : e # d => With(t, d, x)[e] = t[e]
<1> DEFINE u == With(t, d, x)
<1>1. t = [e \in 0..Top |-> t[e]]
  BY DEF IsTable
<1>2. u[d] = x /\ (\A e \in 0..Top : e # d => u[e] = t[e]) /\ u = [e \in 0..Top |-> u[e]]
  BY <1>1 DEF With
<1> HIDE DEF u
<1>3. User \subseteq 0..Top /\ High \subseteq 0..Top
  BY Descriptors
<1>4. \A e \in 0..Top : Desc(u[e])
  BY <1>2 DEF IsTable, Fits
<1>5. \A e \in User : u[e].cloexec = FALSE
  BY <1>2, <1>3 DEF IsTable, Fits
<1>6. \A e \in High : u[e] = Closed \/ u[e].cloexec = TRUE
  BY <1>2, <1>3 DEF IsTable, Fits
<1>7. IsTable(u)
  BY <1>2, <1>4, <1>5, <1>6 DEF IsTable
<1> QED BY <1>2, <1>7 DEF u

LEMMA LowestTells ==
  ASSUME NEW T, T \subseteq 0..Top, T # {}
  PROVE  Lowest(T) \in T
<1>1. \E x \in T : \A y \in T : x <= y
  <2>1. T \subseteq Nat
    OBVIOUS
  <2> QED BY <2>1, HasLeast
<1> QED BY <1>1 DEF Lowest

(* What is opened lands where it was wanted, and nowhere else.             *)
Lands(f, at, x, fd) == IF at = fd THEN With(f, at, x) ELSE close(dup2(With(f, at, x), at, fd), at)

LEMMA LandTells ==
  ASSUME NEW t, IsTable(t), NEW at \in 0..Top, t[at] = Closed, NEW fd \in User,
         NEW x, Desc(x), x.cloexec = FALSE
  PROVE  Lands(t, at, x, fd) = With(t, fd, x)
<1> DEFINE u == With(t, at, x)
<1>1. t = [e \in 0..Top |-> t[e]] /\ fd \in 0..Top
  BY Descriptors DEF IsTable
<1>2. CASE at = fd
  BY <1>2 DEF Lands
<1>3. CASE at # fd
  <2>0. u[at] = x /\ u = [t EXCEPT ![at] = x]
    BY <1>1 DEF With
  <2>d. [x EXCEPT !.cloexec = FALSE] = x
    BY DescTells
  <2>1. u[at] = x /\ [x EXCEPT !.cloexec = FALSE] = x
    BY <2>0, <2>d
  <2> HIDE DEF u
  <2>2. dup2(u, at, fd) = [u EXCEPT ![fd] = x]
    BY <1>3, <2>1 DEF dup2
  <2>3. close(dup2(u, at, fd), at) = [[u EXCEPT ![fd] = x] EXCEPT ![at] = Closed]
    BY <2>2 DEF close
  <2>4. [[[t EXCEPT ![at] = x] EXCEPT ![fd] = x] EXCEPT ![at] = Closed] = [t EXCEPT ![fd] = x]
    <3> DEFINE v == [[[t EXCEPT ![at] = x] EXCEPT ![fd] = x] EXCEPT ![at] = Closed]
               w == [t EXCEPT ![fd] = x]
    <3>1. v = [e \in 0..Top |-> v[e]] /\ w = [e \in 0..Top |-> w[e]]
      BY <1>1
    <3>2. \A e \in 0..Top : v[e] = w[e]
      BY <1>1, <1>3
    <3> HIDE DEF v, w
    <3>3. v = w
      BY <3>1, <3>2
    <3> QED BY <3>3 DEF v, w
  <2>5. close(dup2(u, at, fd), at) = With(t, fd, x)
    BY <2>0, <2>3, <2>4 DEF With
  <2> QED BY <1>3, <2>5 DEF Lands, u
<1> QED BY <1>2, <1>3

(* What applying redirections has come to, as a record. *)
Is(c, f, g, s, k, o, a, b) ==
  c = [fds |-> f, files |-> g, saved |-> s, keep |-> k, ok |-> o, fatal |-> a, sub |-> b]

LEMMA IsTells ==
  ASSUME NEW c, NEW f, NEW g, NEW s, NEW k, NEW o, NEW a, NEW b, Is(c, f, g, s, k, o, a, b)
  PROVE  /\ c.fds = f /\ c.files = g /\ c.saved = s /\ c.keep = k /\ c.ok = o /\ c.fatal = a /\ c.sub = b
         /\ \A w : Is([c EXCEPT !.ok = w], f, g, s, k, w, a, b)
         /\ \A w : Is([c EXCEPT !.fatal = w], f, g, s, k, o, w, b)
         /\ \A w : Is([c EXCEPT !.sub = w], f, g, s, k, o, a, w)
         /\ \A w : Is([c EXCEPT !.fds = w], w, g, s, k, o, a, b)
         /\ \A w : Is([c EXCEPT !.files = w], f, w, s, k, o, a, b)
         /\ \A w : Is([c EXCEPT !.saved = w], f, g, w, k, o, a, b)
         /\ \A w, v : Is([c EXCEPT !.saved = w, !.fds = v], v, g, w, k, o, a, b)
<1>1. c = [fds |-> f, files |-> g, saved |-> s, keep |-> k, ok |-> o, fatal |-> a, sub |-> b]
  BY DEF Is
<1>2. /\ \A w : [c EXCEPT !.ok = w] = [fds |-> f, files |-> g, saved |-> s, keep |-> k, ok |-> w, fatal |-> a, sub |-> b]
      /\ \A w : [c EXCEPT !.fatal = w] = [fds |-> f, files |-> g, saved |-> s, keep |-> k, ok |-> o, fatal |-> w, sub |-> b]
      /\ \A w : [c EXCEPT !.sub = w] = [fds |-> f, files |-> g, saved |-> s, keep |-> k, ok |-> o, fatal |-> a, sub |-> w]
  BY <1>1
<1>3. /\ \A w : [c EXCEPT !.fds = w] = [fds |-> w, files |-> g, saved |-> s, keep |-> k, ok |-> o, fatal |-> a, sub |-> b]
      /\ \A w : [c EXCEPT !.files = w] = [fds |-> f, files |-> w, saved |-> s, keep |-> k, ok |-> o, fatal |-> a, sub |-> b]
      /\ \A w : [c EXCEPT !.saved = w] = [fds |-> f, files |-> g, saved |-> w, keep |-> k, ok |-> o, fatal |-> a, sub |-> b]
  BY <1>1
<1>4. \A w, v : [c EXCEPT !.saved = w, !.fds = v]
                  = [fds |-> v, files |-> g, saved |-> w, keep |-> k, ok |-> o, fatal |-> a, sub |-> b]
  <2> TAKE w, v
  <2>1. [c EXCEPT !.saved = w] = [fds |-> f, files |-> g, saved |-> w, keep |-> k, ok |-> o, fatal |-> a, sub |-> b]
    BY <1>3
  <2>2. [[fds |-> f, files |-> g, saved |-> w, keep |-> k, ok |-> o, fatal |-> a, sub |-> b] EXCEPT !.fds = v]
          = [fds |-> v, files |-> g, saved |-> w, keep |-> k, ok |-> o, fatal |-> a, sub |-> b]
    OBVIOUS
  <2>3. [c EXCEPT !.saved = w, !.fds = v] = [[c EXCEPT !.saved = w] EXCEPT !.fds = v]
    OBVIOUS
  <2> QED BY <2>1, <2>2, <2>3
<1>5. c.fds = f /\ c.files = g /\ c.saved = s /\ c.keep = k /\ c.ok = o /\ c.fatal = a /\ c.sub = b
  BY <1>1
<1> QED BY <1>2, <1>3, <1>4, <1>5 DEF Is

(* A redirection that failed to expand has failed. *)
Shaped(c) ==
  \E f, g, s, k, b : \E o, a \in BOOLEAN : Is(c, f, g, s, k, o, a, b) /\ (a => ~o)

LEMMA FailedTells ==
  ASSUME NEW c, NEW f, NEW g, NEW s, NEW k, NEW o, NEW a, NEW b, Is(c, f, g, s, k, o, a, b)
  PROVE  /\ Is(Failed(c), f, g, s, k, FALSE, a, b)
         /\ Is([Failed(c) EXCEPT !.fatal = TRUE], f, g, s, k, FALSE, TRUE, b)
<1>1. \A w : Is([c EXCEPT !.ok = w], f, g, s, k, w, a, b)
  BY IsTells
<1>2. Is(Failed(c), f, g, s, k, FALSE, a, b)
  BY <1>1 DEF Failed
<1>3. \A w : Is([Failed(c) EXCEPT !.fatal = w], f, g, s, k, FALSE, w, b)
  <2> DEFINE d == Failed(c)
  <2> HIDE DEF d
  <2>1. Is(d, f, g, s, k, FALSE, a, b)
    BY <1>2 DEF d
  <2>2. \A w : Is([d EXCEPT !.fatal = w], f, g, s, k, FALSE, w, b)
    BY <2>1, IsTells
  <2> QED BY <2>2 DEF d
<1> QED BY <1>2, <1>3

(* Where a copy goes. *)
CopyAt(f) == Lowest(Free(f, SaveFrom))

(* A copy is made, or the descriptor was closed, or there is no room. *)
LEMMA SaveTells ==
  ASSUME NEW c, NEW f, NEW g, NEW s, NEW o, NEW a, NEW b, NEW fd, NEW keep,
         Is(c, f, g, s, keep, o, a, b)
  PROVE  \/ ~keep /\ Is(save_fd(c, fd), f, g, s, keep, o, a, b)
         \/ keep /\ f[fd] = Closed
              /\ Is(save_fd(c, fd), f, g, Append(s, [original |-> fd, copy |-> -1]), keep, o, a, b)
         \/ keep /\ Is(save_fd(c, fd), f, g, s, keep, FALSE, a, b)
         \/ /\ keep /\ f[fd] # Closed /\ Free(f, SaveFrom) # {}
            /\ Is(save_fd(c, fd), [f EXCEPT ![CopyAt(f)] = [f[fd] EXCEPT !.cloexec = TRUE]], g,
                  Append(s, [original |-> fd, copy |-> CopyAt(f)]), keep, o, a, b)
<1>1. c.fds = f /\ c.saved = s /\ c.keep = keep
  BY IsTells
<1>2. CASE ~keep
  BY <1>1, <1>2 DEF save_fd
<1>3. CASE keep /\ f[fd] = Closed
  <2>1. save_fd(c, fd) = [c EXCEPT !.saved = Append(s, [original |-> fd, copy |-> -1])]
    BY <1>1, <1>3 DEF save_fd
  <2>2. \A w : Is([c EXCEPT !.saved = w], f, g, w, keep, o, a, b)
    BY IsTells
  <2> QED BY <1>3, <2>1, <2>2
<1>4. CASE keep /\ f[fd] # Closed /\ Free(f, SaveFrom) = {}
  <2>1. save_fd(c, fd) = Failed(c)
    BY <1>1, <1>4 DEF save_fd
  <2>2. Is(Failed(c), f, g, s, keep, FALSE, a, b)
    BY FailedTells
  <2> QED BY <1>4, <2>1, <2>2
<1>5. CASE keep /\ f[fd] # Closed /\ Free(f, SaveFrom) # {}
  <2> DEFINE now == [f EXCEPT ![CopyAt(f)] = [f[fd] EXCEPT !.cloexec = TRUE]]
  <2>1. save_fd(c, fd) = [c EXCEPT !.saved = Append(s, [original |-> fd, copy |-> CopyAt(f)]), !.fds = now]
    BY <1>1, <1>5 DEF save_fd, CopyAt
  <2> DEFINE more == Append(s, [original |-> fd, copy |-> CopyAt(f)])
  <2> HIDE DEF now, more
  <2>2. Is([c EXCEPT !.saved = more, !.fds = now], now, g, more, keep, o, a, b)
    BY IsTells
  <2>3. save_fd(c, fd) = [c EXCEPT !.saved = more, !.fds = now]
    BY <2>1 DEF more
  <2>4. Is(save_fd(c, fd), now, g, more, keep, o, a, b)
    BY <2>2, <2>3
  <2> QED BY <1>5, <2>4 DEF now, more
<1> QED BY <1>2, <1>3, <1>4, <1>5

(* What a redirection does to the table f and the copies s: the previous      *)
(* descriptor is saved, and the new one put in its place.                  *)
SaveTo(f, s, keep, fd, f1, s1) ==
  \/ ~keep /\ f1 = f /\ s1 = s
  \/ keep /\ f[fd] = Closed /\ f1 = f /\ s1 = Append(s, [original |-> fd, copy |-> -1])
  \/ /\ keep /\ f[fd] # Closed /\ Free(f, SaveFrom) # {}
     /\ f1 = [f EXCEPT ![CopyAt(f)] = [f[fd] EXCEPT !.cloexec = TRUE]]
     /\ s1 = Append(s, [original |-> fd, copy |-> CopyAt(f)])

Moves(f1, fd, f2) ==
  \/ f2 = f1
  \/ f2 = close(f1, fd)
  \/ \E from \in 0..Top : f2 = dup2(f1, from, fd)
  \/ Free(f1, 0) # {} /\ \E file, mode : f2 = Lands(f1, Lowest(Free(f1, 0)), Open(file, mode), fd)

Redirects(f, s, keep, fd, f2, s2) ==
  \/ f2 = f /\ s2 = s
  \/ \E f1 : SaveTo(f, s, keep, fd, f1, s2) /\ Moves(f1, fd, f2)

LEMMA SavedTells ==
  ASSUME NEW c, NEW f, NEW g, NEW s, NEW o, NEW a, NEW b, NEW fd, NEW keep,
         Is(c, f, g, s, keep, o, a, b)
  PROVE  \/ Is(save_fd(c, fd), f, g, s, keep, FALSE, a, b)
         \/ \E f1, s1 : SaveTo(f, s, keep, fd, f1, s1) /\ Is(save_fd(c, fd), f1, g, s1, keep, o, a, b)
<1>1. CASE ~keep /\ Is(save_fd(c, fd), f, g, s, keep, o, a, b)
  <2>1. SaveTo(f, s, keep, fd, f, s)
    BY <1>1 DEF SaveTo
  <2> QED BY <1>1, <2>1
<1>2. CASE keep /\ f[fd] = Closed
              /\ Is(save_fd(c, fd), f, g, Append(s, [original |-> fd, copy |-> -1]), keep, o, a, b)
  <2>1. SaveTo(f, s, keep, fd, f, Append(s, [original |-> fd, copy |-> -1]))
    BY <1>2 DEF SaveTo
  <2> QED BY <1>2, <2>1
<1>3. CASE keep /\ Is(save_fd(c, fd), f, g, s, keep, FALSE, a, b)
  BY <1>3
<1>4. CASE /\ keep /\ f[fd] # Closed /\ Free(f, SaveFrom) # {}
           /\ Is(save_fd(c, fd), [f EXCEPT ![CopyAt(f)] = [f[fd] EXCEPT !.cloexec = TRUE]], g,
                 Append(s, [original |-> fd, copy |-> CopyAt(f)]), keep, o, a, b)
  <2>1. SaveTo(f, s, keep, fd, [f EXCEPT ![CopyAt(f)] = [f[fd] EXCEPT !.cloexec = TRUE]],
               Append(s, [original |-> fd, copy |-> CopyAt(f)]))
    BY <1>4 DEF SaveTo
  <2> QED BY <1>4, <2>1
<1>5. \/ ~keep /\ Is(save_fd(c, fd), f, g, s, keep, o, a, b)
      \/ keep /\ f[fd] = Closed
           /\ Is(save_fd(c, fd), f, g, Append(s, [original |-> fd, copy |-> -1]), keep, o, a, b)
      \/ keep /\ Is(save_fd(c, fd), f, g, s, keep, FALSE, a, b)
      \/ /\ keep /\ f[fd] # Closed /\ Free(f, SaveFrom) # {}
         /\ Is(save_fd(c, fd), [f EXCEPT ![CopyAt(f)] = [f[fd] EXCEPT !.cloexec = TRUE]], g,
               Append(s, [original |-> fd, copy |-> CopyAt(f)]), keep, o, a, b)
  BY SaveTells
<1> QED BY <1>1, <1>2, <1>3, <1>4, <1>5

(* One redirection on its own, when nothing has failed so far. *)
Redirected(c, f, s, keep, fd) ==
  \E f2, g2, s2, o2, a2, b2 :
     /\ Is(c, f2, g2, s2, keep, o2, a2, b2)
     /\ o2 \in BOOLEAN /\ a2 \in BOOLEAN /\ (a2 => ~o2)
     /\ Redirects(f, s, keep, fd, f2, s2)

LEMMA RedirectedIs ==
  ASSUME NEW c, NEW f, NEW s, NEW keep, NEW fd, NEW f2, NEW g2, NEW s2, NEW o2 \in BOOLEAN,
         NEW a2 \in BOOLEAN, NEW b2, Is(c, f2, g2, s2, keep, o2, a2, b2), (a2 => ~o2),
         Redirects(f, s, keep, fd, f2, s2)
  PROVE  Redirected(c, f, s, keep, fd)
BY DEF Redirected

(* A descriptor that was saved is moved. *)
LEMMA MovedTells ==
  ASSUME NEW c, NEW f, NEW g, NEW s, NEW keep, NEW a, NEW b, NEW f0, NEW s0, NEW fd,
         Is(c, f, g, s, keep, TRUE, a, b), a = FALSE, SaveTo(f0, s0, keep, fd, f, s), NEW r, r.fd = fd
  PROVE  /\ Redirected(c, f0, s0, keep, fd)
         /\ Redirected(Failed(c), f0, s0, keep, fd)
         /\ Redirected(Duplicated(c, r), f0, s0, keep, fd)
         /\ Free(f, 0) # {} => Redirected(Opened(c, r), f0, s0, keep, fd)
         /\ \A file, mode : Free(f, 0) # {} =>
               Redirected(Landed(c, [f EXCEPT ![Lowest(Free(f, 0))] = Open(file, mode)], Lowest(Free(f, 0)), fd),
                          f0, s0, keep, fd)
<1>0. \A f2 : Moves(f, fd, f2) => Redirects(f0, s0, keep, fd, f2, s)
  BY DEF Redirects
<1>m. Moves(f, fd, f) /\ Moves(f, fd, close(f, fd)) /\ \A from \in 0..Top : Moves(f, fd, dup2(f, from, fd))
  BY DEF Moves
<1>f. c.fds = f /\ c.files = g
  BY IsTells
<1>1. Redirected(c, f0, s0, keep, fd)
  BY <1>0, <1>m, RedirectedIs
<1>2. Redirected(Failed(c), f0, s0, keep, fd)
  <2>1. Is(Failed(c), f, g, s, keep, FALSE, a, b)
    BY FailedTells
  <2> QED BY <1>0, <1>m, <2>1, RedirectedIs
<1>3. \A w : Is([c EXCEPT !.fds = w], w, g, s, keep, TRUE, a, b)
  BY IsTells
<1>4. \A w : Moves(f, fd, w) => Redirected([c EXCEPT !.fds = w], f0, s0, keep, fd)
  BY <1>0, <1>3, RedirectedIs
<1>5. Redirected(Duplicated(c, r), f0, s0, keep, fd)
  <2>1. CASE r.name = "-"
    <3>1. Duplicated(c, r) = [c EXCEPT !.fds = close(f, fd)]
      BY <1>f, <2>1 DEF Duplicated
    <3> QED BY <3>1, <1>4, <1>m
  <2>2. CASE r.name # "-" /\ Duplicated(c, r) = Failed(c)
    BY <2>2, <1>2
  <2>3. CASE r.name # "-" /\ r.from \in 0..Top /\ Duplicated(c, r) = [c EXCEPT !.fds = dup2(f, r.from, fd)]
    BY <2>3, <1>4, <1>m
  <2> QED BY <1>f, <2>1, <2>2, <2>3 DEF Duplicated
<1>6. ASSUME NEW d, NEW h, Is(d, f, h, s, keep, TRUE, a, b), NEW file, NEW mode, Free(f, 0) # {}
      PROVE  Redirected(Landed(d, [f EXCEPT ![Lowest(Free(f, 0))] = Open(file, mode)], Lowest(Free(f, 0)), fd),
                        f0, s0, keep, fd)
  <2> DEFINE w == Lands(f, Lowest(Free(f, 0)), Open(file, mode), fd)
  <2>1. Moves(f, fd, w)
    BY <1>6 DEF Moves
  <2>2. Landed(d, [f EXCEPT ![Lowest(Free(f, 0))] = Open(file, mode)], Lowest(Free(f, 0)), fd) = [d EXCEPT !.fds = w]
    BY DEF Landed, Lands, With
  <2> HIDE DEF w
  <2>3. Is(d, f, h, s, keep, TRUE, a, b)
    BY <1>6
  <2>4. \A v : Is([d EXCEPT !.fds = v], v, h, s, keep, TRUE, a, b)
    BY <2>3, IsTells
  <2>5. Redirected([d EXCEPT !.fds = w], f0, s0, keep, fd)
    <3>1. Redirects(f0, s0, keep, fd, w, s)
      BY <1>0, <2>1
    <3> QED BY <2>4, <3>1, RedirectedIs
  <2> HIDE DEF Landed
  <2> QED BY <2>2, <2>5
<1>7. ASSUME Free(f, 0) # {} PROVE Redirected(Opened(c, r), f0, s0, keep, fd)
  <2> DEFINE h == [g EXCEPT ![r.name] = IF g[r.name] = "missing" THEN "regular" ELSE g[r.name]]
             d == [c EXCEPT !.files = h]
  <2>1. Opened(c, r) = Landed(d, [f EXCEPT ![Lowest(Free(f, 0))] = Open(r.name, ModeOf(r.op))], Lowest(Free(f, 0)), fd)
    BY <1>f DEF Opened
  <2> HIDE DEF h
  <2>2. Is(d, f, h, s, keep, TRUE, a, b)
    BY IsTells
  <2> HIDE DEF d
  <2> QED BY <1>6, <1>7, <2>1, <2>2
<1> QED BY <1>1, <1>2, <1>5, <1>6, <1>7

(* What holds of 0 and is handed on holds up to n. *)
LEMMA UpTo ==
  ASSUME NEW T, NEW n \in Nat, 0 \in T, \A i \in 0..(n - 1) : i \in T => i + 1 \in T
  PROVE  n \in T /\ \A i \in 0..n : i \in T
<1> DEFINE bad == {i \in 0..n : i \notin T}
<1>1. ASSUME bad # {} PROVE FALSE
  <2>1. PICK m \in bad : \A k \in bad : m <= k
    <3>1. bad \subseteq Nat
      OBVIOUS
    <3> HIDE DEF bad
    <3> QED BY <1>1, <3>1, HasLeast
  <2>2. m \in 0..n /\ m \notin T /\ m # 0 /\ m - 1 \in 0..(n - 1) /\ ~(m <= m - 1) /\ (m - 1) + 1 = m
    BY <2>1
  <2>3. m - 1 \in T
    BY <2>1, <2>2
  <2> QED BY <2>2, <2>3
<1> QED BY <1>1

(* One redirection, whatever becomes of it. *)
LEMMA RedirectedNextTells ==
  ASSUME NEW c, NEW f, NEW g, NEW s, NEW keep, NEW o \in BOOLEAN, NEW a \in BOOLEAN, NEW b,
         Is(c, f, g, s, keep, o, a, b), (a => ~o), NEW r
  PROVE  Redirected(RedirectedNext(c, r), f, s, keep, r.fd)
<1>0. Redirects(f, s, keep, r.fd, f, s)
  BY DEF Redirects
<1>1. CASE ~o
  <2>1. c.ok = FALSE
    <3>1. c.ok = o
      BY DEF Is
    <3> QED BY <1>1, <3>1
  <2>2. RedirectedNext(c, r) = c
    BY <2>1 DEF RedirectedNext
  <2> QED BY <2>2, <1>0, RedirectedIs
<1>2. CASE o
  <2>0. o = TRUE /\ a = FALSE /\ c.ok = TRUE /\ c.sub = b
    <3>1. c.ok = o /\ c.sub = b
      BY DEF Is
    <3> QED BY <1>2, <3>1
  <2>1. /\ Redirected(Failed(c), f, s, keep, r.fd)
        /\ Redirected([Failed(c) EXCEPT !.fatal = TRUE], f, s, keep, r.fd)
    <3>1. /\ Is(Failed(c), f, g, s, keep, FALSE, a, b)
          /\ Is([Failed(c) EXCEPT !.fatal = TRUE], f, g, s, keep, FALSE, TRUE, b)
      BY FailedTells
    <3> QED BY <1>0, <3>1, RedirectedIs
  <2> DEFINE e == [c EXCEPT !.sub = IF r.sub = NoSub THEN b ELSE r.sub]
             d == save_fd(e, r.fd)
             free == Free(d.fds, 0)
             here == Landed(d, [d.fds EXCEPT ![Lowest(free)] = Open("pipe", "r")], Lowest(free), r.fd)
  <2>2. PICK b1 : Is(e, f, g, s, keep, TRUE, FALSE, b1)
    <3>1. \A w : Is([c EXCEPT !.sub = w], f, g, s, keep, o, a, w)
      BY IsTells
    <3> QED BY <2>0, <3>1
  <2>3. /\ apply_redirection(c, r) = IF r.fails THEN [Failed(c) EXCEPT !.fatal = TRUE]
                                     ELSE IF ~d.ok THEN d
                                     ELSE IF r.op \in {"<&", ">&"} THEN Duplicated(d, r)
                                     ELSE IF Opens(d, r.op, r.name) THEN Opened(d, r)
                                     ELSE Failed(d)
        /\ apply_here_doc(c, r) = IF r.fails THEN Failed(c)
                                  ELSE IF ~d.ok \/ Cardinality(free) < 2 THEN Failed(d) ELSE here
    BY <2>0 DEF apply_redirection, apply_here_doc
  <2>4. RedirectedNext(c, r) = IF r.op = "<<" THEN apply_here_doc(c, r) ELSE apply_redirection(c, r)
    BY <2>0 DEF RedirectedNext
  <2> HIDE DEF e
  <2>5. CASE Is(d, f, g, s, keep, FALSE, FALSE, b1)
    <3>1. d.ok = FALSE /\ Is(Failed(d), f, g, s, keep, FALSE, FALSE, b1)
      <4> HIDE DEF d
      <4>1. Is(d, f, g, s, keep, FALSE, FALSE, b1)
        BY <2>5
      <4>2. d.ok = FALSE
        BY <4>1 DEF Is
      <4>3. Is(Failed(d), f, g, s, keep, FALSE, FALSE, b1)
        BY <4>1, FailedTells
      <4> QED BY <4>2, <4>3
    <3>2. Redirected(d, f, s, keep, r.fd) /\ Redirected(Failed(d), f, s, keep, r.fd)
      BY <1>0, <2>5, <3>1, RedirectedIs
    <3> HIDE DEF d, here, free
    <3> QED BY <2>1, <2>3, <2>4, <3>1, <3>2
  <2>6. ASSUME NEW f1, NEW s1, SaveTo(f, s, keep, r.fd, f1, s1), Is(d, f1, g, s1, keep, TRUE, FALSE, b1)
        PROVE  Redirected(RedirectedNext(c, r), f, s, keep, r.fd)
    <3> HIDE DEF d
    <3>a. Is(d, f1, g, s1, keep, TRUE, FALSE, b1)
      BY <2>6
    <3>0. d.ok = TRUE /\ d.fds = f1
      BY <3>a, IsTells
    <3>1. /\ Redirected(Failed(d), f, s, keep, r.fd)
          /\ Redirected(Duplicated(d, r), f, s, keep, r.fd)
          /\ Free(f1, 0) # {} => Redirected(Opened(d, r), f, s, keep, r.fd)
          /\ \A file, mode : Free(f1, 0) # {} =>
               Redirected(Landed(d, [f1 EXCEPT ![Lowest(Free(f1, 0))] = Open(file, mode)],
                                 Lowest(Free(f1, 0)), r.fd), f, s, keep, r.fd)
      BY <2>6, MovedTells
    <3>2. Cardinality(free) < 2 \/ Redirected(here, f, s, keep, r.fd)
      <4>1. CASE Free(f1, 0) = {}
        <5>1. Cardinality(free) = 0
          BY <4>1, <3>0, FS_EmptySet
        <5> QED BY <5>1
      <4>2. CASE Free(f1, 0) # {}
        BY <3>0, <3>1, <4>2
      <4> QED BY <4>1, <4>2
    <3>3. Opens(d, r.op, r.name) => Free(f1, 0) # {}
      BY <3>0 DEF Opens
    <3> HIDE DEF here, free
    <3> QED BY <2>1, <2>3, <2>4, <3>0, <3>1, <3>2, <3>3
  <2> QED
    <3> HIDE DEF d
    <3>1. \/ Is(d, f, g, s, keep, FALSE, FALSE, b1)
          \/ \E f1, s1 : SaveTo(f, s, keep, r.fd, f1, s1) /\ Is(d, f1, g, s1, keep, TRUE, FALSE, b1)
      BY <2>2, SavedTells DEF d
    <3> QED BY <2>5, <2>6, <3>1
<1> QED BY <1>1, <1>2

(* Redirections that failed to expand have failed. *)
LEMMA ShapedTells ==
  ASSUME NEW keep, NEW table, NEW f, NEW redirs, NEW subbed, Len(redirs) \in Nat
  PROVE  Shaped(apply_redirections(keep, table, f, redirs, subbed))
<1>1. PICK after : /\ after[0] = Applying(keep, table, f, subbed)
                   /\ \A i \in 1..Len(redirs) : after[i] = RedirectedNext(after[i - 1], redirs[i])
                   /\ apply_redirections(keep, table, f, redirs, subbed) = after[Len(redirs)]
  BY RedirectionsUnfold
<1> DEFINE T == {i \in 0..Len(redirs) : Shaped(after[i])}
<1>2. 0 \in T
  <2>1. Is(Applying(keep, table, f, subbed), table, f, <<>>, keep, TRUE, FALSE, subbed)
    BY DEF Is, Applying
  <2>2. Shaped(after[0])
    <3>1. Is(after[0], table, f, <<>>, keep, TRUE, FALSE, subbed) /\ (FALSE => ~TRUE)
      BY <1>1, <2>1
    <3> QED BY <3>1 DEF Shaped
  <2> QED BY <2>2
<1>3. ASSUME NEW i \in 0..(Len(redirs) - 1), i \in T PROVE i + 1 \in T
  <2>1. i + 1 \in 0..Len(redirs) /\ i + 1 \in 1..Len(redirs) /\ (i + 1) - 1 = i
    OBVIOUS
  <2>2. Shaped(after[i]) /\ after[i + 1] = RedirectedNext(after[i], redirs[i + 1])
    BY <1>1, <1>3, <2>1
  <2>3. PICK f1, g1, s1, k1, b1 : \E o1, a1 \in BOOLEAN : Is(after[i], f1, g1, s1, k1, o1, a1, b1) /\ (a1 => ~o1)
    BY <2>2 DEF Shaped
  <2>4. PICK o1 \in BOOLEAN, a1 \in BOOLEAN : Is(after[i], f1, g1, s1, k1, o1, a1, b1) /\ (a1 => ~o1)
    BY <2>3
  <2>5. Redirected(after[i + 1], f1, s1, k1, redirs[i + 1].fd)
    BY <2>2, <2>4, RedirectedNextTells
  <2> QED BY <2>1, <2>5 DEF Redirected, Shaped
<1>4. Len(redirs) \in T
  <2> HIDE DEF T
  <2> QED BY <1>2, <1>3, UpTo
<1> QED BY <1>1, <1>4

-----------------------------------------------------------------------------
(* What redirections leave can be undone.                                  *)

(* The table f can be put back, from the copies s, as it was. *)
Undoable(f, s, keep, table) ==
  /\ IsTable(f)
  /\ Owed(f, s)
  /\ Recalls(f, s, table)
  /\ \A d \in High : IF CopyIn(s, d) THEN table[d] = Closed ELSE f[d] = table[d]
  /\ ~keep => s = <<>>
  /\ keep => \A d \in User : ~SavesFd(s, d) => f[d] = table[d]

LEMMA NothingToUndo ==
  ASSUME NEW table, IsTable(table), NEW keep
  PROVE  Undoable(table, <<>>, keep, table)
<1>1. Len(<<>>) = 0 /\ <<>> \in Seq(SavedFds)
  OBVIOUS
<1>2. Owed(table, <<>>) /\ Recalls(table, <<>>, table)
  BY <1>1 DEF Owed, Recalls
<1>3. \A d : ~CopyIn(<<>>, d)
  BY <1>1 DEF CopyIn
<1> QED BY <1>2, <1>3 DEF Undoable

LEMMA OwedTells ==
  ASSUME NEW f, NEW s, Owed(f, s)
  PROVE  /\ s \in Seq(SavedFds) /\ IsList(s) /\ Len(s) \in Nat
         /\ \A k \in 1..Len(s) : /\ s[k].original \in User
                                 /\ s[k].copy = -1 \/ s[k].copy \in High
                                 /\ s[k].copy # -1 => s[k].copy \in High /\ f[s[k].copy] # Closed
         /\ \A k, l \in 1..Len(s) : s[k].copy # -1 /\ s[k].copy = s[l].copy => k = l
<1>1. s \in Seq(SavedFds)
  BY DEF Owed
<1>2. \A k \in 1..Len(s) : s[k] \in SavedFds
  BY <1>1
<1>3. IsList(s) /\ Len(s) \in Nat
  BY <1>1, ListOf
<1>4. \A x \in SavedFds : x.original \in User /\ (x.copy = -1 \/ x.copy \in High)
  BY DEF SavedFds
<1>5. \A k \in 1..Len(s) : s[k].original \in User /\ (s[k].copy = -1 \/ s[k].copy \in High)
  BY <1>2, <1>4
<1> QED BY <1>1, <1>3, <1>5 DEF Owed

(* One more is saved; the table is as it was on every descriptor that was     *)
(* owed or the user's.                                                    *)
OwesAt(f, s, keep, fd, copy, f1, s1) ==
  /\ keep
  /\ fd \in User /\ copy \in {-1} \cup High /\ IsTable(f1)
  /\ s1 = Append(s, [original |-> fd, copy |-> copy])
  /\ \A d \in 0..Top : d # copy => f1[d] = f[d]
  /\ copy = -1 => f[fd] = Closed
  /\ copy # -1 => f[copy] = Closed /\ f1[copy] # Closed /\ f1[copy] = [f[fd] EXCEPT !.cloexec = TRUE]

LEMMA OwesMore ==
  ASSUME NEW f, NEW s, NEW keep, NEW table, NEW fd, NEW copy, NEW f1, NEW s1,
         Undoable(f, s, keep, table), OwesAt(f, s, keep, fd, copy, f1, s1)
  PROVE  Undoable(f1, s1, keep, table) /\ SavesFd(s1, fd)
<1> DEFINE n == Len(s)
<1>a. /\ keep
      /\ fd \in User /\ copy \in {-1} \cup High /\ IsTable(f1)
      /\ s1 = Append(s, [original |-> fd, copy |-> copy])
      /\ \A d \in 0..Top : d # copy => f1[d] = f[d]
      /\ copy = -1 => f[fd] = Closed
      /\ copy # -1 => f[copy] = Closed /\ f1[copy] # Closed /\ f1[copy] = [f[fd] EXCEPT !.cloexec = TRUE]
  BY DEF OwesAt
<1>0. /\ Owed(f, s) /\ Recalls(f, s, table)
      /\ \A d \in High : IF CopyIn(s, d) THEN table[d] = Closed ELSE f[d] = table[d]
      /\ \A d \in User : ~SavesFd(s, d) => f[d] = table[d]
  BY <1>a DEF Undoable
<1>1. /\ s \in Seq(SavedFds) /\ IsList(s) /\ n \in Nat
      /\ \A k \in 1..n : /\ s[k].original \in User
                         /\ s[k].copy = -1 \/ s[k].copy \in High
                         /\ s[k].copy # -1 => s[k].copy \in High /\ f[s[k].copy] # Closed
      /\ \A k, l \in 1..n : s[k].copy # -1 /\ s[k].copy = s[l].copy => k = l
  BY <1>a, <1>0, OwedTells
<1>2. User \subseteq 0..Top /\ High \subseteq 0..Top /\ User \cap High = {} /\ -1 \notin High
  BY Descriptors
<1>3. /\ Len(s1) = n + 1 /\ \A k \in 1..n : s1[k] = s[k]
      /\ s1[n + 1] = [original |-> fd, copy |-> copy]
  BY <1>a, <1>1, Appended
<1>4. s1[n + 1].original = fd /\ s1[n + 1].copy = copy /\ n + 1 \in 1..Len(s1)
      /\ \A k \in 1..Len(s1) : k \in 1..n \/ k = n + 1
  BY <1>a, <1>1, <1>3
<1>5. s1 \in Seq(SavedFds)
  <2>1. [original |-> fd, copy |-> copy] \in SavedFds
    BY <1>a DEF SavedFds
  <2> QED BY <1>a, <1>1, <2>1
<1>6. \A k \in 1..n : s[k].copy # copy \/ copy = -1
  BY <1>a, <1>1
<1>7. Owed(f1, s1)
  <2>1. \A k \in 1..Len(s1) : s1[k].copy # -1 => f1[s1[k].copy] # Closed
    <3> TAKE k \in 1..Len(s1)
    <3>1. CASE k \in 1..n
      BY <1>a, <1>1, <1>2, <1>3, <1>6, <3>1
    <3>2. CASE k = n + 1
      BY <1>a, <1>4, <3>2
    <3> QED BY <1>a, <1>4, <3>1, <3>2
  <2>2. \A k, l \in 1..Len(s1) : s1[k].copy # -1 /\ s1[k].copy = s1[l].copy => k = l
    <3> SUFFICES ASSUME NEW k \in 1..Len(s1), NEW l \in 1..Len(s1), s1[k].copy # -1, s1[k].copy = s1[l].copy
                 PROVE  k = l
      OBVIOUS
    <3>1. CASE k \in 1..n /\ l \in 1..n
      BY <1>a, <1>1, <1>3, <3>1
    <3>2. CASE k = n + 1 \/ l = n + 1
      BY <1>a, <1>3, <1>4, <1>6, <3>2
    <3> QED BY <1>a, <1>4, <3>1, <3>2
  <2> QED BY <1>a, <1>5, <2>1, <2>2 DEF Owed
<1>8. Recalls(f1, s1, table)
  <2> SUFFICES ASSUME NEW k \in 1..Len(s1), First(s1, k)
               PROVE  IF s1[k].copy = -1 THEN table[s1[k].original] = Closed
                      ELSE f1[s1[k].copy] = [table[s1[k].original] EXCEPT !.cloexec = TRUE]
    BY DEF Recalls
  <2>1. CASE k \in 1..n
    <3>1. First(s, k)
      <4>1. \A l \in 1..(k - 1) : l \in 1..n
        BY <1>a, <1>1, <2>1
      <4> QED BY <1>a, <1>3, <2>1, <4>1 DEF First
    <3>2. IF s[k].copy = -1 THEN table[s[k].original] = Closed
          ELSE f[s[k].copy] = [table[s[k].original] EXCEPT !.cloexec = TRUE]
      BY <1>a, <1>0, <2>1, <3>1 DEF Recalls
    <3>3. s[k].copy # -1 => f1[s[k].copy] = f[s[k].copy]
      BY <1>a, <1>1, <1>2, <1>6, <2>1
    <3>4. s1[k] = s[k]
      BY <1>a, <1>3, <2>1
    <3> QED BY <1>a, <3>2, <3>3, <3>4
  <2>2. CASE k = n + 1
    <3>1. \A l \in 1..n : s[l].original # fd
      <4>1. \A l \in 1..n : l \in 1..(k - 1)
        BY <1>a, <1>1, <2>2
      <4> QED BY <1>a, <1>3, <1>4, <2>2, <4>1 DEF First
    <3>2. f[fd] = table[fd]
      BY <1>a, <1>0, <3>1 DEF SavesFd
    <3> QED BY <1>a, <1>4, <2>2, <3>2
  <2> QED BY <1>a, <1>4, <2>1, <2>2
<1>9. \A d \in High : IF CopyIn(s1, d) THEN table[d] = Closed ELSE f1[d] = table[d]
  <2> TAKE d \in High
  <2>1. CASE d = copy
    <3>1. ~CopyIn(s, d)
      <4>1. d # -1
        BY <1>a, <1>2
      <4> QED BY <1>a, <1>6, <2>1, <4>1 DEF CopyIn
    <3>2. f[d] = table[d] /\ f[d] = Closed
      BY <1>a, <1>0, <1>2, <2>1, <3>1
    <3>3. CopyIn(s1, d)
      BY <1>a, <1>4, <2>1 DEF CopyIn
    <3> QED BY <1>a, <3>2, <3>3
  <2>2. CASE d # copy
    <3>1. CopyIn(s1, d) <=> CopyIn(s, d)
      <4>1. CopyIn(s1, d) => CopyIn(s, d)
        BY <1>a, <1>3, <1>4, <2>2 DEF CopyIn
      <4>2. CopyIn(s, d) => CopyIn(s1, d)
        <5>1. \A k \in 1..n : k \in 1..Len(s1)
          BY <1>a, <1>1, <1>3
        <5> QED BY <1>a, <1>3, <5>1 DEF CopyIn
      <4> QED BY <1>a, <4>1, <4>2
    <3>2. f1[d] = f[d]
      BY <1>a, <1>2, <2>2
    <3> QED BY <1>a, <1>0, <3>1, <3>2
  <2> QED BY <1>a, <2>1, <2>2
<1>10. \A d \in User : ~SavesFd(s1, d) => f1[d] = table[d]
  <2> TAKE d \in User
  <2>1. SavesFd(s, d) => SavesFd(s1, d)
    <3>1. \A k \in 1..n : k \in 1..Len(s1)
      BY <1>a, <1>1, <1>3
    <3> QED BY <1>a, <1>3, <3>1 DEF SavesFd
  <2>2. d \in 0..Top /\ d # copy
    BY <1>a, <1>2, Descriptors DEF User
  <2> QED BY <1>a, <1>0, <2>1, <2>2
<1>11. SavesFd(s1, fd)
  BY <1>a, <1>4 DEF SavesFd
<1> QED BY <1>a, <1>7, <1>8, <1>9, <1>10, <1>11 DEF Undoable

LEMMA FreeTells ==
  ASSUME NEW f, NEW from \in Nat, Free(f, from) # {}
  PROVE  /\ Lowest(Free(f, from)) \in from..Top /\ Lowest(Free(f, from)) \in 0..Top
         /\ f[Lowest(Free(f, from))] = Closed
<1>1. Free(f, from) \subseteq 0..Top /\ Free(f, from) \subseteq from..Top
  BY Descriptors DEF Free
<1>2. Lowest(Free(f, from)) \in Free(f, from)
  BY <1>1, LowestTells
<1> QED BY <1>1, <1>2 DEF Free

LEMMA SavedKeeps ==
  ASSUME NEW f, NEW s, NEW keep, NEW table, NEW fd \in User, NEW f1, NEW s1,
         Undoable(f, s, keep, table), SaveTo(f, s, keep, fd, f1, s1)
  PROVE  Undoable(f1, s1, keep, table) /\ (keep => SavesFd(s1, fd))
<1>0. IsTable(f) /\ fd \in 0..Top /\ User \cap High = {} /\ -1 \notin High /\ High \subseteq 0..Top
  BY Descriptors DEF Undoable
<1>1. CASE ~keep
  BY <1>1 DEF SaveTo
<1>2. CASE keep /\ f[fd] = Closed /\ f1 = f /\ s1 = Append(s, [original |-> fd, copy |-> -1])
  <2>2. OwesAt(f, s, keep, fd, -1, f1, s1)
    BY <1>0, <1>2 DEF OwesAt
  <2>3. Undoable(f, s, keep, table)
    OBVIOUS
  <2>4. Undoable(f1, s1, keep, table) /\ SavesFd(s1, fd)
    BY <2>2, <2>3, OwesMore
  <2> QED BY <2>4
<1>3. CASE /\ keep /\ f[fd] # Closed /\ Free(f, SaveFrom) # {}
           /\ f1 = [f EXCEPT ![CopyAt(f)] = [f[fd] EXCEPT !.cloexec = TRUE]]
           /\ s1 = Append(s, [original |-> fd, copy |-> CopyAt(f)])
  <2> DEFINE at == CopyAt(f)
             x == [f[fd] EXCEPT !.cloexec = TRUE]
  <2>2. at \in High /\ f[at] = Closed
    BY <1>3, FreeTells, Descriptors DEF CopyAt, High
  <2>3. Desc(x) /\ x # Closed /\ x.cloexec = TRUE
    BY <1>0, TableTells, DescTells
  <2>4. f1 = With(f, at, x) /\ s1 = Append(s, [original |-> fd, copy |-> at])
    BY <1>3 DEF With
  <2>5. at \in 0..Top /\ at \notin User /\ at # -1
    BY <1>0, <2>2
  <2> HIDE DEF x, at
  <2>6. IsTable(f1) /\ f1[at] = x /\ \A d \in 0..Top : d # at => f1[d] = f[d]
    <3>1. Fits(at, x) /\ at \in 0..Top
      BY <2>3, <2>5 DEF Fits
    <3> QED BY <1>0, <2>4, <3>1, TableWith
  <2>7. x = [f[fd] EXCEPT !.cloexec = TRUE]
    BY DEF x
  <2>8. OwesAt(f, s, keep, fd, at, f1, s1)
    BY <1>3, <2>2, <2>3, <2>4, <2>5, <2>6, <2>7 DEF OwesAt
  <2>9. Undoable(f, s, keep, table)
    OBVIOUS
  <2>10. Undoable(f1, s1, keep, table) /\ SavesFd(s1, fd)
    BY <2>8, <2>9, OwesMore
  <2> QED BY <2>10
<1> QED BY <1>1, <1>2, <1>3 DEF SaveTo

(* A descriptor of the user that is saved, or need not be, may be changed. *)
LEMMA TouchKeeps ==
  ASSUME NEW f, NEW s, NEW keep, NEW table, NEW fd \in User, NEW x,
         Undoable(f, s, keep, table), (keep => SavesFd(s, fd)), Desc(x), x.cloexec = FALSE
  PROVE  Undoable(With(f, fd, x), s, keep, table)
<1> DEFINE f2 == With(f, fd, x)
<1>1. fd \in 0..Top /\ fd \notin High /\ High \subseteq 0..Top /\ User \subseteq 0..Top
  BY Descriptors
<1>2. Owed(f, s) /\ IsTable(f)
  BY DEF Undoable
<1>3. IsTable(f2) /\ \A e \in 0..Top : e # fd => f2[e] = f[e]
  <2>1. Fits(fd, x)
    BY <1>1 DEF Fits
  <2> QED BY <1>1, <1>2, <2>1, TableWith
<1> HIDE DEF f2
<1>4. /\ s \in Seq(SavedFds)
      /\ \A k \in 1..Len(s) : s[k].copy # -1 => f2[s[k].copy] = f[s[k].copy]
  <2>1. s \in Seq(SavedFds) /\ \A k \in 1..Len(s) : s[k].copy # -1 => s[k].copy \in High
    BY <1>2, OwedTells
  <2> QED BY <1>1, <1>3, <2>1
<1>5. Owed(f2, s)
  BY <1>2, <1>4 DEF Owed
<1>6. Recalls(f2, s, table)
  BY <1>4 DEF Undoable, Recalls
<1>7. \A d \in High : IF CopyIn(s, d) THEN table[d] = Closed ELSE f2[d] = table[d]
  BY <1>1, <1>3 DEF Undoable
<1>8. keep => \A d \in User : ~SavesFd(s, d) => f2[d] = table[d]
  BY <1>1, <1>3 DEF Undoable
<1>9. Undoable(f2, s, keep, table)
  BY <1>3, <1>5, <1>6, <1>7, <1>8 DEF Undoable
<1> QED BY <1>9 DEF f2

LEMMA MovedKeeps ==
  ASSUME NEW f, NEW s, NEW keep, NEW table, NEW fd \in User, NEW f2,
         Undoable(f, s, keep, table), (keep => SavesFd(s, fd)), Moves(f, fd, f2)
  PROVE  Undoable(f2, s, keep, table)
<1>0. IsTable(f) /\ fd \in 0..Top
  BY Descriptors DEF Undoable
<1>1. CASE f2 = f
  BY <1>1
<1>2. CASE f2 = close(f, fd)
  <2>1. f2 = With(f, fd, Closed)
    BY <1>2 DEF close, With
  <2> QED BY <2>1, ClosedTells, TouchKeeps
<1>3. ASSUME NEW from \in 0..Top, f2 = dup2(f, from, fd) PROVE Undoable(f2, s, keep, table)
  <2>1. CASE from = fd
    BY <1>3, <2>1 DEF dup2
  <2>2. CASE from # fd
    <3>1. Desc([f[from] EXCEPT !.cloexec = FALSE]) /\ [f[from] EXCEPT !.cloexec = FALSE].cloexec = FALSE
      BY <1>0, <1>3, TableTells, DescTells
    <3>2. f2 = With(f, fd, [f[from] EXCEPT !.cloexec = FALSE])
      BY <1>3, <2>2 DEF dup2, With
    <3> QED BY <3>1, <3>2, TouchKeeps
  <2> QED BY <2>1, <2>2
<1>4. ASSUME NEW file, NEW mode, Free(f, 0) # {}, f2 = Lands(f, Lowest(Free(f, 0)), Open(file, mode), fd)
      PROVE  Undoable(f2, s, keep, table)
  <2> DEFINE at == Lowest(Free(f, 0))
             x == Open(file, mode)
  <2>1. at \in 0..Top /\ f[at] = Closed
    BY <1>4, FreeTells
  <2>2. Desc(x) /\ x.cloexec = FALSE
    BY OpenTells
  <2>3. f2 = Lands(f, at, x, fd)
    BY <1>4
  <2> HIDE DEF at, x
  <2>4. f2 = With(f, fd, x)
    BY <1>0, <2>1, <2>2, <2>3, LandTells
  <2> QED BY <2>2, <2>4, TouchKeeps
<1> QED BY <1>1, <1>2, <1>3, <1>4 DEF Moves

LEMMA RedirectsKeeps ==
  ASSUME NEW f, NEW s, NEW keep, NEW table, NEW fd \in User, NEW f2, NEW s2,
         Undoable(f, s, keep, table), Redirects(f, s, keep, fd, f2, s2)
  PROVE  Undoable(f2, s2, keep, table)
<1>1. CASE f2 = f /\ s2 = s
  BY <1>1
<1>2. ASSUME NEW f1, SaveTo(f, s, keep, fd, f1, s2), Moves(f1, fd, f2)
      PROVE  Undoable(f2, s2, keep, table)
  <2>1. Undoable(f1, s2, keep, table) /\ (keep => SavesFd(s2, fd))
    BY <1>2, SavedKeeps
  <2> QED BY <1>2, <2>1, MovedKeeps
<1> QED BY <1>1, <1>2 DEF Redirects

(* What a command's redirections have come to. *)
Applied(c, keep, table) ==
  \E f, g, s, b : \E o, a \in BOOLEAN :
     Is(c, f, g, s, keep, o, a, b) /\ (a => ~o) /\ Undoable(f, s, keep, table)

LEMMA RedirectionsTell ==
  ASSUME NEW keep, NEW table, IsTable(table), NEW g0, NEW redirs, NEW subbed,
         Len(redirs) \in Nat, \A i \in 1..Len(redirs) : redirs[i].fd \in User
  PROVE  Applied(apply_redirections(keep, table, g0, redirs, subbed), keep, table)
<1>1. PICK after : /\ after[0] = Applying(keep, table, g0, subbed)
                   /\ \A i \in 1..Len(redirs) : after[i] = RedirectedNext(after[i - 1], redirs[i])
                   /\ apply_redirections(keep, table, g0, redirs, subbed) = after[Len(redirs)]
  BY RedirectionsUnfold
<1> DEFINE T == {i \in 0..Len(redirs) : Applied(after[i], keep, table)}
<1>2. 0 \in T
  <2>1. Is(Applying(keep, table, g0, subbed), table, g0, <<>>, keep, TRUE, FALSE, subbed)
    BY DEF Is, Applying
  <2>2. Is(after[0], table, g0, <<>>, keep, TRUE, FALSE, subbed) /\ (FALSE => ~TRUE)
    BY <1>1, <2>1
  <2>3. Undoable(table, <<>>, keep, table)
    BY NothingToUndo
  <2> HIDE DEF Undoable
  <2> DEFINE c == after[0]
  <2>4. /\ Is(c, table, g0, <<>>, keep, TRUE, FALSE, subbed) /\ (FALSE => ~TRUE)
        /\ Undoable(table, <<>>, keep, table)
    BY <2>2, <2>3
  <2> HIDE DEF c
  <2>5. Applied(c, keep, table)
    BY <2>4 DEF Applied
  <2> QED BY <2>5 DEF c
<1>3. ASSUME NEW i \in 0..(Len(redirs) - 1), i \in T PROVE i + 1 \in T
  <2>1. i + 1 \in 0..Len(redirs) /\ i + 1 \in 1..Len(redirs) /\ (i + 1) - 1 = i
    OBVIOUS
  <2>2. Applied(after[i], keep, table) /\ after[i + 1] = RedirectedNext(after[i], redirs[i + 1])
    BY <1>1, <1>3, <2>1
  <2>3. PICK f1, g1, s1, b1 : \E o1, a1 \in BOOLEAN :
           Is(after[i], f1, g1, s1, keep, o1, a1, b1) /\ (a1 => ~o1) /\ Undoable(f1, s1, keep, table)
    BY <2>2 DEF Applied
  <2>4. PICK o1 \in BOOLEAN, a1 \in BOOLEAN :
           Is(after[i], f1, g1, s1, keep, o1, a1, b1) /\ (a1 => ~o1) /\ Undoable(f1, s1, keep, table)
    BY <2>3
  <2> DEFINE r == redirs[i + 1]
             d == after[i + 1]
  <2>5. Redirected(d, f1, s1, keep, r.fd) /\ r.fd \in User
    BY <2>1, <2>2, <2>4, RedirectedNextTells
  <2> HIDE DEF r, d
  <2>6. PICK f2, g2, s2, o2, a2, b2 : /\ Is(d, f2, g2, s2, keep, o2, a2, b2)
                                      /\ o2 \in BOOLEAN /\ a2 \in BOOLEAN /\ (a2 => ~o2)
                                      /\ Redirects(f1, s1, keep, r.fd, f2, s2)
    BY <2>5 DEF Redirected
  <2>7. Undoable(f2, s2, keep, table)
    BY <2>4, <2>5, <2>6, RedirectsKeeps
  <2>8. Applied(d, keep, table)
    BY <2>6, <2>7 DEF Applied
  <2> QED BY <2>1, <2>8 DEF d
<1>4. Len(redirs) \in T
  <2> HIDE DEF T
  <2> QED BY <1>2, <1>3, UpTo
<1> QED BY <1>1, <1>4

LEMMA AppliedTells ==
  ASSUME NEW c, NEW keep, NEW table, Applied(c, keep, table)
  PROVE  Undoable(c.fds, c.saved, keep, table)
<1>1. PICK f, g, s, b : \E o, a \in BOOLEAN :
         Is(c, f, g, s, keep, o, a, b) /\ (a => ~o) /\ Undoable(f, s, keep, table)
  BY DEF Applied
<1>2. PICK o \in BOOLEAN, a \in BOOLEAN : Is(c, f, g, s, keep, o, a, b)
  BY <1>1
<1>3. c.fds = f /\ c.saved = s
  BY <1>2 DEF Is
<1> QED BY <1>1, <1>3

(* What a saved entry puts back, from the table f. *)
Recalled(f, e) == IF e.copy = -1 THEN Closed ELSE [f[e.copy] EXCEPT !.cloexec = FALSE]

(* The table u, when the entries from p on have been put back into f. *)
PutBackFrom(f, s, p, u) ==
  /\ IsTable(u)
  /\ \A d \in High : IF \E k \in p..Len(s) : s[k].copy = d THEN u[d] = Closed ELSE u[d] = f[d]
  /\ \A d \in User : (\A k \in p..Len(s) : s[k].original # d) => u[d] = f[d]
  /\ \A k \in p..Len(s) :
        (\A l \in p..(k - 1) : s[l].original # s[k].original) => u[s[k].original] = Recalled(f, s[k])

LEMMA PutBackTells ==
  ASSUME NEW t, IsTable(t), NEW e, e.original \in User, e.copy = -1 \/ e.copy \in High
  PROVE  /\ IsTable(PutBack(t, e))
         /\ PutBack(t, e)[e.original] = Recalled(t, e)
         /\ e.copy # -1 => PutBack(t, e)[e.copy] = Closed
         /\ \A d \in 0..Top : d # e.original /\ d # e.copy => PutBack(t, e)[d] = t[d]
<1> DEFINE fd == e.original
           copy == e.copy
           x == [t[copy] EXCEPT !.cloexec = FALSE]
<1>0. /\ fd \in 0..Top /\ fd \in User /\ fd \notin High /\ -1 \notin High /\ -1 \notin 0..Top
      /\ High \subseteq 0..Top /\ (copy = -1 \/ copy \in High)
  BY Descriptors
<1>1. CASE copy = -1
  <2>1. PutBack(t, e) = With(t, fd, Closed)
    BY <1>1 DEF PutBack, close, With
  <2>2. Fits(fd, Closed)
    BY <1>0, ClosedTells DEF Fits
  <2>3. /\ IsTable(With(t, fd, Closed)) /\ With(t, fd, Closed)[fd] = Closed
        /\ \A d \in 0..Top : d # fd => With(t, fd, Closed)[d] = t[d]
    BY <1>0, <2>2, TableWith
  <2>4. Recalled(t, e) = Closed
    BY <1>1 DEF Recalled
  <2> HIDE DEF fd, copy
  <2>5. /\ IsTable(PutBack(t, e)) /\ PutBack(t, e)[fd] = Recalled(t, e)
        /\ \A d \in 0..Top : d # fd /\ d # copy => PutBack(t, e)[d] = t[d]
    BY <2>1, <2>3, <2>4
  <2> QED BY <1>1, <2>5 DEF fd, copy
<1>2. CASE copy # -1
  <2>0. copy \in High /\ copy \in 0..Top /\ copy # fd /\ copy \notin User
    BY <1>0, <1>2, Descriptors
  <2>1. Desc(t[copy])
    BY <2>0, TableTells
  <2>2. Desc(x) /\ x.cloexec = FALSE
    BY <2>1, DescTells
  <2>3. Recalled(t, e) = x
    BY <1>2 DEF Recalled
  <2>4. PutBack(t, e) = With(With(t, fd, x), copy, Closed)
    BY <1>2, <2>0 DEF PutBack, close, dup2, With
  <2> DEFINE u == With(t, fd, x)
             v == With(u, copy, Closed)
  <2> HIDE DEF x, fd, copy
  <2>5. Fits(fd, x) /\ Fits(copy, Closed)
    BY <1>0, <2>0, <2>2, ClosedTells DEF Fits
  <2>6. IsTable(u) /\ u[fd] = x /\ \A d \in 0..Top : d # fd => u[d] = t[d]
    BY <1>0, <2>5, TableWith
  <2> HIDE DEF u
  <2>7. IsTable(v) /\ v[copy] = Closed /\ \A d \in 0..Top : d # copy => v[d] = u[d]
    BY <2>0, <2>5, <2>6, TableWith
  <2>8. PutBack(t, e) = v
    BY <2>4 DEF u
  <2> HIDE DEF v
  <2>9. /\ IsTable(v) /\ v[fd] = x /\ v[copy] = Closed
        /\ \A d \in 0..Top : d # fd /\ d # copy => v[d] = t[d]
    BY <1>0, <2>0, <2>6, <2>7
  <2>10. /\ IsTable(PutBack(t, e)) /\ PutBack(t, e)[fd] = Recalled(t, e)
         /\ PutBack(t, e)[copy] = Closed
         /\ \A d \in 0..Top : d # fd /\ d # copy => PutBack(t, e)[d] = t[d]
    BY <2>3, <2>8, <2>9
  <2> QED BY <2>10 DEF fd, copy
<1> QED BY <1>1, <1>2

LEMMA PutBackNext ==
  ASSUME NEW f, NEW s, Owed(f, s), NEW p \in 1..Len(s), NEW t, PutBackFrom(f, s, p + 1, t)
  PROVE  PutBackFrom(f, s, p, PutBack(t, s[p]))
<1> DEFINE n == Len(s)
           e == s[p]
           u == PutBack(t, e)
<1>0. /\ s \in Seq(SavedFds) /\ n \in Nat
      /\ \A k \in 1..n : /\ s[k].original \in User
                         /\ s[k].copy = -1 \/ s[k].copy \in High
                         /\ s[k].copy # -1 => s[k].copy \in High /\ f[s[k].copy] # Closed
      /\ \A k, l \in 1..n : s[k].copy # -1 /\ s[k].copy = s[l].copy => k = l
  BY OwedTells
<1>1. /\ IsTable(t) /\ e.original \in User /\ (e.copy = -1 \/ e.copy \in High)
  BY <1>0 DEF PutBackFrom
<1>2. /\ IsTable(u) /\ u[e.original] = Recalled(t, e)
      /\ e.copy # -1 => u[e.copy] = Closed
      /\ \A d \in 0..Top : d # e.original /\ d # e.copy => u[d] = t[d]
  BY <1>1, PutBackTells
<1>3. User \subseteq 0..Top /\ High \subseteq 0..Top /\ User \cap High = {} /\ -1 \notin High /\ -1 \notin User
  BY Descriptors DEF User
<1> HIDE DEF u
<1>4. /\ \A k \in p..n : k = p \/ k \in (p + 1)..n
      /\ \A k \in (p + 1)..n : k \in p..n /\ k \in 1..n /\ k # p
      /\ p \in p..n
  BY <1>0
<1>5. \A d \in High : IF \E k \in p..n : s[k].copy = d THEN u[d] = Closed ELSE u[d] = f[d]
  <2> TAKE d \in High
  <2>1. d \in 0..Top /\ d # -1 /\ d # e.original
    BY <1>1, <1>3
  <2>2. IF \E k \in (p + 1)..n : s[k].copy = d THEN t[d] = Closed ELSE t[d] = f[d]
    BY DEF PutBackFrom
  <2>3. CASE e.copy = d
    BY <1>2, <1>4, <2>1, <2>3
  <2>4. CASE e.copy # d
    <3>1. u[d] = t[d]
      BY <1>2, <2>1, <2>4
    <3>2. (\E k \in p..n : s[k].copy = d) <=> (\E k \in (p + 1)..n : s[k].copy = d)
      BY <1>4, <2>4
    <3> QED BY <2>2, <3>1, <3>2
  <2> QED BY <2>3, <2>4
<1>6. \A d \in User : (\A k \in p..n : s[k].original # d) => u[d] = f[d]
  <2> SUFFICES ASSUME NEW d \in User, \A k \in p..n : s[k].original # d PROVE u[d] = f[d]
    OBVIOUS
  <2>1. d \in 0..Top /\ d # e.original /\ d # e.copy
    BY <1>1, <1>3, <1>4
  <2>2. t[d] = f[d]
    BY <1>4 DEF PutBackFrom
  <2> QED BY <1>2, <2>1, <2>2
<1>7. ASSUME NEW k \in p..n, \A l \in p..(k - 1) : s[l].original # s[k].original
      PROVE  u[s[k].original] = Recalled(f, s[k])
  <2>1. CASE k = p
    <3>1. e.copy # -1 => t[e.copy] = f[e.copy]
      <4>1. e.copy # -1 => e.copy \in High /\ ~ \E l \in (p + 1)..n : s[l].copy = e.copy
        BY <1>0, <1>4
      <4> QED BY <4>1 DEF PutBackFrom
    <3>2. Recalled(t, e) = Recalled(f, e)
      BY <3>1 DEF Recalled
    <3> QED BY <1>2, <2>1, <3>2
  <2>2. CASE k # p
    <3>1. k \in (p + 1)..n /\ p \in p..(k - 1) /\ \A l \in (p + 1)..(k - 1) : l \in p..(k - 1)
      BY <1>0, <1>4, <2>2
    <3>2. t[s[k].original] = Recalled(f, s[k])
      BY <1>7, <3>1 DEF PutBackFrom
    <3>3. s[k].original \in 0..Top /\ s[k].original # e.original /\ s[k].original # e.copy
      <4>1. k \in 1..n /\ s[k].original \in User
        BY <1>0, <1>4, <3>1
      <4>2. s[p].original # s[k].original
        BY <1>7, <3>1
      <4>3. s[k].original # e.copy
        BY <1>1, <1>3, <4>1
      <4> QED BY <1>3, <4>1, <4>2, <4>3
    <3> QED BY <1>2, <3>2, <3>3
  <2> QED BY <2>1, <2>2
<1>8. PutBackFrom(f, s, p, u)
  BY <1>2, <1>5, <1>6, <1>7 DEF PutBackFrom
<1> QED BY <1>8 DEF u

(* restore_fds: every copy is closed, and every descriptor that was saved is  *)
(* what its first copy recalls. *)
LEMMA RestoreTells ==
  ASSUME NEW f, NEW s, IsTable(f), Owed(f, s)
  PROVE  PutBackFrom(f, s, 1, restore_fds(f, s))
<1> DEFINE n == Len(s)
<1>0. n \in Nat
  BY OwedTells
<1>1. PICK from : /\ from[n + 1] = f
                  /\ \A i \in 1..n : from[i] = PutBack(from[i + 1], s[i])
                  /\ restore_fds(f, s) = from[1]
  BY <1>0, RestoringUnfolds
<1> DEFINE T == {i \in 0..n : PutBackFrom(f, s, n + 1 - i, from[n + 1 - i])}
<1>2. 0 \in T
  <2>1. n + 1 - 0 = n + 1 /\ (n + 1)..n = {}
    BY <1>0
  <2>2. \A k : k \notin (n + 1)..n
    BY <2>1
  <2>3. PutBackFrom(f, s, n + 1, f)
    BY <2>2 DEF PutBackFrom
  <2> QED BY <1>0, <1>1, <2>1, <2>3
<1>3. ASSUME NEW i \in 0..(n - 1), i \in T PROVE i + 1 \in T
  <2> DEFINE p == n - i
  <2>1. p \in 1..n /\ p + 1 = n + 1 - i /\ n + 1 - (i + 1) = p /\ i + 1 \in 0..n
    BY <1>0
  <2> HIDE DEF p
  <2>2. PutBackFrom(f, s, p + 1, from[p + 1])
    BY <1>3, <2>1
  <2>3. from[p] = PutBack(from[p + 1], s[p])
    BY <1>1, <2>1
  <2>4. PutBackFrom(f, s, p, PutBack(from[p + 1], s[p]))
    BY <2>1, <2>2, PutBackNext
  <2>5. PutBackFrom(f, s, p, from[p])
    BY <2>3, <2>4
  <2> QED BY <2>1, <2>5
<1>4. n \in T
  <2> HIDE DEF T, n
  <2> QED BY <1>0, <1>2, <1>3, UpTo
<1>5. n + 1 - n = 1
  BY <1>0
<1> QED BY <1>1, <1>4, <1>5

(* What restore_fds makes of the table, by descriptor. *)
LEMMA RestoredTells ==
  ASSUME NEW f, NEW s, IsTable(f), Owed(f, s), NEW table, IsTable(table), Recalls(f, s, table)
  PROVE  /\ IsTable(restore_fds(f, s))
         /\ \A d \in High : IF CopyIn(s, d) THEN restore_fds(f, s)[d] = Closed ELSE restore_fds(f, s)[d] = f[d]
         /\ \A d \in User : restore_fds(f, s)[d] = IF SavesFd(s, d) THEN table[d] ELSE f[d]
<1> DEFINE u == restore_fds(f, s)
<1>1. PutBackFrom(f, s, 1, u)
  BY RestoreTells
<1> HIDE DEF u
<1>2. Len(s) \in Nat /\ \A k \in 1..Len(s) : s[k].original \in User
  BY OwedTells
<1>3. IsTable(u)
  BY <1>1 DEF PutBackFrom
<1>4. \A d \in High : IF CopyIn(s, d) THEN u[d] = Closed ELSE u[d] = f[d]
  BY <1>1 DEF PutBackFrom, CopyIn
<1>5. ASSUME NEW d \in User PROVE u[d] = IF SavesFd(s, d) THEN table[d] ELSE f[d]
  <2>1. CASE ~SavesFd(s, d)
    BY <1>1, <2>1 DEF PutBackFrom, SavesFd
  <2>2. CASE SavesFd(s, d)
    <3> DEFINE K == {k \in 1..Len(s) : s[k].original = d}
    <3>1. K \subseteq Nat /\ K # {}
      BY <2>2 DEF SavesFd
    <3>2. PICK k \in K : \A l \in K : k <= l
      <4> HIDE DEF K
      <4> QED BY <3>1, HasLeast
    <3>3. k \in 1..Len(s) /\ s[k].original = d /\ \A l \in 1..(k - 1) : s[l].original # s[k].original
      <4>1. k \in 1..Len(s) /\ s[k].original = d
        OBVIOUS
      <4>2. \A l \in 1..(k - 1) : l \in 1..Len(s) /\ ~(k <= l)
        BY <1>2, <4>1
      <4> QED BY <3>2, <4>1, <4>2
    <3>4. u[d] = Recalled(f, s[k])
      BY <1>1, <3>3 DEF PutBackFrom
    <3>5. IF s[k].copy = -1 THEN table[d] = Closed ELSE f[s[k].copy] = [table[d] EXCEPT !.cloexec = TRUE]
      BY <3>3 DEF Recalls, First
    <3>6. CASE s[k].copy = -1
      BY <2>2, <3>4, <3>5, <3>6 DEF Recalled
    <3>7. CASE s[k].copy # -1
      <4>1. Desc(table[d]) /\ table[d].cloexec = FALSE
        BY Descriptors, TableTells
      <4>2. [[table[d] EXCEPT !.cloexec = TRUE] EXCEPT !.cloexec = FALSE] = table[d]
        BY <4>1, DescTells
      <4>3. u[d] = [f[s[k].copy] EXCEPT !.cloexec = FALSE]
        BY <3>4, <3>7 DEF Recalled
      <4>4. f[s[k].copy] = [table[d] EXCEPT !.cloexec = TRUE]
        BY <3>5, <3>7
      <4>5. u[d] = table[d]
        BY <4>2, <4>3, <4>4
      <4> QED BY <2>2, <4>5
    <3> QED BY <3>6, <3>7
  <2> QED BY <2>1, <2>2
<1> QED BY <1>3, <1>4, <1>5 DEF u

(* Redirections that were applied and put back have changed no descriptor. *)
LEMMA RestoreUndoes ==
  ASSUME NEW f, NEW s, NEW table, IsTable(table), Undoable(f, s, TRUE, table)
  PROVE  restore_fds(f, s) = table
<1> DEFINE u == restore_fds(f, s)
<1>1. /\ IsTable(u)
      /\ \A d \in High : IF CopyIn(s, d) THEN u[d] = Closed ELSE u[d] = f[d]
      /\ \A d \in User : u[d] = IF SavesFd(s, d) THEN table[d] ELSE f[d]
  BY RestoredTells DEF Undoable
<1> HIDE DEF u
<1>2. /\ \A d \in High : IF CopyIn(s, d) THEN table[d] = Closed ELSE f[d] = table[d]
      /\ \A d \in User : ~SavesFd(s, d) => f[d] = table[d]
  BY DEF Undoable
<1>3. \A d \in 0..Top : u[d] = table[d]
  BY <1>1, <1>2, Descriptors
<1>4. u = [d \in 0..Top |-> u[d]] /\ table = [d \in 0..Top |-> table[d]]
  BY <1>1 DEF IsTable
<1>5. u = table
  BY <1>3, <1>4
<1> QED BY <1>5 DEF u

-----------------------------------------------------------------------------
(* The shell's tables, and what its builtins do to them.                   *)

Var(x) ==
  \E v : \E a, e, r \in BOOLEAN :
     x = [value |-> v, assigned |-> a, exported |-> e, readonly |-> r] /\ (~a => v = <<>>)
IsVars(vs) == vs = [n \in Names |-> vs[n]] /\ \A n \in Names : Var(vs[n])

Sh(s, vs, o, p, fu, al, op, cw, di, st) ==
  s = [vars |-> vs, offset |-> o, positional |-> p, functions |-> fu, aliases |-> al,
       options |-> op, cwd |-> cw, dirs |-> di, status |-> st]
(* A shell, and the functions it has. *)
IsShell(s, fu) == \E vs, o, p, al, op, cw, di, st : Sh(s, vs, o, p, fu, al, op, cw, di, st) /\ IsVars(vs)

LEMMA ShTells ==
  ASSUME NEW s, NEW vs, NEW o, NEW p, NEW fu, NEW al, NEW op, NEW cw, NEW di, NEW st,
         Sh(s, vs, o, p, fu, al, op, cw, di, st)
  PROVE  /\ s.vars = vs /\ s.offset = o /\ s.functions = fu
         /\ \A w, x : Sh([s EXCEPT !.vars = w, !.offset = x], w, x, p, fu, al, op, cw, di, st)
         /\ \A w : Sh([s EXCEPT !.vars = w], w, o, p, fu, al, op, cw, di, st)
         /\ \A w : Sh([s EXCEPT !.offset = w], vs, w, p, fu, al, op, cw, di, st)
         /\ \A w : Sh([s EXCEPT !.positional = w], vs, o, w, fu, al, op, cw, di, st)
         /\ \A w : Sh([s EXCEPT !.functions = w], vs, o, p, w, al, op, cw, di, st)
         /\ \A w : Sh([s EXCEPT !.aliases = w], vs, o, p, fu, w, op, cw, di, st)
         /\ \A w : Sh([s EXCEPT !.options = w], vs, o, p, fu, al, w, cw, di, st)
         /\ \A w : Sh([s EXCEPT !.cwd = w], vs, o, p, fu, al, op, w, di, st)
         /\ \A w : Sh([s EXCEPT !.dirs = w], vs, o, p, fu, al, op, cw, w, st)
         /\ \A w : Sh([s EXCEPT !.status = w], vs, o, p, fu, al, op, cw, di, w)
<1> DEFINE R(a, b, c, d, e, f, g, h, i) ==
             [vars |-> a, offset |-> b, positional |-> c, functions |-> d, aliases |-> e,
              options |-> f, cwd |-> g, dirs |-> h, status |-> i]
<1>1. s = R(vs, o, p, fu, al, op, cw, di, st)
  BY DEF Sh
<1>2. s.vars = vs /\ s.offset = o /\ s.functions = fu
  BY <1>1
<1>3. \A w : [s EXCEPT !.vars = w] = R(w, o, p, fu, al, op, cw, di, st)
  BY <1>1
<1>4. \A w : [s EXCEPT !.offset = w] = R(vs, w, p, fu, al, op, cw, di, st)
  BY <1>1
<1>5. \A w : [s EXCEPT !.positional = w] = R(vs, o, w, fu, al, op, cw, di, st)
  BY <1>1
<1>6. \A w : [s EXCEPT !.functions = w] = R(vs, o, p, w, al, op, cw, di, st)
  BY <1>1
<1>7. \A w : [s EXCEPT !.aliases = w] = R(vs, o, p, fu, w, op, cw, di, st)
  BY <1>1
<1>8. \A w : [s EXCEPT !.options = w] = R(vs, o, p, fu, al, w, cw, di, st)
  BY <1>1
<1>9. \A w : [s EXCEPT !.cwd = w] = R(vs, o, p, fu, al, op, w, di, st)
  BY <1>1
<1>10. \A w : [s EXCEPT !.dirs = w] = R(vs, o, p, fu, al, op, cw, w, st)
  BY <1>1
<1>11. \A w : [s EXCEPT !.status = w] = R(vs, o, p, fu, al, op, cw, di, w)
  BY <1>1
<1>12. \A w, x : [s EXCEPT !.vars = w, !.offset = x] = R(w, x, p, fu, al, op, cw, di, st)
  <2> TAKE w, x
  <2>1. [s EXCEPT !.vars = w, !.offset = x] = [[s EXCEPT !.vars = w] EXCEPT !.offset = x]
    OBVIOUS
  <2>2. [R(w, o, p, fu, al, op, cw, di, st) EXCEPT !.offset = x] = R(w, x, p, fu, al, op, cw, di, st)
    OBVIOUS
  <2> HIDE DEF R
  <2> QED BY <1>3, <2>1, <2>2
<1>13. /\ \A w, x : Sh([s EXCEPT !.vars = w, !.offset = x], w, x, p, fu, al, op, cw, di, st)
       /\ \A w : Sh([s EXCEPT !.vars = w], w, o, p, fu, al, op, cw, di, st)
       /\ \A w : Sh([s EXCEPT !.offset = w], vs, w, p, fu, al, op, cw, di, st)
       /\ \A w : Sh([s EXCEPT !.positional = w], vs, o, w, fu, al, op, cw, di, st)
  BY <1>3, <1>4, <1>5, <1>12 DEF Sh
<1>14. /\ \A w : Sh([s EXCEPT !.functions = w], vs, o, p, w, al, op, cw, di, st)
       /\ \A w : Sh([s EXCEPT !.aliases = w], vs, o, p, fu, w, op, cw, di, st)
       /\ \A w : Sh([s EXCEPT !.options = w], vs, o, p, fu, al, w, cw, di, st)
  BY <1>6, <1>7, <1>8 DEF Sh
<1>15. /\ \A w : Sh([s EXCEPT !.cwd = w], vs, o, p, fu, al, op, w, di, st)
       /\ \A w : Sh([s EXCEPT !.dirs = w], vs, o, p, fu, al, op, cw, w, st)
       /\ \A w : Sh([s EXCEPT !.status = w], vs, o, p, fu, al, op, cw, di, w)
  BY <1>9, <1>10, <1>11 DEF Sh
<1> QED BY <1>2, <1>13, <1>14, <1>15

LEMMA IsShellIs ==
  ASSUME NEW s, NEW vs, NEW o, NEW p, NEW fu, NEW al, NEW op, NEW cw, NEW di, NEW st,
         Sh(s, vs, o, p, fu, al, op, cw, di, st), IsVars(vs)
  PROVE  IsShell(s, fu) /\ s.vars = vs
<1>1. s.vars = vs
  BY ShTells
<1>2. IsShell(s, fu)
  BY DEF IsShell
<1> QED BY <1>1, <1>2

(* What is no variable leaves them alone. *)
LEMMA ShellWith ==
  ASSUME NEW s, NEW fu, IsShell(s, fu), NEW w
  PROVE  /\ IsVars(s.vars) /\ s.functions = fu
         /\ IsShell([s EXCEPT !.offset = w], fu) /\ [s EXCEPT !.offset = w].vars = s.vars
         /\ IsShell([s EXCEPT !.positional = w], fu) /\ [s EXCEPT !.positional = w].vars = s.vars
         /\ IsShell([s EXCEPT !.functions = w], w) /\ [s EXCEPT !.functions = w].vars = s.vars
         /\ IsShell([s EXCEPT !.aliases = w], fu) /\ [s EXCEPT !.aliases = w].vars = s.vars
         /\ IsShell([s EXCEPT !.options = w], fu) /\ [s EXCEPT !.options = w].vars = s.vars
         /\ IsShell([s EXCEPT !.cwd = w], fu) /\ [s EXCEPT !.cwd = w].vars = s.vars
         /\ IsShell([s EXCEPT !.dirs = w], fu) /\ [s EXCEPT !.dirs = w].vars = s.vars
         /\ IsShell([s EXCEPT !.status = w], fu) /\ [s EXCEPT !.status = w].vars = s.vars
<1>1. PICK vs, o, p, al, op, cw, di, st : Sh(s, vs, o, p, fu, al, op, cw, di, st) /\ IsVars(vs)
  BY DEF IsShell
<1>2. \A t, v, o1, p1, fu1, al1, op1, cw1, di1, st1 :
         Sh(t, v, o1, p1, fu1, al1, op1, cw1, di1, st1) /\ IsVars(v) => IsShell(t, fu1) /\ t.vars = v
  BY IsShellIs
<1>3. s.vars = vs /\ s.functions = fu
  BY <1>1, ShTells
<1>4. /\ Sh([s EXCEPT !.offset = w], vs, w, p, fu, al, op, cw, di, st)
      /\ Sh([s EXCEPT !.positional = w], vs, o, w, fu, al, op, cw, di, st)
      /\ Sh([s EXCEPT !.functions = w], vs, o, p, w, al, op, cw, di, st)
      /\ Sh([s EXCEPT !.aliases = w], vs, o, p, fu, w, op, cw, di, st)
      /\ Sh([s EXCEPT !.options = w], vs, o, p, fu, al, w, cw, di, st)
      /\ Sh([s EXCEPT !.cwd = w], vs, o, p, fu, al, op, w, di, st)
      /\ Sh([s EXCEPT !.dirs = w], vs, o, p, fu, al, op, cw, w, st)
      /\ Sh([s EXCEPT !.status = w], vs, o, p, fu, al, op, cw, di, w)
  BY <1>1, ShTells
<1>5. IsShell([s EXCEPT !.offset = w], fu) /\ [s EXCEPT !.offset = w].vars = s.vars
  BY <1>1, <1>2, <1>3, <1>4
<1>6. IsShell([s EXCEPT !.positional = w], fu) /\ [s EXCEPT !.positional = w].vars = s.vars
  BY <1>1, <1>2, <1>3, <1>4
<1>7. IsShell([s EXCEPT !.functions = w], w) /\ [s EXCEPT !.functions = w].vars = s.vars
  BY <1>1, <1>2, <1>3, <1>4
<1>8. IsShell([s EXCEPT !.aliases = w], fu) /\ [s EXCEPT !.aliases = w].vars = s.vars
  BY <1>1, <1>2, <1>3, <1>4
<1>9. IsShell([s EXCEPT !.options = w], fu) /\ [s EXCEPT !.options = w].vars = s.vars
  BY <1>1, <1>2, <1>3, <1>4
<1>10. IsShell([s EXCEPT !.cwd = w], fu) /\ [s EXCEPT !.cwd = w].vars = s.vars
  BY <1>1, <1>2, <1>3, <1>4
<1>11. IsShell([s EXCEPT !.dirs = w], fu) /\ [s EXCEPT !.dirs = w].vars = s.vars
  BY <1>1, <1>2, <1>3, <1>4
<1>12. IsShell([s EXCEPT !.status = w], fu) /\ [s EXCEPT !.status = w].vars = s.vars
  BY <1>1, <1>2, <1>3, <1>4
<1> QED BY <1>1, <1>3, <1>5, <1>6, <1>7, <1>8, <1>9, <1>10, <1>11, <1>12

LEMMA VarTells ==
  ASSUME NEW x, Var(x)
  PROVE  /\ x.assigned \in BOOLEAN /\ x.readonly \in BOOLEAN /\ x.exported \in BOOLEAN
         /\ ~x.assigned => x.value = <<>>
         /\ \A b \in BOOLEAN :
               /\ Var([x EXCEPT !.exported = b]) /\ Var([x EXCEPT !.readonly = b])
               /\ [x EXCEPT !.exported = b].readonly = x.readonly
               /\ [x EXCEPT !.exported = b].assigned = x.assigned
               /\ [x EXCEPT !.exported = b].value = x.value
               /\ [x EXCEPT !.readonly = b].readonly = b
<1>1. PICK v : \E a, e, r \in BOOLEAN :
         x = [value |-> v, assigned |-> a, exported |-> e, readonly |-> r] /\ (~a => v = <<>>)
  BY DEF Var
<1>2. PICK a \in BOOLEAN, e \in BOOLEAN, r \in BOOLEAN :
         x = [value |-> v, assigned |-> a, exported |-> e, readonly |-> r] /\ (~a => v = <<>>)
  BY <1>1
<1>3. x.value = v /\ x.assigned = a /\ x.exported = e /\ x.readonly = r
  BY <1>2
<1>4. ASSUME NEW b \in BOOLEAN
      PROVE  /\ Var([x EXCEPT !.exported = b])
             /\ [x EXCEPT !.exported = b].readonly = x.readonly
             /\ [x EXCEPT !.exported = b].assigned = x.assigned
             /\ [x EXCEPT !.exported = b].value = x.value
  <2> DEFINE y == [x EXCEPT !.exported = b]
  <2>1. y = [value |-> v, assigned |-> a, exported |-> b, readonly |-> r]
    BY <1>2
  <2> HIDE DEF y
  <2>2. Var(y)
    BY <1>2, <2>1 DEF Var
  <2>3. y.readonly = r /\ y.assigned = a /\ y.value = v
    BY <2>1
  <2>4. Var(y) /\ y.readonly = x.readonly /\ y.assigned = x.assigned /\ y.value = x.value
    BY <1>3, <2>2, <2>3
  <2> QED BY <2>4 DEF y
<1>5. ASSUME NEW b \in BOOLEAN
      PROVE  Var([x EXCEPT !.readonly = b]) /\ [x EXCEPT !.readonly = b].readonly = b
  <2> DEFINE y == [x EXCEPT !.readonly = b]
  <2>1. y = [value |-> v, assigned |-> a, exported |-> e, readonly |-> b]
    BY <1>2
  <2> HIDE DEF y
  <2>2. Var(y)
    BY <1>2, <2>1 DEF Var
  <2>3. y.readonly = b
    BY <2>1
  <2> QED BY <2>2, <2>3 DEF y
<1> QED BY <1>2, <1>3, <1>4, <1>5

LEMMA AssignedTells ==
  ASSUME NEW v, NEW b \in BOOLEAN
  PROVE  /\ Var(Assigned(v, b)) /\ Assigned(v, b).value = v /\ Assigned(v, b).assigned = TRUE
         /\ Assigned(v, b).readonly = FALSE
         /\ Var(Absent) /\ Absent.value = <<>> /\ Absent.assigned = FALSE /\ Absent.readonly = FALSE
BY DEF Var, Assigned, Absent

LEMMA VarsWith ==
  ASSUME NEW vs, IsVars(vs), NEW n, NEW x, (n \in Names => Var(x))
  PROVE  /\ IsVars(With(vs, n, x))
         /\ n \in Names => With(vs, n, x)[n] = x
         /\ \A m \in Names : m # n => With(vs, n, x)[m] = vs[m]
<1> DEFINE u == With(vs, n, x)
<1>1. vs = [m \in Names |-> vs[m]]
  BY DEF IsVars
<1>2. /\ u = [m \in Names |-> u[m]] /\ (n \in Names => u[n] = x)
      /\ \A m \in Names : m # n => u[m] = vs[m]
  BY <1>1 DEF With
<1> HIDE DEF u
<1>3. \A m \in Names : Var(u[m])
  BY <1>2 DEF IsVars
<1>4. IsVars(u)
  BY <1>2, <1>3 DEF IsVars
<1> QED BY <1>2, <1>4 DEF u

(* t is s with nothing changed but the variable n, and that not if it was     *)
(* readonly.                                                              *)
Changes(s, t, n, fu) ==
  /\ IsShell(t, fu)
  /\ \A m \in Names : m # n => t.vars[m] = s.vars[m]
  /\ n \in Names /\ s.vars[n].readonly => t.vars[n] = s.vars[n]

SetVars(s, w) == [s EXCEPT !.vars = w]
SetBoth(s, w, off) == [s EXCEPT !.vars = w, !.offset = off]

LEMMA VarsChange ==
  ASSUME NEW s, NEW fu, IsShell(s, fu), NEW w, IsVars(w)
  PROVE  IsShell(SetVars(s, w), fu) /\ SetVars(s, w).vars = w
<1>1. PICK vs, o, p, al, op, cw, di, st : Sh(s, vs, o, p, fu, al, op, cw, di, st)
  BY DEF IsShell
<1>2. \A v : Sh([s EXCEPT !.vars = v], v, o, p, fu, al, op, cw, di, st)
  BY <1>1, ShTells
<1>3. Sh(SetVars(s, w), w, o, p, fu, al, op, cw, di, st)
  BY <1>2 DEF SetVars
<1> QED BY <1>3, IsShellIs

LEMMA TwoChange ==
  ASSUME NEW s, NEW fu, IsShell(s, fu), NEW w, IsVars(w), NEW off
  PROVE  IsShell(SetBoth(s, w, off), fu) /\ SetBoth(s, w, off).vars = w
<1> DEFINE t == SetVars(s, w)
<1>1. SetBoth(s, w, off) = [t EXCEPT !.offset = off]
  BY DEF SetVars, SetBoth
<1> HIDE DEF t
<1>3. IsShell(t, fu) /\ t.vars = w
  BY VarsChange DEF t
<1>4. IsShell([t EXCEPT !.offset = off], fu) /\ [t EXCEPT !.offset = off].vars = w
  BY <1>3, ShellWith
<1> QED BY <1>1, <1>4

(* The variable n was written, if it could be. *)
Takes(s, t, n, v) ==
  n \in Names /\ ~s.vars[n].readonly =>
     t.vars[n].assigned = TRUE /\ t.vars[n].value = v /\ t.vars[n].readonly = FALSE

LEMMA SetTells ==
  ASSUME NEW s, NEW fu, IsShell(s, fu), NEW n, NEW v
  PROVE  /\ Changes(s, set(s, n, v), n, fu)
         /\ Takes(s, set(s, n, v), n, v)
<1> DEFINE b == s.vars[n].exported \/ "allexport" \in s.options
           x == Assigned(v, b)
           w == With(s.vars, n, x)
           off == IF n = "OPTIND" THEN 0 ELSE s.offset
           t == set(s, n, v)
<1>0. IsVars(s.vars)
  BY ShellWith
<1>1. b \in BOOLEAN
  OBVIOUS
<1>2. CASE s.vars[n].readonly
  <2>1. t = s
    BY <1>2 DEF set, is_readonly
  <2> HIDE DEF t
  <2> QED BY <1>2, <2>1 DEF Changes, Takes, t
<1>3. CASE ~s.vars[n].readonly
  <2>1. t = SetBoth(s, w, off)
    BY <1>3 DEF set, is_readonly, With, SetBoth
  <2> HIDE DEF b
  <2>2. Var(x) /\ x.value = v /\ x.assigned = TRUE /\ x.readonly = FALSE
    BY <1>1, AssignedTells
  <2> HIDE DEF x
  <2>3. /\ IsVars(w) /\ (n \in Names => w[n] = x) /\ \A m \in Names : m # n => w[m] = s.vars[m]
    BY <1>0, <2>2, VarsWith
  <2> HIDE DEF w, off
  <2>4. IsShell(SetBoth(s, w, off), fu) /\ SetBoth(s, w, off).vars = w
    BY <2>3, TwoChange
  <2> HIDE DEF t
  <2>5. IsShell(t, fu) /\ t.vars = w
    BY <2>1, <2>4
  <2>6. Changes(s, t, n, fu)
    BY <1>3, <2>3, <2>5 DEF Changes
  <2>7. Takes(s, t, n, v)
    BY <2>2, <2>3, <2>5 DEF Takes
  <2> QED BY <2>6, <2>7 DEF t
<1> QED BY <1>2, <1>3

LEMMA UnsetTells ==
  ASSUME NEW s, NEW fu, IsShell(s, fu), NEW n
  PROVE  /\ Changes(s, unset(s, n), n, fu)
         /\ n \in Names /\ ~s.vars[n].readonly => unset(s, n).vars[n] = Absent
<1> DEFINE w == With(s.vars, n, Absent)
           off == IF n = "OPTIND" THEN 0 ELSE s.offset
           t == unset(s, n)
<1>0. IsVars(s.vars)
  BY ShellWith
<1>2. CASE s.vars[n].readonly
  <2>1. t = s
    BY <1>2 DEF unset, is_readonly
  <2> HIDE DEF t
  <2> QED BY <1>2, <2>1 DEF Changes, t
<1>3. CASE ~s.vars[n].readonly
  <2>1. t = SetBoth(s, w, off)
    BY <1>3 DEF unset, is_readonly, With, SetBoth
  <2>2. Var(Absent)
    BY AssignedTells
  <2>3. /\ IsVars(w) /\ (n \in Names => w[n] = Absent) /\ \A m \in Names : m # n => w[m] = s.vars[m]
    BY <1>0, <2>2, VarsWith
  <2> HIDE DEF w, off
  <2>4. IsShell(SetBoth(s, w, off), fu) /\ SetBoth(s, w, off).vars = w
    BY <2>3, TwoChange
  <2> HIDE DEF t
  <2>5. IsShell(t, fu) /\ t.vars = w
    BY <2>1, <2>4
  <2>6. Changes(s, t, n, fu)
    BY <1>3, <2>3, <2>5 DEF Changes
  <2> QED BY <2>3, <2>5, <2>6 DEF t
<1> QED BY <1>2, <1>3

(* An attribute is set on one variable. *)
LEMMA MarkTells ==
  ASSUME NEW s, NEW fu, IsShell(s, fu), NEW n
  PROVE  /\ IsShell(mark_exported(s, n), fu) /\ IsShell(mark_readonly(s, n), fu)
         /\ \A m \in Names : m # n => mark_exported(s, n).vars[m] = s.vars[m]
         /\ \A m \in Names : m # n => mark_readonly(s, n).vars[m] = s.vars[m]
<1>0. IsVars(s.vars) /\ (n \in Names => Var(s.vars[n]))
  BY ShellWith DEF IsVars
<1> DEFINE x == [s.vars[n] EXCEPT !.exported = TRUE]
           y == [s.vars[n] EXCEPT !.readonly = TRUE]
           w == With(s.vars, n, x)
           u == With(s.vars, n, y)
<1>1. n \in Names => Var(x) /\ Var(y)
  BY <1>0, VarTells
<1>2. mark_exported(s, n) = SetVars(s, w) /\ mark_readonly(s, n) = SetVars(s, u)
  BY DEF mark_exported, mark_readonly, With, SetVars
<1> HIDE DEF x, y
<1>3. /\ IsVars(w) /\ \A m \in Names : m # n => w[m] = s.vars[m]
      /\ IsVars(u) /\ \A m \in Names : m # n => u[m] = s.vars[m]
  BY <1>0, <1>1, VarsWith
<1> HIDE DEF w, u
<1>4. /\ IsShell(SetVars(s, w), fu) /\ SetVars(s, w).vars = w
      /\ IsShell(SetVars(s, u), fu) /\ SetVars(s, u).vars = u
  BY <1>3, VarsChange
<1> QED BY <1>2, <1>3, <1>4

LEMMA SetExportedTells ==
  ASSUME NEW s, NEW fu, IsShell(s, fu), NEW n, NEW v
  PROVE  IsShell(set_exported(s, n, v), fu)
<1>1. CASE is_readonly(s, n)
  BY <1>1 DEF set_exported
<1>2. CASE ~is_readonly(s, n)
  <2>1. set_exported(s, n, v) = mark_exported(set(s, n, v), n)
    BY <1>2 DEF set_exported, mark_exported
  <2>2. IsShell(set(s, n, v), fu)
    BY SetTells DEF Changes
  <2> QED BY <2>1, <2>2, MarkTells
<1> QED BY <1>1, <1>2

LEMMA SetOptindTells ==
  ASSUME NEW s, NEW fu, IsShell(s, fu), NEW index, NEW offset
  PROVE  IsShell(set_optind(s, index, offset), fu)
<1>1. CASE is_readonly(s, "OPTIND")
  BY <1>1 DEF set_optind
<1>2. CASE ~is_readonly(s, "OPTIND")
  <2>1. IsShell(set(s, "OPTIND", Numeral(index)), fu)
    BY SetTells DEF Changes
  <2> DEFINE t == set(s, "OPTIND", Numeral(index))
  <2>2. set_optind(s, index, offset) = [t EXCEPT !.offset = offset]
    BY <1>2 DEF set_optind
  <2> HIDE DEF t
  <2>3. IsShell([t EXCEPT !.offset = offset], fu)
    BY <2>1, ShellWith DEF t
  <2> QED BY <2>2, <2>3
<1> QED BY <1>1, <1>2

-----------------------------------------------------------------------------
(* The builtins leave a shell, with the functions it had.                  *)

LEMMA DoneTells ==
  ASSUME NEW s, NEW n
  PROVE  Done(s, n).sh = s /\ Done(s, n).status = n
BY DEF Done

AreWrites(writes) ==
  Len(writes) \in Nat /\ \A i \in 1..Len(writes) : writes[i].do \in {"set", "unset", "optind"}

LEMMA WrittenTells ==
  ASSUME NEW s, NEW fu, IsShell(s, fu), NEW writes, AreWrites(writes)
  PROVE  IsShell(Written(s, writes).sh, fu)
<1>1. PICK after : /\ after[0] = [sh |-> s, refused |-> FALSE]
                   /\ \A i \in 1..Len(writes) : after[i] = Wrote(after[i - 1], writes[i])
                   /\ Written(s, writes) = after[Len(writes)]
  BY WrittenUnfolds DEF AreWrites
<1> DEFINE T == {i \in 0..Len(writes) : IsShell(after[i].sh, fu)}
<1>2. 0 \in T
  <2>1. after[0].sh = s
    BY <1>1
  <2> QED BY <2>1 DEF AreWrites
<1>3. ASSUME NEW i \in 0..(Len(writes) - 1), i \in T PROVE i + 1 \in T
  <2>1. i + 1 \in 0..Len(writes) /\ i + 1 \in 1..Len(writes) /\ (i + 1) - 1 = i
    BY DEF AreWrites
  <2> DEFINE b == after[i].sh
             w == writes[i + 1]
  <2>2. IsShell(b, fu) /\ after[i + 1] = Wrote(after[i], w) /\ w.do \in {"set", "unset", "optind"}
    BY <1>1, <1>3, <2>1 DEF AreWrites
  <2>3. after[i + 1].sh = CASE w.do = "set" -> set(b, w.name, w.value)
                            [] w.do = "unset" -> unset(b, w.name)
                            [] w.do = "optind" -> set_optind(b, w.value, w.offset)
    BY <2>2 DEF Wrote
  <2> HIDE DEF b, w
  <2>4. /\ IsShell(set(b, w.name, w.value), fu) /\ IsShell(unset(b, w.name), fu)
        /\ IsShell(set_optind(b, w.value, w.offset), fu)
    BY <2>2, SetTells, UnsetTells, SetOptindTells DEF Changes
  <2>5. IsShell(after[i + 1].sh, fu)
    <3>1. CASE w.do = "set"
      BY <2>3, <2>4, <3>1
    <3>2. CASE w.do = "unset"
      BY <2>3, <2>4, <3>2
    <3>3. CASE w.do = "optind"
      BY <2>3, <2>4, <3>3
    <3> QED BY <2>2, <3>1, <3>2, <3>3
  <2> QED BY <2>1, <2>5
<1>4. Len(writes) \in T
  <2> HIDE DEF T
  <2>1. Len(writes) \in Nat
    BY DEF AreWrites
  <2> QED BY <1>2, <1>3, <2>1, UpTo
<1> QED BY <1>1, <1>4

LEMMA FunctionLength ==
  ASSUME NEW n \in Nat, NEW T, NEW f \in [1..n -> T]
  PROVE  Len(f) = n /\ f \in Seq(T)
OBVIOUS

LEMMA WritesOf ==
  ASSUME NEW n \in Nat, NEW f, f = [i \in 1..n |-> f[i]],
         \A i \in 1..n : f[i].do \in {"set", "unset", "optind"}
  PROVE  AreWrites(f)
<1> DEFINE T == {f[i] : i \in 1..n}
<1>1. f \in [1..n -> T]
  <2>1. \A i \in 1..n : f[i] \in T
    OBVIOUS
  <2> HIDE DEF T
  <2> QED BY <2>1
<1> HIDE DEF T
<1>2. Len(f) = n
  BY <1>1, FunctionLength
<1> QED BY <1>2 DEF AreWrites

LEMMA TupleWrites ==
  ASSUME NEW x, NEW y, NEW z, \A w \in {x, y, z} : w.do \in {"set", "unset", "optind"}
  PROVE  AreWrites(<<x, y, z>>)
<1>1. Len(<<x, y, z>>) = 3 /\ <<x, y, z>>[1] = x /\ <<x, y, z>>[2] = y /\ <<x, y, z>>[3] = z
  OBVIOUS
<1>2. \A i \in 1..3 : i = 1 \/ i = 2 \/ i = 3
  OBVIOUS
<1> QED BY <1>1, <1>2 DEF AreWrites

LEMMA ConcatThree ==
  ASSUME NEW x, NEW y, NEW z
  PROVE  <<x>> \o <<y, z>> = <<x, y, z>>
<1> DEFINE T == {x, y, z}
<1>1. <<x>> \in Seq(T) /\ <<y, z>> \in Seq(T) /\ <<x, y, z>> \in Seq(T)
  OBVIOUS
<1>2. Len(<<x>>) = 1 /\ Len(<<y, z>>) = 2 /\ Len(<<x, y, z>>) = 3
  OBVIOUS
<1>3. <<x>>[1] = x /\ <<y, z>>[1] = y /\ <<y, z>>[2] = z
  OBVIOUS
<1>4. <<x, y, z>>[1] = x /\ <<x, y, z>>[2] = y /\ <<x, y, z>>[3] = z
  OBVIOUS
<1> DEFINE a == <<x>>
           b == <<y, z>>
           c == <<x, y, z>>
<1> HIDE DEF a, b, c, T
<1>5. a \o b \in Seq(T) /\ Len(a \o b) = 3 /\ \A i \in 1..3 : (a \o b)[i] = IF i <= 1 THEN a[i] ELSE b[i - 1]
  BY <1>1, <1>2, ConcatProperties DEF a, b
<1>6. \A i \in 1..3 : (a \o b)[i] = c[i]
  <2> TAKE i \in 1..3
  <2>1. CASE i = 1
    BY <2>1, <1>3, <1>4, <1>5 DEF a, c
  <2>2. CASE i = 2
    BY <2>2, <1>3, <1>4, <1>5 DEF b, c
  <2>3. CASE i = 3
    BY <2>3, <1>3, <1>4, <1>5 DEF b, c
  <2>4. i = 1 \/ i = 2 \/ i = 3
    OBVIOUS
  <2> QED BY <2>1, <2>2, <2>3, <2>4
<1>7. a \o b = c
  <2>1. c \in Seq(T) /\ Len(c) = 3
    BY <1>1, <1>2 DEF c
  <2> QED BY <2>1, <1>5, <1>6, SeqEqual
<1> QED BY <1>7 DEF a, b, c

LEMMA PutTells ==
  /\ \A n, v : Put(n, v).do = "set"
  /\ \A n : Erase(n).do = "unset"
  /\ \A v, o : Index(v, o).do = "optind"
BY DEF Put, Erase, Index

LEMMA UnsetNamesTells ==
  ASSUME NEW s, NEW fu, IsShell(s, fu), NEW names, IsList(names)
  PROVE  IsShell(unset_names(s, names).sh, fu)
<1> DEFINE f == [i \in DOMAIN names |-> Erase(names[i])]
<1>1. Len(names) \in Nat /\ DOMAIN names = 1..Len(names)
  BY ListTells
<1>2. AreWrites(f)
  <2>1. f = [i \in 1..Len(names) |-> f[i]] /\ \A i \in 1..Len(names) : f[i] = Erase(names[i])
    BY <1>1
  <2> HIDE DEF f
  <2>2. \A i \in 1..Len(names) : f[i].do \in {"set", "unset", "optind"}
    BY <2>1, PutTells
  <2> QED BY <1>1, <2>1, <2>2, WritesOf
<1> HIDE DEF f
<1>3. IsShell(Written(s, f).sh, fu)
  BY <1>2, WrittenTells
<1> QED BY <1>3, DoneTells DEF unset_names, f

LEMMA ReadTells ==
  ASSUME NEW s, NEW fu, IsShell(s, fu), NEW names, IsList(names), NEW line, NEW at_eof
  PROVE  IsShell(builtin_read(s, names, line, at_eof).sh, fu)
<1> DEFINE n == Len(names)
           ok(k) == /\ \A i \in 1..k : ~is_readonly(s, names[i])
                    /\ k < n => is_readonly(s, names[k + 1])
           stop == CHOOSE k \in 0..n : ok(k)
           ifs == IF is_set(s, "IFS") THEN lookup(s, "IFS") ELSE <<" ">>
           f == [i \in 1..stop |-> Put(names[i], ReadValue(line, ifs, i, n))]
<1>1. n \in Nat
  BY ListTells
<1>2. \E k \in 0..n : ok(k)
  <2> DEFINE K == {k \in 0..n : k < n => is_readonly(s, names[k + 1])}
  <2>1. n \in K /\ K \subseteq Nat
    BY <1>1
  <2>2. PICK k \in K : \A l \in K : k <= l
    <3> HIDE DEF K
    <3> QED BY <2>1, HasLeast
  <2>3. \A i \in 1..k : ~is_readonly(s, names[i])
    <3> TAKE i \in 1..k
    <3>1. i - 1 \in 0..n /\ ~(k <= i - 1) /\ i - 1 < n /\ (i - 1) + 1 = i
      BY <1>1
    <3>2. i - 1 \notin K
      BY <2>2, <3>1
    <3> QED BY <3>1, <3>2
  <2> QED BY <2>3
<1> HIDE DEF ok
<1>3. stop \in 0..n
  BY <1>2
<1> HIDE DEF stop, ifs
<1>4. AreWrites(f)
  <2>1. stop \in Nat /\ f = [i \in 1..stop |-> f[i]]
        /\ \A i \in 1..stop : f[i] = Put(names[i], ReadValue(line, ifs, i, n))
    BY <1>1, <1>3
  <2> HIDE DEF f
  <2>2. \A i \in 1..stop : f[i].do \in {"set", "unset", "optind"}
    BY <2>1, PutTells
  <2> QED BY <2>1, <2>2, WritesOf
<1> HIDE DEF f
<1>5. IsShell(Written(s, f).sh, fu)
  BY <1>4, WrittenTells
<1>6. builtin_read(s, names, line, at_eof) = Done(Written(s, f).sh, IF stop < n THEN 2 ELSE IF at_eof THEN 1 ELSE 0)
  BY DEF builtin_read, f, stop, ifs, ok
<1> QED BY <1>5, <1>6, DoneTells

LEMMA StepWrites ==
  ASSUME NEW args, NEW letters, NEW quiet, NEW name, NEW at
  PROVE  AreWrites(Step(args, letters, quiet, name, at).writes)
<1> DEFINE word == Word(args, at.index)
           begins == IF at.offset = 0 THEN 1 ELSE at.offset
           option == word[begins + 1]
           done == begins + 1 >= Len(word)
           onward == IF done THEN Index(at.index + 1, 0) ELSE Index(at.index, begins + 1)
           known == option # ":" /\ \E i \in DOMAIN letters : letters[i] = option
           takes == known /\ TakesArgument(letters, option)
           step == Step(args, letters, quiet, name, at)
           fine == {"set", "unset", "optind"}
<1>1. onward.do \in fine
  BY PutTells
<1>0. step = CASE at.offset = 0 /\ ~IsOption(word) ->
              [writes |-> <<Index(IF word = <<"-", "-">> THEN at.index + 1 ELSE at.index, 0),
                            Put(name, <<"?">>), Erase("OPTARG")>>, status |-> 1]
         [] ~known ->
              [writes |-> <<onward, Put(name, <<"?">>),
                            IF quiet THEN Put("OPTARG", <<option>>) ELSE Erase("OPTARG")>>, status |-> 0]
         [] takes /\ ~done ->
              [writes |-> <<Put("OPTARG", SubSeq(word, begins + 2, Len(word))), Index(at.index + 1, 0),
                            Put(name, <<option>>)>>, status |-> 0]
         [] takes /\ at.index + 1 <= Len(args) ->
              [writes |-> <<Put("OPTARG", args[at.index + 1]), Index(at.index + 2, 0),
                            Put(name, <<option>>)>>, status |-> 0]
         [] takes ->
              [writes |-> <<Index(at.index + 1, 0)>> \o
                          (IF quiet THEN <<Put(name, <<":">>), Put("OPTARG", <<option>>)>>
                           ELSE <<Put(name, <<"?">>), Erase("OPTARG")>>), status |-> 0]
         [] OTHER ->
              [writes |-> <<Erase("OPTARG"), onward, Put(name, <<option>>)>>, status |-> 0]
  BY DEF Step
<1> HIDE DEF onward
<1>2. \/ step.writes = <<Index(IF word = <<"-", "-">> THEN at.index + 1 ELSE at.index, 0),
                         Put(name, <<"?">>), Erase("OPTARG")>>
      \/ step.writes = <<onward, Put(name, <<"?">>), IF quiet THEN Put("OPTARG", <<option>>) ELSE Erase("OPTARG")>>
      \/ step.writes = <<Put("OPTARG", SubSeq(word, begins + 2, Len(word))), Index(at.index + 1, 0),
                         Put(name, <<option>>)>>
      \/ step.writes = <<Put("OPTARG", args[at.index + 1]), Index(at.index + 2, 0), Put(name, <<option>>)>>
      \/ step.writes = <<Index(at.index + 1, 0)>> \o
                          (IF quiet THEN <<Put(name, <<":">>), Put("OPTARG", <<option>>)>>
                           ELSE <<Put(name, <<"?">>), Erase("OPTARG")>>)
      \/ step.writes = <<Erase("OPTARG"), onward, Put(name, <<option>>)>>
  <2> HIDE DEF step, word, begins, option, done, known, takes
  <2> QED BY <1>0
<1> HIDE DEF step, word, begins, option, done, known, takes
<1>3. \A n, v : Put(n, v).do \in fine
  BY PutTells
<1>4. \A n : Erase(n).do \in fine
  BY PutTells
<1>5. \A v, o : Index(v, o).do \in fine
  BY PutTells
<1>6. \A x, y, z : x.do \in fine /\ y.do \in fine /\ z.do \in fine => AreWrites(<<x, y, z>>)
  BY TupleWrites
<1>7. \A x, y, z : <<x>> \o <<y, z>> = <<x, y, z>>
  BY ConcatThree
<1> HIDE DEF fine
<1>8. (IF quiet THEN Put("OPTARG", <<option>>) ELSE Erase("OPTARG")).do \in fine
  BY <1>3, <1>4
<1>9. AreWrites(<<Index(IF word = <<"-", "-">> THEN at.index + 1 ELSE at.index, 0),
                  Put(name, <<"?">>), Erase("OPTARG")>>)
  BY <1>3, <1>4, <1>5, <1>6
<1>10. AreWrites(<<onward, Put(name, <<"?">>), IF quiet THEN Put("OPTARG", <<option>>) ELSE Erase("OPTARG")>>)
  BY <1>1, <1>3, <1>6, <1>8
<1>11. AreWrites(<<Put("OPTARG", SubSeq(word, begins + 2, Len(word))), Index(at.index + 1, 0),
                   Put(name, <<option>>)>>)
  BY <1>3, <1>5, <1>6
<1>12. AreWrites(<<Put("OPTARG", args[at.index + 1]), Index(at.index + 2, 0), Put(name, <<option>>)>>)
  BY <1>3, <1>5, <1>6
<1>13. AreWrites(<<Index(at.index + 1, 0)>> \o
                    (IF quiet THEN <<Put(name, <<":">>), Put("OPTARG", <<option>>)>>
                     ELSE <<Put(name, <<"?">>), Erase("OPTARG")>>))
  <2>1. /\ AreWrites(<<Index(at.index + 1, 0), Put(name, <<":">>), Put("OPTARG", <<option>>)>>)
        /\ AreWrites(<<Index(at.index + 1, 0), Put(name, <<"?">>), Erase("OPTARG")>>)
    BY <1>3, <1>4, <1>5, <1>6
  <2> QED BY <1>7, <2>1
<1>14. AreWrites(<<Erase("OPTARG"), onward, Put(name, <<option>>)>>)
  BY <1>1, <1>3, <1>4, <1>6
<1> QED BY <1>2, <1>9, <1>10, <1>11, <1>12, <1>13, <1>14 DEF step

LEMMA GetoptsTells ==
  ASSUME NEW s, NEW fu, IsShell(s, fu), NEW optstring, NEW name, NEW operands
  PROVE  IsShell(builtin_getopts(s, optstring, name, operands).sh, fu)
<1>1. \A args, letters, quiet, at : IsShell(Written(s, Step(args, letters, quiet, name, at).writes).sh, fu)
  BY StepWrites, WrittenTells
<1> QED BY <1>1, DoneTells DEF builtin_getopts

LEMMA DeclarationTells ==
  ASSUME NEW s, NEW fu, IsShell(s, fu), NEW operands, IsList(operands), NEW make_readonly
  PROVE  IsShell(run_declaration(s, operands, make_readonly).sh, fu)
<1>0. Len(operands) \in Nat
  BY ListTells
<1>a. PICK after : Declares(after, s, operands, make_readonly)
  BY <1>0, DeclarationUnfolds
<1>1. /\ after[0] = Done(s, 0)
      /\ \A i \in 1..Len(operands) : after[i] = DeclaredNext(after[i - 1], operands[i], make_readonly)
      /\ run_declaration(s, operands, make_readonly) = after[Len(operands)]
  BY <1>a DEF Declares
<1> DEFINE T == {i \in 0..Len(operands) : IsShell(after[i].sh, fu)}
<1>2. 0 \in T
  BY <1>0, <1>1, DoneTells
<1>3. ASSUME NEW i \in 0..(Len(operands) - 1), i \in T PROVE i + 1 \in T
  <2>1. i + 1 \in 0..Len(operands) /\ i + 1 \in 1..Len(operands) /\ (i + 1) - 1 = i
    BY <1>0
  <2> DEFINE b == after[i].sh
             o == operands[i + 1]
             given == IF ~o.assigns THEN IF make_readonly THEN b ELSE mark_exported(b, o.name)
                      ELSE IF make_readonly THEN set(b, o.name, o.value)
                      ELSE set_exported(b, o.name, o.value)
  <2>2. IsShell(b, fu) /\ after[i + 1] = DeclaredNext(after[i], o, make_readonly)
    BY <1>1, <1>3, <2>1
  <2>3. IsShell(given, fu)
    BY <2>2, MarkTells, SetTells, SetExportedTells DEF Changes
  <2>4. Declared(b, o, make_readonly) = IF make_readonly THEN mark_readonly(given, o.name) ELSE given
    BY DEF Declared
  <2> HIDE DEF given, b, o
  <2>5. IsShell(Declared(b, o, make_readonly), fu)
    BY <2>3, <2>4, MarkTells
  <2>6. after[i + 1].sh = b \/ after[i + 1].sh = Declared(b, o, make_readonly)
    BY <2>2, DoneTells DEF DeclaredNext, b
  <2>7. IsShell(after[i + 1].sh, fu)
    BY <2>2, <2>5, <2>6
  <2> QED BY <2>1, <2>7
<1>4. Len(operands) \in T
  <2> HIDE DEF T
  <2> QED BY <1>0, <1>2, <1>3, UpTo
<1> QED BY <1>1, <1>4

LEMMA SetOptionsTells ==
  ASSUME NEW s, NEW fu, IsShell(s, fu), NEW options, IsList(options), NEW operands, NEW replaces
  PROVE  IsShell(set_options(s, options, operands, replaces).sh, fu)
<1>0. Len(options) \in Nat
  BY ListTells
<1>1. PICK after : /\ after[0] = Done(s, 0)
                   /\ \A i \in 1..Len(options) : after[i] = OptionNext(after[i - 1], options[i])
                   /\ OptionsApplied(s, options) = after[Len(options)]
  BY <1>0, OptionsUnfold
<1> DEFINE T == {i \in 0..Len(options) : IsShell(after[i].sh, fu)}
<1>2. 0 \in T
  BY <1>0, <1>1, DoneTells
<1>3. ASSUME NEW i \in 0..(Len(options) - 1), i \in T PROVE i + 1 \in T
  <2>1. i + 1 \in 0..Len(options) /\ i + 1 \in 1..Len(options) /\ (i + 1) - 1 = i
    BY <1>0
  <2> DEFINE b == after[i].sh
             o == options[i + 1]
             more == IF o.on THEN b.options \union {o.name} ELSE b.options \ {o.name}
  <2>2. IsShell(b, fu) /\ after[i + 1] = OptionNext(after[i], o)
    BY <1>1, <1>3, <2>1
  <2>3. apply_option_name(b, o.name, o.on) = [b EXCEPT !.options = more]
    BY DEF apply_option_name
  <2> HIDE DEF b, o, more
  <2>4. IsShell([b EXCEPT !.options = more], fu)
    BY <2>2, ShellWith
  <2>5. after[i + 1].sh = b \/ after[i + 1].sh = apply_option_name(b, o.name, o.on)
    BY <2>2, DoneTells DEF OptionNext, b
  <2>6. IsShell(after[i + 1].sh, fu)
    BY <2>2, <2>3, <2>4, <2>5
  <2> QED BY <2>1, <2>6
<1>4. Len(options) \in T
  <2> HIDE DEF T
  <2> QED BY <1>0, <1>2, <1>3, UpTo
<1>5. IsShell(OptionsApplied(s, options).sh, fu)
  BY <1>1, <1>4
<1> DEFINE t == OptionsApplied(s, options).sh
<1> HIDE DEF t
<1>6. IsShell(t, fu) /\ IsShell([t EXCEPT !.positional = operands], fu)
  BY <1>5, ShellWith DEF t
<1> QED BY <1>5, <1>6, DoneTells DEF set_options, set_positional, t

LEMMA RecordedTells ==
  ASSUME NEW s, NEW fu, IsShell(s, fu), NEW previous, NEW next
  PROVE  IsShell(Recorded(s, previous, next).sh, fu)
<1> DEFINE left == IF previous = <<>> THEN s ELSE set_exported(s, "OLDPWD", previous)
           done == set_exported(left, "PWD", next)
<1>1. IsShell(left, fu)
  BY SetExportedTells
<1> HIDE DEF left
<1>2. IsShell(done, fu)
  BY <1>1, SetExportedTells
<1>3. \E x : Recorded(s, previous, next) = Done(done, x)
  BY DEF Recorded, left
<1> QED BY <1>2, <1>3, DoneTells

LEMMA CdToTells ==
  ASSUME NEW s, NEW fu, IsShell(s, fu), NEW operand, NEW physical
  PROVE  IsShell(cd_to(s, operand, physical).sh, fu)
<1>1. \A there : IsShell([s EXCEPT !.cwd = there], fu)
  BY ShellWith
<1>2. \A there, previous, next : IsShell(Recorded([s EXCEPT !.cwd = there], previous, next).sh, fu)
  BY <1>1, RecordedTells
<1> DEFINE previous == logical_working_directory(s)
           curpath == IF IsAbsolute(operand) THEN operand
                      ELSE (IF previous = <<>> THEN <<"/">> ELSE previous) \o operand
           canonical == canonicalize_logical(s, curpath)
           next == IF physical \/ canonical = Nowhere THEN curpath ELSE Path(canonical)
           there == Resolve(s, next)
           name == IF physical THEN Path(there) ELSE next
<1>3. cd_to(s, operand, physical) = Done(s, 2) \/ cd_to(s, operand, physical) = Recorded([s EXCEPT !.cwd = there], previous, name)
  BY DEF cd_to
<1> HIDE DEF previous, there, name
<1>4. IsShell(Recorded([s EXCEPT !.cwd = there], previous, name).sh, fu)
  BY <1>2
<1> QED BY <1>3, <1>4, DoneTells

LEMMA CdTells ==
  ASSUME NEW s, NEW fu, IsShell(s, fu), NEW operand, NEW physical
  PROVE  IsShell(builtin_cd(s, operand, physical).sh, fu)
<1>1. \A o : IsShell(cd_to(s, o, physical).sh, fu)
  BY CdToTells
<1>2. \/ \E x : builtin_cd(s, operand, physical) = Done(s, x)
      \/ \E o : builtin_cd(s, operand, physical) = cd_to(s, o, physical)
  BY DEF builtin_cd
<1> QED BY <1>1, <1>2, DoneTells

LEMMA CalledTells ==
  ASSUME NEW s, NEW fu, IsShell(s, fu), NEW cmd, IsList(cmd.args), IsList(cmd.options), NEW line, NEW at_eof
  PROVE  IsShell(Called(s, cmd, line, at_eof).sh, fu)
<1>1. IsShell(run_declaration(s, cmd.args, FALSE).sh, fu)
  BY DeclarationTells
<1>2. IsShell(run_declaration(s, cmd.args, TRUE).sh, fu)
  BY DeclarationTells
<1>3. IsShell(unset_names(s, cmd.args).sh, fu)
  BY UnsetNamesTells
<1>4. IsShell(set_options(s, cmd.options, cmd.args, cmd.replaces).sh, fu)
  BY SetOptionsTells
<1>5. IsShell(shift_by(s, cmd.n).sh, fu)
  <2> DEFINE w == SubSeq(s.positional, cmd.n + 1, Len(s.positional))
  <2>1. shift_positional(s, cmd.n) = [s EXCEPT !.positional = w]
    BY DEF shift_positional
  <2> HIDE DEF w
  <2>2. IsShell([s EXCEPT !.positional = w], fu)
    BY ShellWith
  <2> QED BY <2>1, <2>2, DoneTells DEF shift_by
<1>6. IsShell(unalias_one(s, cmd.args[1]).sh, fu)
  <2> DEFINE w == s.aliases \ {cmd.args[1]}
  <2>1. unset_alias(s, cmd.args[1]) = [s EXCEPT !.aliases = w]
    BY DEF unset_alias
  <2> HIDE DEF w
  <2>2. IsShell([s EXCEPT !.aliases = w], fu)
    BY ShellWith
  <2> QED BY <2>1, <2>2, DoneTells DEF unalias_one
<1>7. IsShell(Done(set_alias(s, cmd.args[1]), 0).sh, fu)
  <2> DEFINE w == s.aliases \union {cmd.args[1]}
  <2>1. set_alias(s, cmd.args[1]) = [s EXCEPT !.aliases = w]
    BY DEF set_alias
  <2> HIDE DEF w
  <2>2. IsShell([s EXCEPT !.aliases = w], fu)
    BY ShellWith
  <2> QED BY <2>1, <2>2, DoneTells
<1>8. IsShell(builtin_cd(s, cmd.args, cmd.physical).sh, fu)
  BY CdTells
<1>9. IsShell(builtin_pwd(s, cmd.physical).sh, fu)
  BY DoneTells DEF builtin_pwd
<1>10. IsShell(builtin_read(s, cmd.args, line, at_eof).sh, fu)
  BY ReadTells
<1>11. IsShell(builtin_getopts(s, cmd.args[1], "x", <<>>).sh, fu)
  BY GetoptsTells
<1>12. IsShell(Done(s, 0).sh, fu)
  BY DoneTells
<1> QED BY <1>1, <1>2, <1>3, <1>4, <1>5, <1>6, <1>7, <1>8, <1>9, <1>10, <1>11, <1>12 DEF Called

LEMMA EnvironmentTells ==
  ASSUME NEW s, NEW fu, IsShell(s, fu), NEW assigns, Len(assigns) \in Nat
  PROVE  IsShell(Environment(s, assigns), fu)
<1>a. PICK after : Exports(after, s, assigns)
  BY EnvironmentUnfolds
<1>1. /\ after[0] = s
      /\ \A i \in 1..Len(assigns) : after[i] = set_exported(after[i - 1], assigns[i].name, assigns[i].value)
      /\ Environment(s, assigns) = after[Len(assigns)]
  BY <1>a DEF Exports
<1> DEFINE T == {i \in 0..Len(assigns) : IsShell(after[i], fu)}
<1>2. 0 \in T
  BY <1>1
<1>3. ASSUME NEW i \in 0..(Len(assigns) - 1), i \in T PROVE i + 1 \in T
  <2>1. i + 1 \in 0..Len(assigns) /\ i + 1 \in 1..Len(assigns) /\ (i + 1) - 1 = i
    OBVIOUS
  <2>2. after[i + 1] = set_exported(after[i], assigns[i + 1].name, assigns[i + 1].value)
    BY <1>1, <2>1
  <2>3. IsShell(after[i + 1], fu)
    BY <1>3, <2>2, SetExportedTells
  <2> QED BY <2>1, <2>3
<1>4. Len(assigns) \in T
  <2> HIDE DEF T
  <2> QED BY <1>2, <1>3, UpTo
<1> QED BY <1>1, <1>4

(* What a line of assignments has come to. *)
Named(p, fu) ==
  \E t, e, u : p = [sh |-> t, error |-> e, sub |-> u] /\ e \in {"none", "expansion", "assignment"} /\ IsShell(t, fu)

Gives(p, x, y) == [p EXCEPT !.sh = x, !.sub = y]

LEMMA OneAssigned ==
  ASSUME NEW t, NEW e, NEW u, NEW x, NEW y
  PROVE  Gives([sh |-> t, error |-> e, sub |-> u], x, y) = [sh |-> x, error |-> e, sub |-> y]
<1> DEFINE r == [sh |-> t, error |-> e, sub |-> u]
<1>1. DOMAIN r = {"sh", "error", "sub"}
  OBVIOUS
<1>2. [r EXCEPT !.sh = x] = [sh |-> x, error |-> e, sub |-> u]
  OBVIOUS
<1>3. [[sh |-> x, error |-> e, sub |-> u] EXCEPT !.sub = y] = [sh |-> x, error |-> e, sub |-> y]
  OBVIOUS
<1> QED BY <1>2, <1>3 DEF Gives

LEMMA AssignedNextTells ==
  ASSUME NEW p, NEW fu, Named(p, fu), NEW a
  PROVE  Named(AssignedNext(p, a), fu)
<1>1. PICK t, e, u : p = [sh |-> t, error |-> e, sub |-> u] /\ e \in {"none", "expansion", "assignment"} /\ IsShell(t, fu)
  BY DEF Named
<1>2. \A w : Named([sh |-> t, error |-> w, sub |-> u], fu) <=> Named([sh |-> t, error |-> w, sub |-> u], fu)
  OBVIOUS
<1>3. Named([p EXCEPT !.error = "expansion"], fu)
  <2>1. [p EXCEPT !.error = "expansion"] = [sh |-> t, error |-> "expansion", sub |-> u]
    BY <1>1
  <2> QED BY <1>1, <2>1 DEF Named
<1>4. Named([p EXCEPT !.error = "assignment"], fu)
  <2>1. [p EXCEPT !.error = "assignment"] = [sh |-> t, error |-> "assignment", sub |-> u]
    BY <1>1
  <2> QED BY <1>1, <2>1 DEF Named
<1> DEFINE q == [p EXCEPT !.sh = set(p.sh, a.name, a.value), !.sub = LastSub(@, a.sub)]
<1>5. Named(q, fu)
  <2> DEFINE x == set(t, a.name, a.value)
             y == LastSub(u, a.sub)
  <2>1. IsShell(x, fu)
    BY <1>1, SetTells DEF Changes
  <2>2. q = Gives(p, x, y)
    BY <1>1 DEF Gives
  <2> HIDE DEF x, y, q
  <2>3. Gives(p, x, y) = [sh |-> x, error |-> e, sub |-> y]
    BY <1>1, OneAssigned
  <2> QED BY <1>1, <2>1, <2>2, <2>3 DEF Named
<1>6. AssignedNext(p, a) \in {p, [p EXCEPT !.error = "expansion"], [p EXCEPT !.error = "assignment"], q}
  BY <1>1 DEF AssignedNext
<1> HIDE DEF q
<1> QED BY <1>3, <1>4, <1>5, <1>6

(* An assignment that is refused or does not expand is told. *)
LEMMA AssignmentsTell ==
  ASSUME NEW cmd, NEW fu, IsShell(sh, fu), Len(cmd.assigns) \in Nat
  PROVE  Named(Assignments(cmd), fu)
<1>a. PICK after : Assigns(after, cmd)
  BY AssignmentsUnfold
<1>1. /\ after[0] = [sh |-> sh, error |-> "none", sub |-> NoSub]
      /\ \A i \in 1..Len(cmd.assigns) : after[i] = AssignedNext(after[i - 1], cmd.assigns[i])
      /\ Assignments(cmd) = after[Len(cmd.assigns)]
  BY <1>a DEF Assigns
<1> DEFINE T == {i \in 0..Len(cmd.assigns) : Named(after[i], fu)}
<1>2. 0 \in T
  <2>1. Named(after[0], fu)
    BY <1>1 DEF Named
  <2> QED BY <2>1
<1>3. ASSUME NEW i \in 0..(Len(cmd.assigns) - 1), i \in T PROVE i + 1 \in T
  <2>1. i + 1 \in 0..Len(cmd.assigns) /\ i + 1 \in 1..Len(cmd.assigns) /\ (i + 1) - 1 = i
    OBVIOUS
  <2>2. after[i + 1] = AssignedNext(after[i], cmd.assigns[i + 1])
    BY <1>1, <2>1
  <2>3. Named(after[i + 1], fu)
    BY <1>3, <2>2, AssignedNextTells
  <2> QED BY <2>1, <2>3
<1>4. Len(cmd.assigns) \in T
  <2> HIDE DEF T
  <2> QED BY <1>2, <1>3, UpTo
<1> QED BY <1>1, <1>4

LEMMA StartedTells ==
  ASSUME NEW cwd, NEW inherited
  PROVE  IsShell(Started(cwd, inherited), {})
<1> DEFINE vs == [n \in Names |->
                    CASE n = "OPTIND" -> Assigned(Numeral(1), FALSE)
                      [] n = "IFS" -> Assigned(<<" ">>, FALSE)
                      [] n \in DOMAIN inherited -> Assigned(inherited[n], TRUE)
                      [] OTHER -> Absent]
           s == [vars |-> vs, offset |-> 0, positional |-> <<>>, functions |-> {}, aliases |-> {},
                 options |-> {}, cwd |-> cwd, dirs |-> Dirs, status |-> 0]
<1>1. IsVars(vs)
  <2>1. vs = [n \in Names |-> vs[n]]
    OBVIOUS
  <2>2. \A n \in Names : Var(vs[n])
    BY AssignedTells
  <2> QED BY <2>1, <2>2 DEF IsVars
<1> HIDE DEF vs
<1>2. IsShell(s, {}) /\ s.vars = vs
  <2>1. Sh(s, vs, 0, <<>>, {}, {}, {}, cwd, Dirs, 0)
    BY DEF Sh
  <2> QED BY <1>1, <2>1, IsShellIs
<1>3. Started(cwd, inherited) = IF is_set(s, "PWD") /\ names_current_directory(s, lookup(s, "PWD")) THEN s
                                ELSE [s EXCEPT !.vars["PWD"] = Assigned(Path(cwd), TRUE)]
  BY DEF Started, vs
<1> HIDE DEF s
<1> DEFINE x == Assigned(Path(cwd), TRUE)
<1>4. Var(x)
  BY AssignedTells
<1> HIDE DEF x
<1>5. IsShell(SetVars(s, With(s.vars, "PWD", x)), {})
  BY <1>1, <1>2, <1>4, VarsWith, VarsChange
<1>6. [s EXCEPT !.vars["PWD"] = x] = SetVars(s, With(s.vars, "PWD", x))
  BY <1>2 DEF SetVars, With, s
<1> QED BY <1>2, <1>3, <1>5, <1>6 DEF x

-----------------------------------------------------------------------------
(* Prefix assignments: what they cover, and how it is put back.            *)

(* What applying a prefix has come to, as a record. *)
Pref(p, t, r, re, fa, su) == p = [sh |-> t, restore |-> r, refused |-> re, fatal |-> fa, sub |-> su]

LEMMA PrefTells ==
  ASSUME NEW p, NEW t, NEW r, NEW re, NEW fa, NEW su, Pref(p, t, r, re, fa, su)
  PROVE  p.sh = t /\ p.restore = r /\ p.refused = re /\ p.fatal = fa /\ p.sub = su
BY DEF Pref

(* An entry of what is to be restored recalls a variable. *)
Recording(e, v) == e.was_set = v.assigned /\ e.value = v.value
Entry(s, n) == [name |-> n, was_set |-> is_set(s, n), value |-> lookup(s, n)]

LEMMA EntryTells ==
  ASSUME NEW s, NEW n
  PROVE  Entry(s, n).name = n /\ Recording(Entry(s, n), s.vars[n])
BY DEF Entry, Recording, is_set, lookup

New(assigns, j) == \A l \in 1..(j - 1) : assigns[l].name # assigns[j].name

(* The prefix up to i has been applied. *)
Covers(t, r, s, fu, assigns, persist, i) ==
  /\ IsShell(t, fu)
  /\ \A n \in Names : (\A l \in 1..i : assigns[l].name # n) => t.vars[n] = s.vars[n]
  /\ \A l \in 1..Len(assigns) : ~t.vars[assigns[l].name].readonly
  /\ IsList(r)
  /\ persist => r = <<>>
  /\ ~persist => Len(r) = i
  /\ ~persist => \A j \in 1..i : r[j].name = assigns[j].name
  /\ ~persist => \A j \in 1..i : New(assigns, j) => Recording(r[j], s.vars[assigns[j].name])

LEMMA CoversNext ==
  ASSUME NEW t, NEW r, NEW s, NEW fu, NEW assigns, NEW persist, Len(assigns) \in Nat,
         \A l \in 1..Len(assigns) : assigns[l].name \in Names,
         NEW i \in 0..(Len(assigns) - 1), Covers(t, r, s, fu, assigns, persist, i),
         NEW u, NEW q, u = set(t, assigns[i + 1].name, assigns[i + 1].value),
         q = IF persist THEN <<>> ELSE Append(r, Entry(t, assigns[i + 1].name))
  PROVE  Covers(u, q, s, fu, assigns, persist, i + 1)
<1> DEFINE a == assigns[i + 1]
<1>0. i \in Nat /\ i + 1 \in 1..Len(assigns) /\ a.name \in Names
  OBVIOUS
<1>a. IsShell(t, fu)
  BY DEF Covers
<1>b. Changes(t, u, a.name, fu)
  BY <1>a, SetTells
<1>c. Takes(t, u, a.name, a.value)
  BY <1>a, SetTells
<1>1. /\ Changes(t, u, a.name, fu)
      /\ ~t.vars[a.name].readonly => u.vars[a.name].readonly = FALSE
  BY <1>0, <1>b, <1>c DEF Takes
<1>2. IsShell(u, fu) /\ \A m \in Names : m # a.name => u.vars[m] = t.vars[m]
  BY <1>1 DEF Changes
<1>3. ~t.vars[a.name].readonly
  BY <1>0 DEF Covers
<1>4. ~u.vars[a.name].readonly
  BY <1>1, <1>3
<1>5. \A n \in Names : (\A l \in 1..(i + 1) : assigns[l].name # n) => u.vars[n] = s.vars[n]
  <2> TAKE n \in Names
  <2> HAVE \A l \in 1..(i + 1) : assigns[l].name # n
  <2>1. n # a.name /\ \A l \in 1..i : assigns[l].name # n
    BY <1>0
  <2> QED BY <2>1, <1>2 DEF Covers
<1>6. \A l \in 1..Len(assigns) : ~u.vars[assigns[l].name].readonly
  <2> TAKE l \in 1..Len(assigns)
  <2>1. CASE assigns[l].name = a.name
    BY <2>1, <1>4
  <2>2. CASE assigns[l].name # a.name
    BY <2>2, <1>2 DEF Covers
  <2> QED BY <2>1, <2>2
<1>7. CASE persist
  <2>1. q = <<>> /\ IsList(q)
    <3>1. <<>> \in Seq({})
      OBVIOUS
    <3> QED BY <1>7, <3>1, ListOf
  <2> QED BY <2>1, <1>7, <1>2, <1>5, <1>6 DEF Covers
<1>8. CASE ~persist
  <2> DEFINE e == Entry(t, a.name)
  <2>1. q = Append(r, e)
    BY <1>8
  <2>2. IsList(r) /\ Len(r) = i
    BY <1>8 DEF Covers
  <2>3. e.name = a.name /\ Recording(e, t.vars[a.name])
    BY EntryTells
  <2> HIDE DEF e
  <2>4. IsList(q) /\ Len(q) = i + 1 /\ (\A j \in 1..i : q[j] = r[j]) /\ q[i + 1] = e
    BY <2>1, <2>2, Appended
  <2>5. \A j \in 1..(i + 1) : q[j].name = assigns[j].name
    <3> TAKE j \in 1..(i + 1)
    <3>1. CASE j = i + 1
      BY <3>1, <2>3, <2>4
    <3>2. CASE j # i + 1
      <4>1. j \in 1..i
        BY <1>0, <3>2
      <4> QED BY <4>1, <2>4, <1>8 DEF Covers
    <3> QED BY <3>1, <3>2
  <2>6. \A j \in 1..(i + 1) : New(assigns, j) => Recording(q[j], s.vars[assigns[j].name])
    <3> TAKE j \in 1..(i + 1)
    <3> HAVE New(assigns, j)
    <3>1. CASE j = i + 1
      <4>1. \A l \in 1..i : assigns[l].name # a.name
        BY <1>0, <3>1 DEF New
      <4>2. t.vars[a.name] = s.vars[a.name]
        BY <1>0, <4>1 DEF Covers
      <4> QED BY <3>1, <4>2, <2>3, <2>4
    <3>2. CASE j # i + 1
      <4>1. j \in 1..i
        BY <1>0, <3>2
      <4> QED BY <4>1, <2>4, <1>8 DEF Covers
    <3> QED BY <3>1, <3>2
  <2> QED BY <2>4, <2>5, <2>6, <1>8, <1>2, <1>5, <1>6 DEF Covers
<1> QED BY <1>7, <1>8

(* The prefix of a command none of whose names is readonly. *)
Applies(p, s, fu, assigns, persist, i) ==
  \E t, r, fa, su : Pref(p, t, r, FALSE, fa, su) /\ Covers(t, r, s, fu, assigns, persist, i)

LEMMA OverlaidTells ==
  ASSUME NEW p, NEW s, NEW fu, NEW assigns, NEW persist, Len(assigns) \in Nat,
         \A l \in 1..Len(assigns) : assigns[l].name \in Names,
         NEW i \in 0..(Len(assigns) - 1), Applies(p, s, fu, assigns, persist, i)
  PROVE  Applies(Overlaid(p, assigns[i + 1], persist), s, fu, assigns, persist, i + 1)
<1> DEFINE a == assigns[i + 1]
<1>1. PICK t, r, fa, su : Pref(p, t, r, FALSE, fa, su) /\ Covers(t, r, s, fu, assigns, persist, i)
  BY DEF Applies
<1>2. p.sh = t /\ p.restore = r /\ p.refused = FALSE
  BY <1>1, PrefTells
<1> DEFINE u == set(t, a.name, a.value)
           q == IF persist THEN <<>> ELSE Append(r, Entry(t, a.name))
           fb == p.fatal \/ a.fails
           sb == IF a.sub = NoSub THEN p.sub ELSE a.sub
<1>3. Covers(u, q, s, fu, assigns, persist, i + 1)
  BY <1>1, CoversNext
<1>4. ~t.vars[a.name].readonly
  BY <1>1 DEF Covers
<1>5. is_readonly(t, a.name) = FALSE
  <2>1. IsShell(t, fu) /\ a.name \in Names
    BY <1>1 DEF Covers
  <2>2. t.vars[a.name].readonly \in BOOLEAN
    BY <2>1, ShellWith, VarTells DEF IsVars
  <2> QED BY <1>4, <2>2 DEF is_readonly
<1>6. Pref(Overlaid(p, a, persist), u, q, FALSE, fb, sb)
  <2>1. Overlaid(p, a, persist) = [sh |-> u, restore |-> q, refused |-> is_readonly(t, a.name), fatal |-> fb, sub |-> sb]
    BY <1>2 DEF Overlaid, Entry
  <2> HIDE DEF u, q, fb, sb
  <2> QED BY <1>5, <2>1 DEF Pref
<1> HIDE DEF u, q, fb, sb
<1> QED BY <1>3, <1>6 DEF Applies

LEMMA PrefixTells ==
  ASSUME NEW s, NEW fu, IsShell(s, fu), NEW assigns, NEW persist, Len(assigns) \in Nat,
         \A l \in 1..Len(assigns) : assigns[l].name \in Names /\ ~s.vars[assigns[l].name].readonly
  PROVE  LET p == apply_prefix(s, assigns, persist) IN Covers(p.sh, p.restore, s, fu, assigns, persist, Len(assigns))
<1>a. PICK after : Overlays(after, s, assigns, persist)
  BY PrefixUnfolds
<1>1. /\ after[0] = [sh |-> s, restore |-> <<>>, refused |-> FALSE, fatal |-> FALSE, sub |-> NoSub]
      /\ \A i \in 1..Len(assigns) : after[i] = Overlaid(after[i - 1], assigns[i], persist)
      /\ apply_prefix(s, assigns, persist) = after[Len(assigns)]
  BY <1>a DEF Overlays
<1> DEFINE T == {i \in 0..Len(assigns) : Applies(after[i], s, fu, assigns, persist, i)}
<1>2. 0 \in T
  <2>1. Pref(after[0], s, <<>>, FALSE, FALSE, NoSub)
    BY <1>1 DEF Pref
  <2>2. IsList(<<>>) /\ Len(<<>>) = 0
    <3>1. <<>> \in Seq({})
      OBVIOUS
    <3> QED BY <3>1, ListOf
  <2>3. Covers(s, <<>>, s, fu, assigns, persist, 0)
    BY <2>2 DEF Covers
  <2>4. Applies(after[0], s, fu, assigns, persist, 0)
    BY <2>1, <2>3 DEF Applies
  <2> QED BY <2>4
<1>3. ASSUME NEW i \in 0..(Len(assigns) - 1), i \in T PROVE i + 1 \in T
  <2>1. i + 1 \in 0..Len(assigns) /\ i + 1 \in 1..Len(assigns) /\ (i + 1) - 1 = i
    OBVIOUS
  <2>2. after[i + 1] = Overlaid(after[i], assigns[i + 1], persist)
    BY <1>1, <2>1
  <2>3. Applies(after[i + 1], s, fu, assigns, persist, i + 1)
    BY <1>3, <2>2, OverlaidTells
  <2> QED BY <2>1, <2>3
<1>4. Len(assigns) \in T
  <2> HIDE DEF T
  <2> QED BY <1>2, <1>3, UpTo
<1> DEFINE p == apply_prefix(s, assigns, persist)
<1>5. Applies(p, s, fu, assigns, persist, Len(assigns))
  BY <1>1, <1>4
<1> HIDE DEF p
<1>6. Covers(p.sh, p.restore, s, fu, assigns, persist, Len(assigns))
  BY <1>5, PrefTells DEF Applies
<1> QED BY <1>6 DEF p

-------------------------------------------------------------------------------
(* The variable x is as the entry e recalls it, or is readonly now. *)
As(x, e) ==
  \/ x.readonly
  \/ e.was_set /\ x.assigned /\ x.value = e.value
  \/ ~e.was_set /\ ~x.assigned /\ x.value = <<>>

LEMMA UncoveredTells ==
  ASSUME NEW s, NEW fu, IsShell(s, fu), NEW e
  PROVE  /\ IsShell(Uncovered(s, e), fu)
         /\ e.name \in Names => As(Uncovered(s, e).vars[e.name], e)
         /\ \A n \in Names : n # e.name => Uncovered(s, e).vars[n] = s.vars[n]
<1>1. Uncovered(s, e) = IF e.was_set THEN set(s, e.name, e.value) ELSE unset(s, e.name)
  BY DEF Uncovered
<1>2. CASE e.was_set
  <2>1. Uncovered(s, e) = set(s, e.name, e.value)
    BY <1>1, <1>2
  <2> DEFINE u == set(s, e.name, e.value)
  <2>a. Changes(s, u, e.name, fu)
    BY SetTells
  <2>b. Takes(s, u, e.name, e.value)
    BY SetTells
  <2> HIDE DEF u
  <2>2. /\ Changes(s, u, e.name, fu)
        /\ e.name \in Names /\ ~s.vars[e.name].readonly => u.vars[e.name].assigned = TRUE /\ u.vars[e.name].value = e.value
    BY <2>a, <2>b DEF Takes
  <2>3. Uncovered(s, e) = u
    BY <2>1 DEF u
  <2> QED BY <1>2, <2>2, <2>3 DEF Changes, As
<1>3. CASE ~e.was_set
  <2> DEFINE u == unset(s, e.name)
  <2>1. Uncovered(s, e) = u
    BY <1>1, <1>3
  <2>2. /\ Changes(s, u, e.name, fu)
        /\ e.name \in Names /\ ~s.vars[e.name].readonly => u.vars[e.name] = Absent
    BY UnsetTells
  <2>3. Absent.assigned = FALSE /\ Absent.value = <<>>
    BY AssignedTells
  <2> HIDE DEF u
  <2> QED BY <1>3, <2>1, <2>2, <2>3 DEF Changes, As
<1> QED BY <1>2, <1>3

LEMMA RestorePrefixTells ==
  ASSUME NEW s, NEW fu, IsShell(s, fu), NEW restore, IsList(restore)
  PROVE  /\ IsShell(restore_prefix(s, restore), fu)
         /\ \A n \in Names : \A k \in 1..Len(restore) :
               restore[k].name = n /\ (\A l \in 1..Len(restore) : restore[l].name = n => l = k)
                  => As(restore_prefix(s, restore).vars[n], restore[k])
<1>0. Len(restore) \in Nat
  BY ListTells
<1>a. PICK after : Uncovers(after, s, restore)
  BY <1>0, RestoreUnfolds
<1>1. /\ after[0] = s
      /\ \A i \in 1..Len(restore) : after[i] = Uncovered(after[i - 1], restore[i])
      /\ restore_prefix(s, restore) = after[Len(restore)]
  BY <1>a DEF Uncovers
<1> DEFINE T == {i \in 0..Len(restore) : IsShell(after[i], fu)}
<1>2. 0 \in T
  BY <1>0, <1>1
<1>3. ASSUME NEW i \in 0..(Len(restore) - 1), i \in T PROVE i + 1 \in T
  <2>1. i + 1 \in 0..Len(restore) /\ i + 1 \in 1..Len(restore) /\ (i + 1) - 1 = i
    BY <1>0
  <2>2. after[i + 1] = Uncovered(after[i], restore[i + 1])
    BY <1>1, <2>1
  <2>3. IsShell(after[i + 1], fu)
    BY <1>3, <2>2, UncoveredTells
  <2> QED BY <2>1, <2>3
<1>4. Len(restore) \in T /\ \A i \in 0..Len(restore) : i \in T
  <2> HIDE DEF T
  <2> QED BY <1>0, <1>2, <1>3, UpTo
<1>5. ASSUME NEW n \in Names, NEW k \in 1..Len(restore), restore[k].name = n,
             \A l \in 1..Len(restore) : restore[l].name = n => l = k
      PROVE  As(after[Len(restore)].vars[n], restore[k])
  <2> DEFINE V == {i \in 0..Len(restore) : k <= i => As(after[i].vars[n], restore[k])}
  <2>1. 0 \in V
    BY <1>0
  <2>2. ASSUME NEW i \in 0..(Len(restore) - 1), i \in V PROVE i + 1 \in V
    <3>1. i + 1 \in 0..Len(restore) /\ i + 1 \in 1..Len(restore) /\ (i + 1) - 1 = i /\ i \in 0..Len(restore) /\ i \in Nat
      BY <1>0
    <3>2. after[i + 1] = Uncovered(after[i], restore[i + 1]) /\ IsShell(after[i], fu)
      BY <1>1, <1>4, <3>1
    <3>3. CASE i + 1 = k
      <4>1. As(after[i + 1].vars[n], restore[k])
        BY <3>2, <3>3, <1>5, UncoveredTells
      <4> QED BY <3>1, <4>1
    <3>4. CASE i + 1 # k /\ k <= i
      <4>1. restore[i + 1].name # n
        BY <3>1, <3>4, <1>5
      <4>2. after[i + 1].vars[n] = after[i].vars[n]
        <5>1. \A m \in Names : m # restore[i + 1].name => Uncovered(after[i], restore[i + 1]).vars[m] = after[i].vars[m]
          BY <3>2, UncoveredTells
        <5> QED BY <3>2, <4>1, <5>1, <1>5
      <4>3. As(after[i].vars[n], restore[k])
        BY <2>2, <3>4
      <4> QED BY <3>1, <4>2, <4>3
    <3>5. CASE ~(k <= i + 1)
      BY <3>1, <3>5
    <3> QED BY <3>1, <3>3, <3>4, <3>5
  <2>3. Len(restore) \in V
    <3> HIDE DEF V
    <3> QED BY <1>0, <2>1, <2>2, UpTo
  <2> QED BY <1>0, <2>3
<1> QED BY <1>1, <1>4, <1>5

-------------------------------------------------------------------------------
(* What is to be restored recalls each name that is assigned once. *)
Undoes(restore, vs, cmd) ==
  \A n \in Once(cmd) : \E k \in 1..Len(restore) :
     /\ restore[k].name = n /\ Recording(restore[k], vs[n])
     /\ \A l \in 1..Len(restore) : restore[l].name = n => l = k

LEMMA OnceTells ==
  ASSUME NEW cmd, IsList(cmd.assigns), NEW n \in Once(cmd)
  PROVE  n \in Names /\ \E k \in 1..Len(cmd.assigns) :
           cmd.assigns[k].name = n /\ \A l \in 1..Len(cmd.assigns) : cmd.assigns[l].name = n => l = k
<1> DEFINE S == {i \in DOMAIN cmd.assigns : cmd.assigns[i].name = n}
<1>1. Cardinality(S) = 1 /\ n \in Names
  BY DEF Once
<1>2. Len(cmd.assigns) \in Nat /\ DOMAIN cmd.assigns = 1..Len(cmd.assigns)
  BY ListTells
<1>3. IsFiniteSet(S)
  <2>1. IsFiniteSet(1..Len(cmd.assigns))
    BY <1>2, FS_Interval
  <2>2. S \subseteq 1..Len(cmd.assigns)
    BY <1>2
  <2> HIDE DEF S
  <2> QED BY <2>1, <2>2, FS_Subset
<1>4. PICK k : S = {k}
  <2> HIDE DEF S
  <2> QED BY <1>1, <1>3, FS_Singleton
<1>5. k \in S /\ \A l \in S : l = k
  <2> HIDE DEF S
  <2> QED BY <1>4
<1> QED BY <1>1, <1>2, <1>5

LEMMA CoversUndoes ==
  ASSUME NEW t, NEW r, NEW s, NEW fu, NEW cmd, IsList(cmd.assigns), 
         Covers(t, r, s, fu, cmd.assigns, FALSE, Len(cmd.assigns))
  PROVE  Undoes(r, s.vars, cmd)
<1> SUFFICES ASSUME NEW n \in Once(cmd)
             PROVE  \E k \in 1..Len(r) :
                       /\ r[k].name = n /\ Recording(r[k], s.vars[n])
                       /\ \A l \in 1..Len(r) : r[l].name = n => l = k
  BY DEF Undoes
<1>1. PICK k \in 1..Len(cmd.assigns) :
        cmd.assigns[k].name = n /\ \A l \in 1..Len(cmd.assigns) : cmd.assigns[l].name = n => l = k
  BY OnceTells
<1>2. Len(cmd.assigns) \in Nat
  BY ListTells
<1>3. Len(r) = Len(cmd.assigns) /\ \A j \in 1..Len(r) : r[j].name = cmd.assigns[j].name
  BY DEF Covers
<1>4. New(cmd.assigns, k)
  BY <1>1, <1>2 DEF New
<1>5. Recording(r[k], s.vars[cmd.assigns[k].name])
  BY <1>4 DEF Covers
<1> QED BY <1>1, <1>3, <1>5

(* Put back, each such name has the value it had, unless it is readonly now. *)
LEMMA UndoesTells ==
  ASSUME NEW s, NEW fu, IsShell(s, fu), NEW restore, IsList(restore), NEW vs, IsVars(vs),
         NEW cmd, Undoes(restore, vs, cmd), NEW n \in Once(cmd)
  PROVE  SameValue(vs, restore_prefix(s, restore).vars, n)
<1> DEFINE x == restore_prefix(s, restore).vars[n]
<1>1. PICK k \in 1..Len(restore) :
        /\ restore[k].name = n /\ Recording(restore[k], vs[n])
        /\ \A l \in 1..Len(restore) : restore[l].name = n => l = k
  BY DEF Undoes
<1>2. n \in Names
  BY DEF Once
<1>3. As(x, restore[k])
  BY <1>1, <1>2, RestorePrefixTells
<1>4. IsShell(restore_prefix(s, restore), fu)
  BY RestorePrefixTells
<1>5. Var(x) /\ Var(vs[n])
  BY <1>2, <1>4, ShellWith DEF IsVars
<1> HIDE DEF x
<1>6. x.assigned \in BOOLEAN /\ vs[n].assigned \in BOOLEAN /\ (~vs[n].assigned => vs[n].value = <<>>)
  BY <1>5, VarTells
<1>7. x.readonly \/ (vs[n].assigned = x.assigned /\ vs[n].value = x.value)
  BY <1>1, <1>3, <1>6 DEF As, Recording
<1> QED BY <1>7 DEF SameValue, x

-----------------------------------------------------------------------------
(* The invariant, and the commands that stay in their construct.           *)

(* What is owed, as a record; the descriptors in it are left for later. *)
IsFrame(f) ==
  /\ f = [kind |-> f.kind, todo |-> f.todo, saved |-> f.saved, restore |-> f.restore,
          positional |-> f.positional, command |-> f.command, before |-> f.before,
          execed |-> f.execed, fresh |-> f.fresh]
  /\ f.todo \in Seq(AllCommands) /\ f.command \in AllCommands
  /\ IsList(f.restore) /\ IsVars(f.before.vars)
  /\ ~IsSpecial(f.command) => Undoes(f.restore, f.before.vars, f.command)

Set2(f, to, fr) == [f EXCEPT !.todo = to, !.fresh = fr]
Onward(f, to) == Set2(f, to, FALSE)
Marked(f, ex) == [f EXCEPT !.execed = ex]

LEMMA Set2Is ==
  ASSUME NEW f, NEW a, NEW b, NEW c, NEW d, NEW e, NEW g, NEW h, NEW i, NEW j, NEW to, NEW fr,
         f = [kind |-> a, todo |-> b, saved |-> c, restore |-> d, positional |-> e, command |-> g,
              before |-> h, execed |-> i, fresh |-> j]
  PROVE  Set2(f, to, fr) = [kind |-> a, todo |-> to, saved |-> c, restore |-> d, positional |-> e, command |-> g,
                          before |-> h, execed |-> i, fresh |-> fr]
<1> DEFINE m == [kind |-> a, todo |-> to, saved |-> c, restore |-> d, positional |-> e, command |-> g,
                 before |-> h, execed |-> i, fresh |-> j]
<1>1. [f EXCEPT !.todo = to] = m
  OBVIOUS
<1>2. [m EXCEPT !.fresh = fr] = [kind |-> a, todo |-> to, saved |-> c, restore |-> d, positional |-> e, command |-> g,
                                    before |-> h, execed |-> i, fresh |-> fr]
  OBVIOUS
<1>3. Set2(f, to, fr) = [[f EXCEPT !.todo = to] EXCEPT !.fresh = fr]
  BY DEF Set2
<1> HIDE DEF m
<1> QED BY <1>1, <1>2, <1>3

LEMMA OnwardTells ==
  ASSUME NEW f, IsFrame(f), NEW to \in Seq(AllCommands)
  PROVE  /\ IsFrame(Onward(f, to))
         /\ Onward(f, to).saved = f.saved /\ Onward(f, to).before = f.before /\ Onward(f, to).execed = f.execed
<1> DEFINE g == [kind |-> f.kind, todo |-> to, saved |-> f.saved, restore |-> f.restore,
                 positional |-> f.positional, command |-> f.command, before |-> f.before,
                 execed |-> f.execed, fresh |-> FALSE]
<1>1. f = [kind |-> f.kind, todo |-> f.todo, saved |-> f.saved, restore |-> f.restore,
           positional |-> f.positional, command |-> f.command, before |-> f.before,
           execed |-> f.execed, fresh |-> f.fresh]
  BY DEF IsFrame
<1>a. \A fr : Set2(f, to, fr) = [kind |-> f.kind, todo |-> to, saved |-> f.saved, restore |-> f.restore,
                 positional |-> f.positional, command |-> f.command, before |-> f.before,
                 execed |-> f.execed, fresh |-> fr]
  BY <1>1, Set2Is
<1>2. Onward(f, to) = g
  BY <1>a DEF Onward
<1>3. /\ g.kind = f.kind /\ g.todo = to /\ g.saved = f.saved /\ g.restore = f.restore
      /\ g.positional = f.positional /\ g.command = f.command /\ g.before = f.before
      /\ g.execed = f.execed /\ g.fresh = FALSE
  OBVIOUS
<1>4. g = [kind |-> g.kind, todo |-> g.todo, saved |-> g.saved, restore |-> g.restore,
           positional |-> g.positional, command |-> g.command, before |-> g.before,
           execed |-> g.execed, fresh |-> g.fresh]
  OBVIOUS
<1> HIDE DEF g
<1>5. IsFrame(g)
  BY <1>3, <1>4 DEF IsFrame
<1> QED BY <1>2, <1>3, <1>5

LEMMA MarkedTells ==
  ASSUME NEW f, IsFrame(f), NEW ex
  PROVE  /\ IsFrame(Marked(f, ex))
         /\ Marked(f, ex).saved = f.saved /\ Marked(f, ex).before = f.before /\ Marked(f, ex).execed = ex
<1> DEFINE g == [kind |-> f.kind, todo |-> f.todo, saved |-> f.saved, restore |-> f.restore,
                 positional |-> f.positional, command |-> f.command, before |-> f.before,
                 execed |-> ex, fresh |-> f.fresh]
<1>1. f = [kind |-> f.kind, todo |-> f.todo, saved |-> f.saved, restore |-> f.restore,
           positional |-> f.positional, command |-> f.command, before |-> f.before,
           execed |-> f.execed, fresh |-> f.fresh]
  BY DEF IsFrame
<1>2. Marked(f, ex) = g
  BY <1>1 DEF Marked
<1>3. /\ g.kind = f.kind /\ g.todo = f.todo /\ g.saved = f.saved /\ g.restore = f.restore
      /\ g.positional = f.positional /\ g.command = f.command /\ g.before = f.before
      /\ g.execed = ex /\ g.fresh = f.fresh
  OBVIOUS
<1>4. g = [kind |-> g.kind, todo |-> g.todo, saved |-> g.saved, restore |-> g.restore,
           positional |-> g.positional, command |-> g.command, before |-> g.before,
           execed |-> g.execed, fresh |-> g.fresh]
  OBVIOUS
<1> HIDE DEF g
<1>5. IsFrame(g)
  BY <1>3, <1>4 DEF IsFrame
<1> QED BY <1>2, <1>3, <1>5

(* What a frame records when a construct is entered. *)
LEMMA FrameTells ==
  ASSUME NEW cmd \in AllCommands, NEW kind, NEW c, NEW p, NEW positional, IsList(p.restore),
         IsVars(sh.vars), (kind = "function" => Body[cmd.name] \in Seq(AllCommands)),
         cmd.body \in Seq(AllCommands),
         (~IsSpecial(cmd) => Undoes(p.restore, sh.vars, cmd))
  PROVE  LET f == Frame(cmd, kind, c, p, positional)
         IN /\ IsFrame(f) /\ f.saved = c.saved /\ f.before.fds = fds /\ f.execed = {}
            /\ f.command = cmd
<1> DEFINE to == IF kind = "function" THEN Body[cmd.name] ELSE cmd.body
           be == [fds |-> fds, vars |-> sh.vars]
           g == [kind |-> kind, todo |-> to, saved |-> c.saved, restore |-> p.restore,
                 positional |-> positional, command |-> cmd, before |-> be, execed |-> {}, fresh |-> TRUE]
<1>1. Frame(cmd, kind, c, p, positional) = g
  BY DEF Frame
<1>2. to \in Seq(AllCommands)
  OBVIOUS
<1>3. be.fds = fds /\ be.vars = sh.vars
  OBVIOUS
<1> HIDE DEF to, be
<1>4. /\ g.todo = to /\ g.saved = c.saved /\ g.restore = p.restore
      /\ g.command = cmd /\ g.before = be /\ g.execed = {}
  OBVIOUS
<1>5. g = [kind |-> g.kind, todo |-> g.todo, saved |-> g.saved, restore |-> g.restore,
           positional |-> g.positional, command |-> g.command, before |-> g.before,
           execed |-> g.execed, fresh |-> g.fresh]
  OBVIOUS
<1> HIDE DEF g
<1>6. IsFrame(g)
  BY <1>2, <1>3, <1>4, <1>5 DEF IsFrame
<1> QED BY <1>1, <1>3, <1>4, <1>6

-------------------------------------------------------------------------------
LEMMA CommandTells ==
  ASSUME NEW cmd \in AllCommands
  PROVE  /\ cmd.body \in Seq(AllCommands) /\ IsList(cmd.args) /\ IsList(cmd.options)
         /\ IsList(cmd.redirs) /\ Len(cmd.redirs) \in Nat /\ DOMAIN cmd.redirs = 1..Len(cmd.redirs)
         /\ \A i \in 1..Len(cmd.redirs) : cmd.redirs[i].fd \in 0..Top
         /\ IsList(cmd.assigns) /\ Len(cmd.assigns) \in Nat /\ DOMAIN cmd.assigns = 1..Len(cmd.assigns)
         /\ \A i \in 1..Len(cmd.assigns) : cmd.assigns[i].name \in Names
         /\ cmd.name = "{" => cmd.assigns = <<>>
         /\ cmd.name = "define" => cmd.args[1] \in DOMAIN Body
<1>1. IsList(cmd.redirs) /\ IsList(cmd.assigns)
  BY SimpleCommandShapes
<1>2. Len(cmd.redirs) \in Nat /\ DOMAIN cmd.redirs = 1..Len(cmd.redirs)
  BY <1>1, ListTells
<1>3. Len(cmd.assigns) \in Nat /\ DOMAIN cmd.assigns = 1..Len(cmd.assigns)
  BY <1>1, ListTells
<1> QED BY <1>1, <1>2, <1>3, SimpleCommandShapes

(* A shell that is one, with functions there are. *)
Sound(s) == \E fu \in SUBSET DOMAIN Body : IsShell(s, fu)
Framed(fs) == IsList(fs) /\ \A i \in 1..Len(fs) : IsFrame(fs[i])
Known ==
  /\ world \in Worlds /\ current \in AllCommands \cup {NoCommand}
  /\ Framed(frames) /\ Sound(sh)
  /\ exiting \in BOOLEAN

LEMMA SoundTells ==
  ASSUME NEW s, Sound(s), NEW w
  PROVE  IsVars(s.vars) /\ Sound([s EXCEPT !.status = w]) /\ [s EXCEPT !.status = w].vars = s.vars
         /\ Sound([s EXCEPT !.positional = w]) /\ [s EXCEPT !.positional = w].vars = s.vars
         /\ Sound([s EXCEPT !.dirs = w])
         /\ s.functions \subseteq DOMAIN Body
<1>1. PICK fu \in SUBSET DOMAIN Body : IsShell(s, fu)
  BY DEF Sound
<1>2. IsVars(s.vars) /\ s.functions = fu
  BY <1>1, ShellWith
<1>3. IsShell([s EXCEPT !.status = w], fu) /\ [s EXCEPT !.status = w].vars = s.vars
  BY <1>1, ShellWith
<1>4. IsShell([s EXCEPT !.positional = w], fu) /\ [s EXCEPT !.positional = w].vars = s.vars
  BY <1>1, ShellWith
<1>5. IsShell([s EXCEPT !.dirs = w], fu)
  BY <1>1, ShellWith
<1> QED BY <1>1, <1>2, <1>3, <1>4, <1>5 DEF Sound

(* POSIX 2.8.1 of one command. *)
Fate(cmd) ==
  exiting' = (exiting \/ (~interactive /\ Ends(cmd, ran'.error)) \/ (cmd.name = "exit" /\ ran'.executed))
ValuesKept(cmd) ==
  (~IsSpecial(cmd) /\ Len(frames') = Len(frames) /\ IsBuiltin(cmd) /\ cmd.name # "exec") =>
     \A n \in Once(cmd) : SameValue(sh.vars, sh'.vars, n)
After(cmd) == exiting' \in BOOLEAN /\ Framed(frames') /\ Sound(sh') /\ Fate(cmd) /\ ValuesKept(cmd)

LEMMA WentTells ==
  ASSUME NEW cmd, NEW e, NEW x
  PROVE  Went(cmd, e, x).error = e /\ Went(cmd, e, x).executed = x
BY DEF Went

LEMMA SameAgain ==
  ASSUME NEW v, NEW n
  PROVE  SameValue(v, v, n)
BY DEF SameValue

LEMMA SettledTells ==
  ASSUME Known, NEW cmd, NEW st, NEW e, NEW x, Settled(cmd, st, e, x)
  PROVE  Sound(sh') /\ ran'.error = e /\ ran'.executed = x /\ ValuesKept(cmd)
<1>1. sh' = [sh EXCEPT !.status = st] /\ ran' = Went(cmd, e, x)
  BY DEF Settled
<1>2. Sound(sh') /\ sh'.vars = sh.vars
  BY <1>1, SoundTells DEF Known
<1>3. ValuesKept(cmd)
  BY <1>2, SameAgain DEF ValuesKept
<1> QED BY <1>1, <1>2, <1>3, WentTells

LEMMA WordsFailTells ==
  ASSUME Known, NEW cmd \in AllCommands, WordsFail(cmd)
  PROVE  After(cmd)
<1>1. Settled(cmd, 2, "expansion", FALSE) /\ exiting' = (exiting \/ Fatal) /\ frames' = frames
  BY DEF WordsFail
<1>2. Sound(sh') /\ ran'.error = "expansion" /\ ran'.executed = FALSE /\ ValuesKept(cmd)
  BY <1>1, SettledTells
<1>3. Ends(cmd, ran'.error)
  BY <1>2 DEF Ends
<1>4. Fate(cmd)
  BY <1>1, <1>2, <1>3 DEF Fate, Fatal, Known
<1> QED BY <1>1, <1>2, <1>4 DEF After, Known

LEMMA NothingTells ==
  ASSUME Known, NEW cmd \in AllCommands, Nothing(cmd)
  PROVE  After(cmd)
<1>1. Settled(cmd, 0, "none", FALSE) /\ exiting' = exiting /\ frames' = frames
  BY DEF Nothing
<1>2. Sound(sh') /\ ran'.error = "none" /\ ran'.executed = FALSE /\ ValuesKept(cmd)
  BY <1>1, SettledTells
<1>3. ~Ends(cmd, ran'.error)
  BY <1>2 DEF Ends
<1>4. Fate(cmd)
  BY <1>1, <1>2, <1>3 DEF Fate, Known
<1> QED BY <1>1, <1>2, <1>4 DEF After, Known

LEMMA RefusedPrefixTells ==
  ASSUME Known, NEW cmd \in AllCommands, RefusedPrefix(cmd)
  PROVE  After(cmd)
<1>1. Settled(cmd, 2, "assignment", FALSE) /\ exiting' = (exiting \/ Fatal) /\ frames' = frames
  BY DEF RefusedPrefix
<1>2. Sound(sh') /\ ran'.error = "assignment" /\ ran'.executed = FALSE /\ ValuesKept(cmd)
  BY <1>1, SettledTells
<1>3. Ends(cmd, ran'.error)
  BY <1>2 DEF Ends
<1>4. Fate(cmd)
  BY <1>1, <1>2, <1>3 DEF Fate, Fatal, Known
<1> QED BY <1>1, <1>2, <1>4 DEF After, Known

LEMMA NamedTells ==
  ASSUME NEW p, NEW fu, Named(p, fu)
  PROVE  p.error \in {"none", "expansion", "assignment"} /\ IsShell(p.sh, fu)
BY DEF Named

LEMMA NoNameTells ==
  ASSUME Known, NEW cmd \in AllCommands, NEW forks, NoName(cmd, forks)
  PROVE  After(cmd)
<1> DEFINE all == Assignments(cmd)
<1>1. PICK fu \in SUBSET DOMAIN Body : IsShell(sh, fu)
  BY DEF Known, Sound
<1>2. Named(all, fu)
  BY <1>1, CommandTells, AssignmentsTell
<1>3. all.error \in {"none", "expansion", "assignment"} /\ IsShell(all.sh, fu)
  BY <1>2, NamedTells
<1>4. /\ cmd.name = "" /\ frames' = frames
      /\ \/ Settled(cmd, 2, "child", FALSE) /\ exiting' = exiting
         \/ \E st : /\ exiting' = (exiting \/ (all.error # "none" /\ Fatal))
                    /\ sh' = [all.sh EXCEPT !.status = st]
                    /\ ran' = Went(cmd, all.error, FALSE)
  BY DEF NoName
<1>5. CASE Settled(cmd, 2, "child", FALSE) /\ exiting' = exiting
  <2>2. Sound(sh') /\ ran'.error = "child" /\ ran'.executed = FALSE /\ ValuesKept(cmd)
    BY <1>5, SettledTells
  <2>3. ~Ends(cmd, ran'.error)
    BY <2>2 DEF Ends
  <2>4. Fate(cmd)
    BY <1>5, <2>2, <2>3 DEF Fate, Known
  <2> QED BY <1>4, <1>5, <2>2, <2>4 DEF After, Known
<1> HIDE DEF all
<1>6. CASE \E st : /\ exiting' = (exiting \/ (all.error # "none" /\ Fatal))
                   /\ sh' = [all.sh EXCEPT !.status = st]
                   /\ ran' = Went(cmd, all.error, FALSE)
  <2>1. PICK st : /\ exiting' = (exiting \/ (all.error # "none" /\ Fatal))
                  /\ sh' = [all.sh EXCEPT !.status = st]
                  /\ ran' = Went(cmd, all.error, FALSE)
    BY <1>6
  <2>2. Sound(all.sh)
    BY <1>3 DEF Sound
  <2>3. Sound(sh')
    BY <2>1, <2>2, SoundTells
  <2>4. ran'.error = all.error /\ ran'.executed = FALSE
    BY <2>1 DEF Went
  <2>5. Ends(cmd, ran'.error) <=> all.error # "none"
    BY <1>3, <2>4 DEF Ends
  <2>6. Fate(cmd)
    BY <2>1, <2>4, <2>5 DEF Fate, Fatal, Known
  <2>7. ValuesKept(cmd)
    BY <1>4 DEF ValuesKept, IsBuiltin, Special, Regular
  <2> QED BY <1>4, <2>1, <2>3, <2>6, <2>7 DEF After, Known
<1> QED BY <1>4, <1>5, <1>6

LEMMA DefineTells ==
  ASSUME Known, NEW cmd \in AllCommands, Define(cmd)
  PROVE  After(cmd)
<1>1. /\ cmd.name = "define" /\ sh' = [define_function(sh, cmd.args[1]) EXCEPT !.status = 0]
      /\ ran' = Went(cmd, "none", TRUE) /\ frames' = frames /\ exiting' = exiting
  BY DEF Define
<1>2. PICK fu \in SUBSET DOMAIN Body : IsShell(sh, fu)
  BY DEF Known, Sound
<1> DEFINE w == sh.functions \union {cmd.args[1]}
<1>3. w \in SUBSET DOMAIN Body
  <2>1. sh.functions = fu
    BY <1>2, ShellWith
  <2>2. cmd.args[1] \in DOMAIN Body
    BY <1>1, CommandTells
  <2> QED BY <2>1, <2>2
<1>4. define_function(sh, cmd.args[1]) = [sh EXCEPT !.functions = w]
  BY DEF define_function
<1> HIDE DEF w
<1>5. Sound([sh EXCEPT !.functions = w])
  <2>1. IsShell([sh EXCEPT !.functions = w], w)
    BY <1>2, ShellWith
  <2> QED BY <1>3, <2>1 DEF Sound
<1>6. Sound(sh')
  <2>1. Sound(define_function(sh, cmd.args[1]))
    BY <1>4, <1>5
  <2> QED BY <1>1, <2>1, SoundTells
<1>7. ran'.error = "none" /\ ran'.executed = TRUE
  BY <1>1 DEF Went
<1>8. Fate(cmd)
  BY <1>1, <1>7 DEF Fate, Known, Ends
<1>9. ValuesKept(cmd)
  BY <1>1 DEF ValuesKept, IsBuiltin, Special, Regular
<1> QED BY <1>1, <1>6, <1>8, <1>9 DEF After, Known

LEMMA ExternalTells ==
  ASSUME Known, NEW cmd \in AllCommands, NEW forks, External(cmd, forks)
  PROVE  After(cmd)
<1> DEFINE unexpanded == \E i \in DOMAIN cmd.assigns : cmd.assigns[i].fails
<1>1. /\ frames' = frames /\ ~IsBuiltin(cmd) /\ exiting' = (exiting \/ (unexpanded /\ Fatal))
      /\ \/ unexpanded /\ Settled(cmd, 2, "expansion", FALSE)
         \/ ~unexpanded /\ \E st, e, x : Settled(cmd, st, e, x) /\ e \in {"child", "none"}
  BY DEF External
<1>2. cmd.name # "exit"
  BY <1>1 DEF IsBuiltin, Special
<1> HIDE DEF unexpanded
<1>3. PICK st, e, x : Settled(cmd, st, e, x) /\ (unexpanded => e = "expansion") /\ (~unexpanded => e \in {"child", "none"})
  BY <1>1
<1>4. Sound(sh') /\ ran'.error = e /\ ValuesKept(cmd)
  BY <1>3, SettledTells
<1>5. Ends(cmd, ran'.error) <=> unexpanded
  BY <1>3, <1>4 DEF Ends
<1>6. Fate(cmd)
  BY <1>1, <1>2, <1>5 DEF Fate, Fatal, Known
<1> QED BY <1>1, <1>4, <1>6 DEF After, Known

-----------------------------------------------------------------------------
(* The constructs: each step keeps the invariant.                          *)

LEMMA FramedTells ==
  ASSUME NEW fs, Framed(fs)
  PROVE  /\ \A f : IsFrame(f) => Framed(Append(fs, f)) /\ Len(Append(fs, f)) = Len(fs) + 1
         /\ Len(fs) \in Nat
         /\ fs # <<>> => Framed(Front(fs)) /\ IsFrame(Last(fs))
<1>1. IsList(fs) /\ \A i \in 1..Len(fs) : IsFrame(fs[i])
  BY DEF Framed
<1>2. Len(fs) \in Nat
  BY <1>1, ListTells
<1>3. ASSUME NEW f, IsFrame(f) PROVE Framed(Append(fs, f)) /\ Len(Append(fs, f)) = Len(fs) + 1
  <2> DEFINE gs == Append(fs, f)
  <2>1. IsList(gs) /\ Len(gs) = Len(fs) + 1 /\ (\A i \in 1..Len(fs) : gs[i] = fs[i]) /\ gs[Len(fs) + 1] = f
    BY <1>1, Appended
  <2> HIDE DEF gs
  <2>2. ASSUME NEW i \in 1..Len(gs) PROVE IsFrame(gs[i])
    <3>1. i \in 1..Len(fs) \/ i = Len(fs) + 1
      BY <1>2, <2>1
    <3> QED BY <1>1, <1>3, <2>1, <3>1
  <2>3. Framed(gs) /\ Len(gs) = Len(fs) + 1
    BY <2>1, <2>2 DEF Framed
  <2> QED BY <2>3 DEF gs
<1>4. ASSUME fs # <<>> PROVE Framed(Front(fs)) /\ IsFrame(Last(fs))
  <2> DEFINE gs == Front(fs)
  <2>1. /\ Len(fs) >= 1 /\ Last(fs) = fs[Len(fs)] /\ IsList(gs) /\ Len(gs) = Len(fs) - 1
        /\ \A i \in 1..(Len(fs) - 1) : gs[i] = fs[i]
    BY <1>1, <1>4, Fronted
  <2> HIDE DEF gs
  <2>2. ASSUME NEW i \in 1..Len(gs) PROVE IsFrame(gs[i])
    <3>1. i \in 1..(Len(fs) - 1) /\ i \in 1..Len(fs)
      BY <1>2, <2>1
    <3> QED BY <1>1, <2>1, <3>1
  <2>3. Len(fs) \in 1..Len(fs)
    BY <1>2, <2>1
  <2>4. Framed(gs) /\ IsFrame(Last(fs))
    BY <1>1, <2>1, <2>2, <2>3 DEF Framed
  <2> QED BY <2>4 DEF gs
<1> QED BY <1>2, <1>3, <1>4

(* The prefix of a command that is dispatched can be undone. *)
LEMMA PrefixSound ==
  ASSUME Known, NEW cmd \in AllCommands, Dispatched(cmd), NEW persist,
         NEW p, p = apply_prefix(sh, cmd.assigns, persist)
  PROVE  /\ Sound(p.sh) /\ IsList(p.restore)
         /\ \E fu : IsShell(sh, fu) /\ Covers(p.sh, p.restore, sh, fu, cmd.assigns, persist, Len(cmd.assigns))
         /\ \A s : Sound(s) => Sound(restore_prefix(s, p.restore))
<1>1. PICK fu \in SUBSET DOMAIN Body : IsShell(sh, fu)
  BY DEF Known, Sound
<1>2. IsList(cmd.assigns) /\ Len(cmd.assigns) \in Nat /\ DOMAIN cmd.assigns = 1..Len(cmd.assigns)
      /\ \A i \in 1..Len(cmd.assigns) : cmd.assigns[i].name \in Names
  BY CommandTells
<1>3. \A l \in 1..Len(cmd.assigns) : cmd.assigns[l].name \in Names /\ ~sh.vars[cmd.assigns[l].name].readonly
  BY <1>2 DEF Dispatched, is_readonly
<1>4. Covers(p.sh, p.restore, sh, fu, cmd.assigns, persist, Len(cmd.assigns))
  BY <1>1, <1>2, <1>3, PrefixTells
<1>5. IsShell(p.sh, fu) /\ IsList(p.restore)
  BY <1>4 DEF Covers
<1>6. ASSUME NEW s, Sound(s) PROVE Sound(restore_prefix(s, p.restore))
  <2>1. PICK fv \in SUBSET DOMAIN Body : IsShell(s, fv)
    BY <1>6 DEF Sound
  <2>2. IsShell(restore_prefix(s, p.restore), fv)
    BY <1>5, <2>1, RestorePrefixTells
  <2> QED BY <2>1, <2>2 DEF Sound
<1> QED BY <1>1, <1>4, <1>5, <1>6 DEF Sound

LEMMA PrefixUndone ==
  ASSUME Known, NEW cmd \in AllCommands, Dispatched(cmd),
         NEW p, p = apply_prefix(sh, cmd.assigns, FALSE)
  PROVE  /\ Undoes(p.restore, sh.vars, cmd)
         /\ \A s : Sound(s) => \A n \in Once(cmd) : SameValue(sh.vars, restore_prefix(s, p.restore).vars, n)
<1>1. IsList(p.restore) /\ IsList(cmd.assigns)
  BY PrefixSound, CommandTells
<1>2. PICK fu : IsShell(sh, fu) /\ Covers(p.sh, p.restore, sh, fu, cmd.assigns, FALSE, Len(cmd.assigns))
  BY PrefixSound
<1>3. Undoes(p.restore, sh.vars, cmd)
  BY <1>1, <1>2, CoversUndoes
<1>4. IsVars(sh.vars)
  BY <1>2, ShellWith
<1>5. ASSUME NEW s, Sound(s), NEW n \in Once(cmd) PROVE SameValue(sh.vars, restore_prefix(s, p.restore).vars, n)
  <2>1. PICK fv \in SUBSET DOMAIN Body : IsShell(s, fv)
    BY <1>5 DEF Sound
  <2> QED BY <1>1, <1>3, <1>4, <1>5, <2>1, UndoesTells
<1> QED BY <1>3, <1>5

(* What the redirections of a command have come to. *)
LEMMA ApplyingTells ==
  ASSUME NEW cmd \in AllCommands, NEW keep, NEW c, c = apply_redirections(keep, fds, files, cmd.redirs, NoSub)
  PROVE  c.ok \in BOOLEAN /\ c.fatal \in BOOLEAN /\ (c.fatal => ~c.ok)
<1>1. Shaped(c)
  BY CommandTells, ShapedTells
<1>2. PICK f, g, s, k, b : \E o, a \in BOOLEAN : Is(c, f, g, s, k, o, a, b) /\ (a => ~o)
  BY <1>1 DEF Shaped
<1>3. PICK o, a \in BOOLEAN : Is(c, f, g, s, k, o, a, b) /\ (a => ~o)
  BY <1>2
<1> QED BY <1>3 DEF Is

LEMMA BodyTells ==
  ASSUME Known, NEW name \in sh.functions
  PROVE  Body[name] \in Seq(AllCommands)
<1>1. sh.functions \subseteq DOMAIN Body
  BY SoundTells DEF Known
<1> QED BY <1>1, SimpleCommandShapes

LEMMA EnterFunctionTells ==
  ASSUME Known, NEW cmd \in AllCommands, EnterFunction(cmd)
  PROVE  After(cmd)
<1> DEFINE c == apply_redirections(TRUE, fds, files, cmd.redirs, NoSub)
           p == apply_prefix(sh, cmd.assigns, FALSE)
           deep == Depth >= MaxFunctionDepth
           back == restore_prefix(p.sh, p.restore)
           f == Frame(cmd, "function", c, p, sh.positional)
<1>1. Dispatched(cmd) /\ IsFunction(cmd)
  BY DEF EnterFunction
<1>2. exiting' = (exiting \/ ((c.fatal \/ (c.ok /\ p.fatal)) /\ Fatal))
  BY DEF EnterFunction
<1>3. \/ /\ c.ok /\ ~deep /\ frames' = Append(frames, f) /\ sh' = set_positional(p.sh, cmd.args)
         /\ ran' = Went(cmd, IF p.fatal THEN "prefix" ELSE "none", TRUE)
      \/ /\ c.ok /\ deep /\ sh' = [back EXCEPT !.status = 1] /\ frames' = frames
         /\ ran' = Went(cmd, IF p.fatal THEN "prefix" ELSE "depth", FALSE)
      \/ /\ ~c.ok /\ Settled(cmd, 2, IF c.fatal THEN "expansion" ELSE "redirection", FALSE) /\ frames' = frames
  BY DEF EnterFunction, Settled
<1>4. c.ok \in BOOLEAN /\ c.fatal \in BOOLEAN /\ (c.fatal => ~c.ok)
  BY ApplyingTells
<1>5. /\ Sound(p.sh) /\ IsList(p.restore) /\ Undoes(p.restore, sh.vars, cmd)
      /\ Sound(back) /\ \A n \in Once(cmd) : SameValue(sh.vars, back.vars, n)
  <2>1. /\ Sound(p.sh) /\ IsList(p.restore) /\ Undoes(p.restore, sh.vars, cmd)
        /\ \A s : Sound(s) => /\ Sound(restore_prefix(s, p.restore))
                              /\ \A n \in Once(cmd) : SameValue(sh.vars, restore_prefix(s, p.restore).vars, n)
    BY <1>1, PrefixUndone, PrefixSound
  <2> HIDE DEF p
  <2> QED BY <2>1
<1>6. cmd.name \notin Special /\ cmd.name \in sh.functions
  BY <1>1 DEF IsFunction
<1>7. cmd.name # "exit"
  BY <1>6 DEF Special
<1>8. IsFrame(f)
  <2>1. Body[cmd.name] \in Seq(AllCommands) /\ IsVars(sh.vars)
    BY <1>6, BodyTells, SoundTells DEF Known
  <2> QED BY <1>5, <2>1, FrameTells, CommandTells
<1> HIDE DEF c, p, deep, back, f
<1>9. CASE c.ok /\ ~deep /\ frames' = Append(frames, f) /\ sh' = set_positional(p.sh, cmd.args)
           /\ ran' = Went(cmd, IF p.fatal THEN "prefix" ELSE "none", TRUE)
  <2>1. Framed(frames') /\ Len(frames') # Len(frames)
    BY <1>8, <1>9, FramedTells DEF Known
  <2>2. Sound(sh')
    BY <1>5, <1>9, SoundTells DEF set_positional
  <2>3. ran'.error = IF p.fatal THEN "prefix" ELSE "none"
    BY <1>9 DEF Went
  <2>4. Fate(cmd)
    BY <1>2, <1>4, <1>7, <1>9, <2>3 DEF Fate, Fatal, Ends
  <2> QED BY <1>2, <2>1, <2>2, <2>4 DEF After, ValuesKept, Known
<1>10. CASE c.ok /\ deep /\ sh' = [back EXCEPT !.status = 1] /\ frames' = frames
            /\ ran' = Went(cmd, IF p.fatal THEN "prefix" ELSE "depth", FALSE)
  <2>1. Sound(sh') /\ sh'.vars = back.vars
    BY <1>5, <1>10, SoundTells
  <2>2. ran'.error = IF p.fatal THEN "prefix" ELSE "depth"
    BY <1>10 DEF Went
  <2>3. Fate(cmd)
    BY <1>2, <1>4, <1>7, <1>10, <2>2 DEF Fate, Fatal, Ends
  <2> QED BY <1>2, <1>5, <1>10, <2>1, <2>3 DEF After, ValuesKept, Known
<1>11. CASE ~c.ok /\ Settled(cmd, 2, IF c.fatal THEN "expansion" ELSE "redirection", FALSE) /\ frames' = frames
  <2> DEFINE e == IF c.fatal THEN "expansion" ELSE "redirection"
  <2>1. Sound(sh') /\ ran'.error = e /\ ValuesKept(cmd)
    BY <1>11, SettledTells
  <2>2. Fate(cmd)
    BY <1>2, <1>4, <1>6, <1>7, <1>11, <2>1 DEF Fate, Fatal, Ends
  <2> QED BY <1>2, <1>11, <2>1, <2>2 DEF After, Known
<1> QED BY <1>3, <1>9, <1>10, <1>11

LEMMA EnterEvalTells ==
  ASSUME Known, NEW cmd \in AllCommands, EnterEval(cmd)
  PROVE  After(cmd)
<1> DEFINE c == apply_redirections(TRUE, fds, files, cmd.redirs, NoSub)
           persist == ~cmd.demoted
           p == apply_prefix(sh, cmd.assigns, persist)
           f == Frame(cmd, "eval", c, p, sh.positional)
<1>1. Dispatched(cmd) /\ cmd.name = "eval"
  BY DEF EnterEval
<1>2. exiting' = (exiting \/ ((c.fatal \/ (c.ok /\ p.fatal) \/ (~c.ok /\ ~cmd.demoted)) /\ Fatal))
  BY DEF EnterEval
<1>3. \/ /\ c.ok /\ frames' = Append(frames, f) /\ sh' = p.sh
         /\ ran' = Went(cmd, IF p.fatal THEN "prefix" ELSE "none", TRUE)
      \/ /\ ~c.ok /\ Settled(cmd, 2, IF c.fatal THEN "expansion" ELSE "redirection", FALSE) /\ frames' = frames
  BY DEF EnterEval
<1>4. c.ok \in BOOLEAN /\ c.fatal \in BOOLEAN /\ (c.fatal => ~c.ok)
  BY ApplyingTells
<1>5. Sound(p.sh) /\ IsList(p.restore)
  <2> HIDE DEF persist
  <2>1. p = apply_prefix(sh, cmd.assigns, persist)
    OBVIOUS
  <2> HIDE DEF p
  <2> QED BY <1>1, <2>1, PrefixSound
<1>6. ASSUME ~IsSpecial(cmd) PROVE Undoes(p.restore, sh.vars, cmd)
  <2>1. persist = FALSE
    BY <1>1, <1>6 DEF IsSpecial, Special
  <2>2. p = apply_prefix(sh, cmd.assigns, FALSE)
    BY <2>1
  <2> HIDE DEF p, persist
  <2> QED BY <1>1, <2>2, PrefixUndone
<1>8. IsFrame(f)
  <2>1. IsVars(sh.vars)
    BY SoundTells DEF Known
  <2> HIDE DEF persist, p, c
  <2> QED BY <1>5, <1>6, <2>1, FrameTells, CommandTells
<1>10. Ends(cmd, "redirection") <=> ~cmd.demoted
  BY <1>1 DEF Ends, Special
<1> HIDE DEF c, p, f, persist
<1>9. CASE c.ok /\ frames' = Append(frames, f) /\ sh' = p.sh
           /\ ran' = Went(cmd, IF p.fatal THEN "prefix" ELSE "none", TRUE)
  <2>1. Framed(frames') /\ Len(frames') # Len(frames)
    BY <1>8, <1>9, FramedTells DEF Known
  <2>3. ran'.error = IF p.fatal THEN "prefix" ELSE "none"
    BY <1>9 DEF Went
  <2>4. Fate(cmd)
    BY <1>1, <1>2, <1>4, <1>9, <2>3 DEF Fate, Fatal, Ends
  <2> QED BY <1>2, <1>5, <1>9, <2>1, <2>4 DEF After, ValuesKept, Known
<1>11. CASE ~c.ok /\ Settled(cmd, 2, IF c.fatal THEN "expansion" ELSE "redirection", FALSE) /\ frames' = frames
  <2> DEFINE e == IF c.fatal THEN "expansion" ELSE "redirection"
  <2>1. Sound(sh') /\ ran'.error = e /\ ValuesKept(cmd)
    BY <1>11, SettledTells
  <2>3. Ends(cmd, e) <=> (c.fatal \/ ~cmd.demoted)
    BY <1>10 DEF Ends
  <2>2. Fate(cmd)
    BY <1>1, <1>2, <1>4, <1>11, <2>1, <2>3 DEF Fate, Fatal
  <2> QED BY <1>2, <1>11, <2>1, <2>2 DEF After, Known
<1> QED BY <1>3, <1>9, <1>11

LEMMA EnterGroupTells ==
  ASSUME Known, NEW cmd \in AllCommands, EnterGroup(cmd)
  PROVE  After(cmd)
<1> DEFINE c == apply_redirections(TRUE, fds, files, cmd.redirs, NoSub)
           f == Frame(cmd, "group", c, NoPrefix, sh.positional)
<1>1. cmd.name = "{" /\ exiting' = (exiting \/ (c.fatal /\ Fatal))
  BY DEF EnterGroup
<1>3. \/ c.ok /\ frames' = Append(frames, f) /\ sh' = sh /\ ran' = Went(cmd, "none", TRUE)
      \/ /\ ~c.ok /\ Settled(cmd, 2, IF c.fatal THEN "expansion" ELSE "redirection", FALSE) /\ frames' = frames
  BY DEF EnterGroup
<1>4. c.ok \in BOOLEAN /\ c.fatal \in BOOLEAN /\ (c.fatal => ~c.ok)
  BY ApplyingTells
<1>5. IsList(NoPrefix.restore) /\ Undoes(NoPrefix.restore, sh.vars, cmd)
  <2>1. NoPrefix.restore = <<>>
    BY DEF NoPrefix
  <2>2. IsList(<<>>)
    <3>1. <<>> \in Seq({})
      OBVIOUS
    <3> QED BY <3>1, ListOf
  <2>3. cmd.assigns = <<>>
    BY <1>1, CommandTells
  <2>4. Once(cmd) = {}
    <3> SUFFICES ASSUME NEW n \in Once(cmd) PROVE FALSE
      OBVIOUS
    <3>1. \E k \in 1..Len(cmd.assigns) : TRUE
      BY CommandTells, OnceTells
    <3> QED BY <2>3, <3>1
  <2> QED BY <2>1, <2>2, <2>4 DEF Undoes
<1>8. IsFrame(f)
  <2>1. IsVars(sh.vars)
    BY SoundTells DEF Known
  <2> HIDE DEF c
  <2> QED BY <1>5, <2>1, FrameTells, CommandTells
<1>10. ~Ends(cmd, "redirection")
  BY <1>1 DEF Ends, Special
<1> HIDE DEF c, f
<1>9. CASE c.ok /\ frames' = Append(frames, f) /\ sh' = sh /\ ran' = Went(cmd, "none", TRUE)
  <2>1. Framed(frames') /\ Len(frames') # Len(frames)
    BY <1>8, <1>9, FramedTells DEF Known
  <2>3. ran'.error = "none" /\ ran'.executed = TRUE
    BY <1>9 DEF Went
  <2>4. Fate(cmd)
    BY <1>1, <1>4, <1>9, <2>3 DEF Fate, Ends
  <2> QED BY <1>1, <1>9, <2>1, <2>4 DEF After, ValuesKept, Known
<1>11. CASE ~c.ok /\ Settled(cmd, 2, IF c.fatal THEN "expansion" ELSE "redirection", FALSE) /\ frames' = frames
  <2> DEFINE e == IF c.fatal THEN "expansion" ELSE "redirection"
  <2>1. Sound(sh') /\ ran'.error = e /\ ValuesKept(cmd)
    BY <1>11, SettledTells
  <2>3. Ends(cmd, e) <=> c.fatal
    BY <1>10 DEF Ends
  <2>2. Fate(cmd)
    BY <1>1, <1>4, <1>11, <2>1, <2>3 DEF Fate, Fatal
  <2> QED BY <1>1, <1>11, <2>1, <2>2 DEF After, Known
<1> QED BY <1>3, <1>9, <1>11

LEMMA SoundEnvironment ==
  ASSUME Known, NEW cmd \in AllCommands
  PROVE  Sound(Environment(sh, cmd.assigns))
<1>1. PICK fu \in SUBSET DOMAIN Body : IsShell(sh, fu)
  BY DEF Known, Sound
<1>2. IsShell(Environment(sh, cmd.assigns), fu)
  BY <1>1, EnvironmentTells, CommandTells
<1> QED BY <1>2 DEF Sound

(* exec marks every frame with what it changed. *)
LEMMA ExecedTells ==
  ASSUME Framed(frames), NEW table
  PROVE  LET gs == Execed(table)
         IN /\ Framed(gs) /\ Len(gs) = Len(frames)
            /\ \A i \in 1..Len(frames) :
                  /\ gs[i].saved = frames[i].saved /\ gs[i].before = frames[i].before
                  /\ gs[i].execed = frames[i].execed \union {f \in 0..Top : table[f] # fds[f]}
<1> DEFINE gs == Execed(table)
           ex(i) == frames[i].execed \union {f \in 0..Top : table[f] # fds[f]}
<1>1. Len(frames) \in Nat /\ DOMAIN frames = 1..Len(frames)
  BY ListTells DEF Framed
<1>2. gs = [i \in 1..Len(frames) |-> Marked(frames[i], ex(i))]
  BY <1>1 DEF Execed, Marked
<1>3. \A i \in 1..Len(frames) : gs[i] = Marked(frames[i], ex(i))
  BY <1>2
<1> HIDE DEF ex
<1>4. \A i \in 1..Len(frames) : /\ IsFrame(gs[i]) /\ gs[i].saved = frames[i].saved
                                /\ gs[i].before = frames[i].before /\ gs[i].execed = ex(i)
  <2> TAKE i \in 1..Len(frames)
  <2>1. IsFrame(frames[i]) /\ gs[i] = Marked(frames[i], ex(i))
    BY <1>3 DEF Framed
  <2> HIDE DEF gs
  <2> QED BY <2>1, MarkedTells
<1> DEFINE S == {gs[i] : i \in 1..Len(frames)}
<1>5. gs \in [1..Len(frames) -> S]
  <2>1. gs = [i \in 1..Len(frames) |-> gs[i]] /\ \A i \in 1..Len(frames) : gs[i] \in S
    BY <1>2
  <2> HIDE DEF gs, S
  <2> QED BY <2>1
<1> HIDE DEF gs, S
<1>6. Len(gs) = Len(frames) /\ IsList(gs)
  BY <1>1, <1>5, FunctionLength, ListOf
<1>7. Framed(gs)
  BY <1>4, <1>6 DEF Framed
<1> QED BY <1>4, <1>6, <1>7 DEF gs, ex

LEMMA ExecTells ==
  ASSUME Known, NEW cmd \in AllCommands, Exec(cmd)
  PROVE  After(cmd)
<1> DEFINE c == apply_redirections(FALSE, fds, files, cmd.redirs, NoSub)
           persist == ~cmd.demoted
           p == apply_prefix(sh, cmd.assigns, persist)
           leaves == ~cmd.demoted /\ Fatal
           back == restore_prefix(p.sh, p.restore)
           env == Environment(sh, cmd.assigns)
<1>1. Dispatched(cmd) /\ cmd.name = "exec" /\ frames' = Execed(c.fds)
  BY DEF Exec
<1>2. \/ /\ ~c.ok /\ exiting' = (exiting \/ leaves \/ (c.fatal /\ Fatal))
         /\ Settled(cmd, 2, IF c.fatal THEN "expansion" ELSE "redirection", FALSE)
      \/ /\ c.ok /\ exiting' = (exiting \/ (p.fatal /\ Fatal)) /\ sh' = [back EXCEPT !.status = 0]
         /\ ran' = Went(cmd, IF p.fatal THEN "prefix" ELSE "none", TRUE)
      \/ c.ok /\ sh' = env /\ ran' = Went(cmd, "none", TRUE) /\ exiting' = exiting
      \/ /\ c.ok /\ sh' = [env EXCEPT !.status = 127] /\ exiting' = (exiting \/ leaves)
         /\ ran' = Went(cmd, "usage", TRUE)
  BY DEF Exec
<1>3. c.ok \in BOOLEAN /\ c.fatal \in BOOLEAN /\ (c.fatal => ~c.ok)
  BY ApplyingTells
<1>4. Sound(back)
  <2> HIDE DEF persist
  <2>1. p = apply_prefix(sh, cmd.assigns, persist)
    OBVIOUS
  <2> HIDE DEF p
  <2>2. Sound(p.sh) /\ \A s : Sound(s) => Sound(restore_prefix(s, p.restore))
    BY <1>1, <2>1, PrefixSound
  <2> QED BY <2>2
<1>5. Sound(env)
  BY SoundEnvironment
<1>6. Framed(frames')
  BY <1>1, ExecedTells DEF Known
<1>7. ValuesKept(cmd)
  BY <1>1 DEF ValuesKept
<1>8. cmd.name # "exit" /\ (Ends(cmd, "redirection") <=> ~cmd.demoted) /\ (Ends(cmd, "usage") <=> ~cmd.demoted)
  BY <1>1 DEF Ends, Special
<1> HIDE DEF c, p, back, env, persist
<1>9. CASE /\ ~c.ok /\ exiting' = (exiting \/ leaves \/ (c.fatal /\ Fatal))
           /\ Settled(cmd, 2, IF c.fatal THEN "expansion" ELSE "redirection", FALSE)
  <2> DEFINE e == IF c.fatal THEN "expansion" ELSE "redirection"
  <2>1. Sound(sh') /\ ran'.error = e
    BY <1>9, SettledTells
  <2>2. Ends(cmd, e) <=> (c.fatal \/ ~cmd.demoted)
    BY <1>8 DEF Ends
  <2> HIDE DEF e
  <2>3. Fate(cmd)
    BY <1>8, <1>9, <2>1, <2>2 DEF Fate, Fatal
  <2> QED BY <1>6, <1>7, <1>9, <2>1, <2>3 DEF After
<1>10. CASE /\ c.ok /\ exiting' = (exiting \/ (p.fatal /\ Fatal)) /\ sh' = [back EXCEPT !.status = 0]
            /\ ran' = Went(cmd, IF p.fatal THEN "prefix" ELSE "none", TRUE)
  <2>1. Sound(sh') /\ ran'.error = IF p.fatal THEN "prefix" ELSE "none"
    BY <1>4, <1>10, SoundTells DEF Went
  <2>2. Fate(cmd)
    BY <1>8, <1>10, <2>1 DEF Fate, Fatal, Ends
  <2> QED BY <1>6, <1>7, <1>10, <2>1, <2>2 DEF After
<1>11. CASE c.ok /\ sh' = env /\ ran' = Went(cmd, "none", TRUE) /\ exiting' = exiting
  <2>1. ran'.error = "none"
    BY <1>11 DEF Went
  <2>2. Fate(cmd)
    BY <1>8, <1>11, <2>1 DEF Fate, Ends, Known
  <2> QED BY <1>5, <1>6, <1>7, <1>11, <2>2 DEF After, Known
<1>12. CASE /\ c.ok /\ sh' = [env EXCEPT !.status = 127] /\ exiting' = (exiting \/ leaves)
            /\ ran' = Went(cmd, "usage", TRUE)
  <2>1. Sound(sh') /\ ran'.error = "usage"
    BY <1>5, <1>12, SoundTells DEF Went
  <2>2. Fate(cmd)
    BY <1>8, <1>12, <2>1 DEF Fate, Fatal
  <2> QED BY <1>6, <1>7, <1>12, <2>1, <2>2 DEF After
<1> QED BY <1>2, <1>9, <1>10, <1>11, <1>12

LEMMA SoundCalled ==
  ASSUME NEW s, Sound(s), NEW cmd \in AllCommands, NEW line, NEW at_eof
  PROVE  Sound(Called(s, cmd, line, at_eof).sh)
<1>1. PICK fu \in SUBSET DOMAIN Body : IsShell(s, fu)
  BY DEF Sound
<1>2. IsShell(Called(s, cmd, line, at_eof).sh, fu)
  BY <1>1, CalledTells, CommandTells
<1> QED BY <1>2 DEF Sound

LEMMA BuiltinTells ==
  ASSUME Known, NEW cmd \in AllCommands, NEW line, NEW at_eof, Builtin(cmd, line, at_eof)
  PROVE  After(cmd)
<1> DEFINE c == apply_redirections(TRUE, fds, files, cmd.redirs, NoSub)
           persist == IsSpecial(cmd)
           p == apply_prefix(sh, cmd.assigns, persist)
           nothing == ~Readable(c.fds[0])
           r == Called(p.sh, cmd, IF nothing THEN <<>> ELSE line, nothing \/ at_eof)
           usage == c.ok /\ r.status # 0 /\ persist
           leaves == c.fatal \/ (c.ok /\ p.fatal) \/ (~c.ok /\ persist) \/ usage
           back == restore_prefix(r.sh, p.restore)
           st == IF Unwritten(cmd, c.fds) THEN 1 ELSE r.status
<1>1. Dispatched(cmd) /\ frames' = frames
  BY DEF Builtin
<1>2. exiting' = (exiting \/ (leaves /\ Fatal) \/ (c.ok /\ cmd.name = "exit"))
  BY DEF Builtin
<1>3. \/ /\ c.ok /\ sh' = [back EXCEPT !.status = st]
         /\ ran' = Went(cmd, IF p.fatal THEN "prefix" ELSE IF r.status # 0 THEN "usage" ELSE "none", TRUE)
      \/ ~c.ok /\ Settled(cmd, 2, IF c.fatal THEN "expansion" ELSE "redirection", FALSE)
  BY DEF Builtin
<1>4. c.ok \in BOOLEAN /\ c.fatal \in BOOLEAN /\ (c.fatal => ~c.ok)
  BY ApplyingTells
<1>5. Sound(p.sh) /\ \A s : Sound(s) => Sound(restore_prefix(s, p.restore))
  <2> HIDE DEF persist
  <2>1. p = apply_prefix(sh, cmd.assigns, persist)
    OBVIOUS
  <2> HIDE DEF p
  <2> QED BY <1>1, <2>1, PrefixSound
<1>6. Sound(r.sh)
  <2> HIDE DEF p, nothing
  <2> QED BY <1>5, SoundCalled
<1>7. Sound(back)
  <2> HIDE DEF p, r
  <2> QED BY <1>5, <1>6
<1>8. ASSUME ~IsSpecial(cmd) PROVE \A n \in Once(cmd) : SameValue(sh.vars, back.vars, n)
  <2>1. persist = FALSE
    BY <1>8 DEF IsSpecial
  <2>2. p = apply_prefix(sh, cmd.assigns, FALSE)
    BY <2>1
  <2> HIDE DEF p, persist, r
  <2>3. \A s : Sound(s) => \A n \in Once(cmd) : SameValue(sh.vars, restore_prefix(s, p.restore).vars, n)
    BY <1>1, <2>2, PrefixUndone
  <2> QED BY <1>6, <2>3
<1>9. (Ends(cmd, "redirection") <=> persist) /\ (Ends(cmd, "usage") <=> persist)
  BY DEF Ends, IsSpecial
<1> HIDE DEF c, p, r, back, st, persist
<1>10. CASE /\ c.ok /\ sh' = [back EXCEPT !.status = st]
            /\ ran' = Went(cmd, IF p.fatal THEN "prefix" ELSE IF r.status # 0 THEN "usage" ELSE "none", TRUE)
  <2>1. Sound(sh') /\ sh'.vars = back.vars
    BY <1>7, <1>10, SoundTells
  <2>2. ValuesKept(cmd)
    BY <1>8, <2>1 DEF ValuesKept
  <2> DEFINE e == IF p.fatal THEN "prefix" ELSE IF r.status # 0 THEN "usage" ELSE "none"
  <2>3. ran'.error = e /\ ran'.executed = TRUE
    BY <1>10 DEF Went
  <2>4. Ends(cmd, e) <=> (p.fatal \/ (r.status # 0 /\ persist))
    BY <1>9 DEF Ends
  <2> HIDE DEF e
  <2>5. Fate(cmd)
    BY <1>2, <1>4, <1>10, <2>3, <2>4 DEF Fate, Fatal
  <2> QED BY <1>1, <1>2, <2>1, <2>2, <2>5 DEF After, Known
<1>11. CASE ~c.ok /\ Settled(cmd, 2, IF c.fatal THEN "expansion" ELSE "redirection", FALSE)
  <2> DEFINE e == IF c.fatal THEN "expansion" ELSE "redirection"
  <2>1. Sound(sh') /\ ran'.error = e /\ ran'.executed = FALSE /\ ValuesKept(cmd)
    BY <1>11, SettledTells
  <2>2. Ends(cmd, e) <=> (c.fatal \/ persist)
    BY <1>9 DEF Ends
  <2> HIDE DEF e
  <2>3. Fate(cmd)
    BY <1>2, <1>4, <1>11, <2>1, <2>2 DEF Fate, Fatal
  <2> QED BY <1>1, <1>2, <2>1, <2>3 DEF After, Known
<1> QED BY <1>3, <1>10, <1>11

(* Whatever command it is. *)
LEMMA RunTells ==
  ASSUME Known, NEW cmd \in AllCommands, Run(cmd)
  PROVE  After(cmd)
BY WordsFailTells, NoNameTells, RefusedPrefixTells, NothingTells, EnterFunctionTells,
   EnterEvalTells,
   EnterGroupTells, ExecTells, BuiltinTells, ExternalTells, DefineTells DEF Run

LEMMA LeaveTells ==
  ASSUME Known, Leave
  PROVE  /\ Framed(frames') /\ Sound(sh') /\ exiting' = exiting
         /\ ~IsSpecial(Last(frames).command) =>
               \A n \in Once(Last(frames).command) : SameValue(Last(frames).before.vars, sh'.vars, n)
<1> DEFINE f == Last(frames)
           s == IF f.kind = "function" THEN set_positional(sh, f.positional) ELSE sh
<1>1. frames # <<>> /\ frames' = Front(frames) /\ exiting' = exiting /\ sh' = restore_prefix(s, f.restore)
  BY DEF Leave
<1>2. Framed(Front(frames)) /\ IsFrame(f)
  BY <1>1, FramedTells DEF Known
<1>3. Sound(s)
  BY SoundTells DEF set_positional, Known
<1> HIDE DEF f, s
<1>4. PICK fu \in SUBSET DOMAIN Body : IsShell(s, fu)
  BY <1>3 DEF Sound
<1>5. IsList(f.restore) /\ IsVars(f.before.vars) /\ (~IsSpecial(f.command) => Undoes(f.restore, f.before.vars, f.command))
  BY <1>2 DEF IsFrame
<1>6. Sound(sh')
  BY <1>1, <1>4, <1>5, RestorePrefixTells DEF Sound
<1>7. ASSUME ~IsSpecial(f.command), NEW n \in Once(f.command) PROVE SameValue(f.before.vars, sh'.vars, n)
  BY <1>1, <1>4, <1>5, <1>7, UndoesTells
<1> QED BY <1>1, <1>2, <1>6, <1>7 DEF f

LEMMA ContinueTells ==
  ASSUME Known, Continue
  PROVE  /\ Framed(frames') /\ Len(frames') = Len(frames) /\ current' \in AllCommands
         /\ \A i \in 1..Len(frames) : /\ frames'[i].saved = frames[i].saved /\ frames'[i].before = frames[i].before
                                      /\ frames'[i].execed = frames[i].execed
<1> DEFINE f == Last(frames)
           g == Onward(f, Tail(f.todo))
           n == Len(frames)
<1>1. frames # <<>> /\ f.todo # <<>> /\ current' = Head(f.todo) /\ frames' = [frames EXCEPT ![n] = g]
  BY DEF Continue, Onward, Set2
<1>2. IsFrame(f)
  BY <1>1, FramedTells DEF Known
<1>3. f.todo \in Seq(AllCommands)
  BY <1>2 DEF IsFrame
<1>4. Head(f.todo) \in AllCommands /\ Tail(f.todo) \in Seq(AllCommands)
  BY <1>1, <1>3, HeadTailProperties
<1>5. IsList(frames) /\ n \in Nat /\ n >= 1 /\ f = frames[n] /\ frames = [i \in 1..n |-> frames[i]]
  BY <1>1, ListTells, Fronted DEF Known, Framed
<1> HIDE DEF f
<1>6. IsFrame(g) /\ g.saved = f.saved /\ g.before = f.before /\ g.execed = f.execed
  BY <1>2, <1>4, OnwardTells
<1> HIDE DEF g, n
<1> DEFINE gs == [i \in 1..n |-> IF i = n THEN g ELSE frames[i]]
<1>7. frames' = gs
  BY <1>1, <1>5
<1> DEFINE S == {gs[i] : i \in 1..n}
<1>8. gs \in [1..n -> S]
  <2>1. gs = [i \in 1..n |-> gs[i]] /\ \A i \in 1..n : gs[i] \in S
    OBVIOUS
  <2> HIDE DEF gs, S
  <2> QED BY <2>1
<1>9. \A i \in 1..n : gs[i] = IF i = n THEN g ELSE frames[i]
  OBVIOUS
<1> HIDE DEF gs, S
<1>10. Len(gs) = n /\ IsList(gs)
  BY <1>5, <1>8, FunctionLength, ListOf
<1>11. \A i \in 1..n : IsFrame(frames[i])
  BY DEF Known, Framed, n
<1>12. \A i \in 1..n : /\ IsFrame(gs[i]) /\ gs[i].saved = frames[i].saved /\ gs[i].before = frames[i].before
                       /\ gs[i].execed = frames[i].execed
  BY <1>5, <1>6, <1>9, <1>11
<1> QED BY <1>1, <1>4, <1>7, <1>10, <1>12 DEF Framed, n

LEMMA InitKnown == Init => Known
<1> SUFFICES ASSUME Init PROVE Known
  OBVIOUS
<1>1. IsShell(sh, {})
  BY StartedTells DEF Init
<1>2. Sound(sh)
  BY <1>1 DEF Sound
<1>3. Framed(frames)
  <2>1. frames = <<>> /\ <<>> \in Seq({})
    BY DEF Init
  <2>2. IsList(frames) /\ Len(frames) = 0
    BY <2>1, ListOf
  <2> QED BY <2>2 DEF Framed
<1> QED BY <1>2, <1>3 DEF Init, Known

(* Only leaving a construct makes fewer of them. *)
LEMMA RunGrows ==
  ASSUME Known, NEW cmd \in AllCommands, Run(cmd)
  PROVE  ~(Len(frames') < Len(frames))
<1>0. Framed(frames) /\ Len(frames) \in Nat
  BY FramedTells DEF Known
<1>1. \/ frames' = frames
      \/ \E f : frames' = Append(frames, f)
      \/ \E t : frames' = Execed(t)
  <2>1. CASE WordsFail(cmd)
    BY <2>1 DEF WordsFail
  <2>2. CASE \E forks \in BOOLEAN : NoName(cmd, forks)
    BY <2>2 DEF NoName
  <2>3. CASE RefusedPrefix(cmd)
    BY <2>3 DEF RefusedPrefix
  <2>4. CASE Nothing(cmd)
    BY <2>4 DEF Nothing
  <2>5. CASE EnterFunction(cmd)
    BY <2>5 DEF EnterFunction
  <2>6. CASE EnterEval(cmd)
    BY <2>6 DEF EnterEval
  <2>7. CASE EnterGroup(cmd)
    BY <2>7 DEF EnterGroup
  <2>8. CASE Exec(cmd)
    BY <2>8 DEF Exec
  <2>9. CASE \E line \in Lines, at_eof \in BOOLEAN : Builtin(cmd, line, at_eof)
    BY <2>9 DEF Builtin
  <2>10. CASE \E forks \in BOOLEAN : External(cmd, forks)
    BY <2>10 DEF External
  <2>11. CASE Define(cmd)
    BY <2>11 DEF Define
  <2> QED BY <2>1, <2>2, <2>3, <2>4, <2>5, <2>6, <2>7, <2>8, <2>9, <2>10, <2>11 DEF Run
<1>2. ASSUME NEW f, frames' = Append(frames, f) PROVE Len(frames') = Len(frames) + 1
  BY <1>0, <1>2, Appended DEF Framed
<1>3. ASSUME NEW t, frames' = Execed(t) PROVE Len(frames') = Len(frames)
  BY <1>0, <1>3, ExecedTells
<1> QED BY <1>0, <1>1, <1>2, <1>3

(* What every step does to what is known. *)
LEMMA StepKnown ==
  ASSUME Known, [Next]_vars
  PROVE  /\ Known'
         /\ Stepped => current \in AllCommands /\ Fate(current) /\ ValuesKept(current)
         /\ Len(frames') < Len(frames) => Leave
<1>0. Framed(frames) /\ Len(frames) \in Nat
  BY FramedTells DEF Known
<1>1. CASE Read
  <2>1. \A w \in Worlds : w \subseteq AllCommands
    BY SimpleCommandShapes
  <2> QED BY <1>0, <1>1, <2>1 DEF Read, Known, Stepped
<1>2. CASE Execute
  <2>1. current \in AllCommands /\ Run(current) /\ current' = NoCommand /\ world' = world
    BY <1>2 DEF Execute, Known
  <2>2. After(current)
    BY <2>1, RunTells
  <2>3. ~(Len(frames') < Len(frames))
    BY <2>1, RunGrows
  <2>4. Known'
    BY <2>1, <2>2 DEF After, Known
  <2> QED BY <2>1, <2>2, <2>3, <2>4 DEF After
<1>3. CASE Continue
  <2>1. Framed(frames') /\ Len(frames') = Len(frames) /\ current' \in AllCommands
    BY <1>3, ContinueTells
  <2>2. current = NoCommand /\ world' = world /\ sh' = sh /\ exiting' = exiting
    BY <1>3 DEF Continue
  <2> QED BY <1>0, <2>1, <2>2 DEF Known, Stepped
<1>4. CASE Leave
  <2>1. Framed(frames') /\ Sound(sh') /\ exiting' = exiting
    BY <1>4, LeaveTells
  <2>2. current = NoCommand /\ world' = world /\ current' = current
    BY <1>4 DEF Leave
  <2> QED BY <1>4, <2>1, <2>2 DEF Known, Stepped
<1>5. CASE Removed
  <2>1. PICK d : sh' = [sh EXCEPT !.dirs = Dirs \ {d}]
    BY <1>5 DEF Removed
  <2> DEFINE w == Dirs \ {d}
  <2> HIDE DEF w
  <2>2. sh' = [sh EXCEPT !.dirs = w]
    BY <2>1 DEF w
  <2>3. Sound(sh')
    BY <2>2, SoundTells DEF Known
  <2>4. frames' = frames /\ current' = current /\ world' = world /\ exiting' = exiting
    BY <1>5 DEF Removed
  <2> QED BY <1>0, <2>3, <2>4 DEF Known, Stepped
<1>6. CASE UNCHANGED vars
  BY <1>0, <1>6 DEF vars, Known, Stepped
<1> QED BY <1>1, <1>2, <1>3, <1>4, <1>5, <1>6 DEF Next

(* The inductive invariant, for any names, directories, commands and bodies:    *)
(* the shell's tables keep their shape, every function, eval and group that is *)
(* going on can put back what its prefix covered, and what is run next is one  *)
(* of the script's commands.                                                  *)
THEOREM KnownThroughout == Spec => []Known
<1>1. Known /\ [Next]_vars => Known'
  BY StepKnown
<1> QED BY InitKnown, <1>1, PTL DEF Spec

(* FateIsPosix: an error ends the shell when POSIX 2.8.1 says so and it is not  *)
(* interactive, and nothing else does but exit, whatever the commands are.     *)
THEOREM FatesArePosix == Spec => FateIsPosix
<1>1. Known /\ [Next]_vars => [Stepped =>
          exiting' = (exiting \/ (~interactive /\ Ends(current, ran'.error))
                      \/ (current.name = "exit" /\ ran'.executed))]_vars
  BY StepKnown DEF Fate
<1> QED BY <1>1, KnownThroughout, PTL DEF Spec, FateIsPosix

(* ValuesComeBack: a name assigned once in a prefix has afterwards the value it *)
(* had, whatever the command was and did, but for readonly and the special     *)
(* builtins (apply_prefix, restore_prefix).                                    *)
THEOREM PrefixValuesComeBack == Spec => ValuesComeBack
<1>1. Known /\ [Next]_vars =>
        [/\ (Stepped /\ ~IsSpecial(current) /\ Len(frames') = Len(frames) /\ IsBuiltin(current) /\ current.name # "exec") =>
              \A n \in Once(current) : SameValue(sh.vars, sh'.vars, n)
         /\ (Len(frames') < Len(frames) /\ ~IsSpecial(Last(frames).command)) =>
              \A n \in Once(Last(frames).command) : SameValue(Last(frames).before.vars, sh'.vars, n)]_vars
  <2> SUFFICES ASSUME Known, [Next]_vars
      PROVE  /\ (Stepped /\ ~IsSpecial(current) /\ Len(frames') = Len(frames) /\ IsBuiltin(current) /\ current.name # "exec") =>
                    \A n \in Once(current) : SameValue(sh.vars, sh'.vars, n)
             /\ (Len(frames') < Len(frames) /\ ~IsSpecial(Last(frames).command)) =>
                    \A n \in Once(Last(frames).command) : SameValue(Last(frames).before.vars, sh'.vars, n)
    OBVIOUS
  <2>1. Stepped => ValuesKept(current)
    BY StepKnown
  <2>2. Len(frames') < Len(frames) => Leave
    BY StepKnown
  <2> QED BY <2>1, <2>2, LeaveTells DEF ValuesKept
<1> QED BY <1>1, KnownThroughout, PTL DEF Spec, ValuesComeBack

-----------------------------------------------------------------------------
(* What the copies owe to the constructs that are going on.                *)

(* What is owed to each construct that is going on: its table as it was can be *)
(* had from the copies, each copy is kept for one of them, and at SaveFrom and *)
(* above nothing else is open.                                                *)
Owing(t, f) == IsTable(f.before.fds) /\ Owed(t, f.saved) /\ Recalls(t, f.saved, f.before.fds)
Owes(t, fs) ==
  /\ \A i \in 1..Len(fs) : Owing(t, fs[i])
  /\ \A i, j \in 1..Len(fs) : \A d \in High : CopyIn(fs[i].saved, d) /\ CopyIn(fs[j].saved, d) => i = j
  /\ \A d \in High : t[d] # Closed => \E i \in 1..Len(fs) : CopyIn(fs[i].saved, d)

(* What a construct did not redirect is as it found it, or an exec changed it.  *)
View(t, fs, i) == IF i = Len(fs) THEN t ELSE fs[i + 1].before.fds
Sees(t, fs) ==
  /\ \A i \in 1..Len(fs) : \A d \in User :
        SavesFd(fs[i].saved, d) \/ View(t, fs, i)[d] = fs[i].before.fds[d] \/ d \in fs[i].execed
  /\ \A i \in 1..Len(fs) : i < Len(fs) => fs[i + 1].execed \subseteq fs[i].execed

LEMMA OwedSame ==
  ASSUME NEW t, NEW s, Owed(t, s), NEW u, \A d \in High : CopyIn(s, d) => u[d] = t[d]
  PROVE  Owed(u, s) /\ \A table : Recalls(t, s, table) => Recalls(u, s, table)
<1>1. /\ s \in Seq(SavedFds) /\ Len(s) \in Nat
      /\ \A k \in 1..Len(s) : s[k].copy # -1 => s[k].copy \in High /\ t[s[k].copy] # Closed
  BY OwedTells
<1>2. \A k \in 1..Len(s) : s[k].copy # -1 => u[s[k].copy] = t[s[k].copy]
  BY <1>1 DEF CopyIn
<1>3. Owed(u, s)
  BY <1>1, <1>2 DEF Owed
<1>4. ASSUME NEW table, Recalls(t, s, table) PROVE Recalls(u, s, table)
  BY <1>2, <1>4 DEF Recalls
<1> QED BY <1>3, <1>4

LEMMA OwingSame ==
  ASSUME NEW t, NEW f, Owing(t, f), NEW u, NEW g, \A d \in High : CopyIn(f.saved, d) => u[d] = t[d],
         g.saved = f.saved, g.before = f.before
  PROVE  Owing(u, g)
<1>1. Owed(u, f.saved) /\ \A table : Recalls(t, f.saved, table) => Recalls(u, f.saved, table)
  BY OwedSame DEF Owing
<1> QED BY <1>1 DEF Owing

LEMMA CopyTells ==
  ASSUME NEW t, NEW s, Owed(t, s), NEW d \in High, CopyIn(s, d)
  PROVE  t[d] # Closed
<1>1. PICK k \in 1..Len(s) : s[k].copy = d
  BY DEF CopyIn
<1>2. d # -1
  BY Descriptors
<1> QED BY <1>1, <1>2 DEF Owed

(* A construct is entered. *)
Entering(t, fs, n, g, u, gs) ==
  /\ n \in Nat /\ Len(fs) = n /\ Len(gs) = n + 1 /\ gs[n + 1] = g /\ \A i \in 1..n : gs[i] = fs[i]
  /\ Undoable(u, g.saved, TRUE, t) /\ g.before.fds = t /\ g.execed = {}

LEMMA Entered ==
  ASSUME NEW t, NEW fs, NEW n, Owes(t, fs), Sees(t, fs), IsTable(t),
         NEW g, NEW u, NEW gs, Entering(t, fs, n, g, u, gs)
  PROVE  IsTable(u) /\ Owes(u, gs) /\ Sees(u, gs)
<1>0. /\ n \in Nat /\ Len(fs) = n /\ Len(gs) = n + 1 /\ gs[n + 1] = g /\ \A i \in 1..n : gs[i] = fs[i]
      /\ Undoable(u, g.saved, TRUE, t) /\ g.before.fds = t /\ g.execed = {}
  BY DEF Entering
<1>1. /\ IsTable(u) /\ Owed(u, g.saved) /\ Recalls(u, g.saved, t)
      /\ \A d \in High : IF CopyIn(g.saved, d) THEN t[d] = Closed ELSE u[d] = t[d]
      /\ \A d \in User : ~SavesFd(g.saved, d) => u[d] = t[d]
  BY <1>0 DEF Undoable
<1>2. \A i \in 1..(n + 1) : i \in 1..n \/ i = n + 1
  BY <1>0
<1>3. \A i \in 1..n : Owing(t, fs[i])
  BY <1>0 DEF Owes
<1>4. ASSUME NEW i \in 1..n, NEW d \in High, CopyIn(fs[i].saved, d)
      PROVE  t[d] # Closed /\ ~CopyIn(g.saved, d) /\ u[d] = t[d]
  <2>1. t[d] # Closed
    BY <1>0, <1>3, <1>4, CopyTells DEF Owing
  <2> QED BY <1>0, <1>1, <2>1
<1>5. \A i \in 1..n : Owing(u, fs[i])
  BY <1>0, <1>3, <1>4, OwingSame
<1>6. Owing(u, g)
  BY <1>0, <1>1 DEF Owing
<1>7. \A i \in 1..(n + 1) : Owing(u, gs[i])
  BY <1>0, <1>2, <1>5, <1>6
<1>8. ASSUME NEW i \in 1..(n + 1), NEW j \in 1..(n + 1), NEW d \in High,
             CopyIn(gs[i].saved, d), CopyIn(gs[j].saved, d)
      PROVE  i = j
  <2>1. CASE i \in 1..n /\ j \in 1..n
    BY <1>0, <1>8, <2>1 DEF Owes
  <2>2. CASE i \in 1..n /\ j = n + 1
    BY <1>0, <1>4, <1>8, <2>2
  <2>3. CASE j \in 1..n /\ i = n + 1
    BY <1>0, <1>4, <1>8, <2>3
  <2> QED BY <1>0, <1>2, <2>1, <2>2, <2>3
<1>9. ASSUME NEW d \in High, u[d] # Closed PROVE \E i \in 1..(n + 1) : CopyIn(gs[i].saved, d)
  <2>1. CASE CopyIn(g.saved, d)
    BY <1>0, <2>1
  <2>2. CASE ~CopyIn(g.saved, d)
    <3>1. t[d] # Closed
      BY <1>0, <1>1, <1>9, <2>2
    <3>2. PICK i \in 1..n : CopyIn(fs[i].saved, d)
      BY <1>0, <3>1 DEF Owes
    <3>3. i \in 1..(n + 1) /\ gs[i] = fs[i]
      BY <1>0
    <3> QED BY <1>0, <3>2, <3>3
  <2> QED BY <1>0, <2>1, <2>2
<1>10. Owes(u, gs)
  BY <1>0, <1>7, <1>8, <1>9 DEF Owes
<1>11. ASSUME NEW i \in 1..(n + 1), NEW d \in User
       PROVE  SavesFd(gs[i].saved, d) \/ View(u, gs, i)[d] = gs[i].before.fds[d] \/ d \in gs[i].execed
  <2>1. CASE i = n + 1
    BY <1>0, <1>1, <2>1 DEF View
  <2>2. CASE i \in 1..n
    <3>1. View(u, gs, i) = View(t, fs, i)
      <4>1. CASE i = n
        BY <1>0, <4>1 DEF View
      <4>2. CASE i # n
        <5>1. i + 1 \in 1..n
          BY <1>0, <2>2, <4>2
        <5> QED BY <1>0, <2>2, <4>2, <5>1 DEF View
      <4> QED BY <1>0, <4>1, <4>2
    <3> QED BY <1>0, <2>2, <3>1 DEF Sees
  <2> QED BY <1>0, <1>2, <2>1, <2>2
<1>12. ASSUME NEW i \in 1..(n + 1), i < n + 1 PROVE gs[i + 1].execed \subseteq gs[i].execed
  <2>1. CASE i = n
    BY <1>0, <2>1
  <2>2. CASE i # n
    <3>1. i \in 1..n /\ i + 1 \in 1..n /\ i < n
      BY <1>0, <1>12, <2>2
    <3> QED BY <1>0, <3>1 DEF Sees
  <2> QED BY <1>0, <2>1, <2>2
<1>13. Sees(u, gs)
  BY <1>0, <1>11, <1>12 DEF Sees
<1> QED BY <1>0, <1>1, <1>10, <1>13

(* A construct is left. *)
LEMMA Leaving ==
  ASSUME NEW t, NEW fs, NEW n \in Nat, Len(fs) = n + 1, Owes(t, fs), Sees(t, fs), IsTable(t),
         NEW gs, Len(gs) = n, \A i \in 1..n : gs[i] = fs[i],
         NEW u, u = restore_fds(t, fs[n + 1].saved)
  PROVE  /\ IsTable(u) /\ Owes(u, gs) /\ Sees(u, gs)
         /\ \A d \in User : u[d] = fs[n + 1].before.fds[d] \/ (d \in fs[n + 1].execed /\ ~SavesFd(fs[n + 1].saved, d))
<1> DEFINE f == fs[n + 1]
<1>0. n + 1 \in 1..(n + 1) /\ \A i \in 1..n : i \in 1..(n + 1)
  OBVIOUS
<1>1. IsTable(f.before.fds) /\ Owed(t, f.saved) /\ Recalls(t, f.saved, f.before.fds)
  BY <1>0 DEF Owes, Owing
<1> HIDE DEF f
<1>2. /\ IsTable(u)
      /\ \A d \in High : IF CopyIn(f.saved, d) THEN u[d] = Closed ELSE u[d] = t[d]
      /\ \A d \in User : u[d] = IF SavesFd(f.saved, d) THEN f.before.fds[d] ELSE t[d]
  <2>1. u = restore_fds(t, f.saved)
    BY DEF f
  <2> QED BY <1>1, <2>1, RestoredTells
<1>3. \A d \in User : SavesFd(f.saved, d) \/ t[d] = f.before.fds[d] \/ d \in f.execed
  <2>1. View(t, fs, n + 1) = t
    BY DEF View
  <2> QED BY <1>0, <2>1 DEF Sees, f
<1>4. \A d \in User : u[d] = f.before.fds[d] \/ (d \in f.execed /\ ~SavesFd(f.saved, d))
  BY <1>2, <1>3
<1>5. \A i \in 1..n : Owing(t, gs[i])
  BY <1>0 DEF Owes
<1>6. ASSUME NEW i \in 1..n, NEW d \in High, CopyIn(gs[i].saved, d) PROVE u[d] = t[d]
  <2>1. ~CopyIn(f.saved, d)
    BY <1>0, <1>6 DEF Owes, f
  <2> QED BY <1>2, <2>1
<1>7. \A i \in 1..n : Owing(u, gs[i])
  BY <1>5, <1>6, OwingSame
<1>8. \A i, j \in 1..n : \A d \in High : CopyIn(gs[i].saved, d) /\ CopyIn(gs[j].saved, d) => i = j
  BY <1>0 DEF Owes
<1>9. ASSUME NEW d \in High, u[d] # Closed PROVE \E i \in 1..n : CopyIn(gs[i].saved, d)
  <2>1. ~CopyIn(f.saved, d) /\ t[d] # Closed
    BY <1>2, <1>9
  <2>2. PICK i \in 1..(n + 1) : CopyIn(fs[i].saved, d)
    BY <2>1 DEF Owes
  <2>3. i # n + 1
    BY <2>1, <2>2 DEF f
  <2> QED BY <2>2, <2>3
<1>10. Owes(u, gs)
  BY <1>7, <1>8, <1>9 DEF Owes
<1>11. ASSUME NEW i \in 1..n, NEW d \in User
       PROVE  SavesFd(gs[i].saved, d) \/ View(u, gs, i)[d] = gs[i].before.fds[d] \/ d \in gs[i].execed
  <2>0. SavesFd(fs[i].saved, d) \/ View(t, fs, i)[d] = fs[i].before.fds[d] \/ d \in fs[i].execed
    BY <1>0 DEF Sees
  <2>1. CASE i = n
    <3>1. View(u, gs, i) = u /\ View(t, fs, i) = f.before.fds
      BY <2>1 DEF View, f
    <3>2. f.execed \subseteq fs[i].execed
      BY <1>0, <2>1 DEF Sees, f
    <3> QED BY <1>4, <2>0, <3>1, <3>2
  <2>2. CASE i # n
    <3>1. i + 1 \in 1..n /\ i # n + 1
      BY <2>2
    <3>2. View(u, gs, i) = View(t, fs, i)
      BY <2>2, <3>1 DEF View
    <3> QED BY <2>0, <3>2
  <2> QED BY <2>1, <2>2
<1>12. ASSUME NEW i \in 1..n, i < n PROVE gs[i + 1].execed \subseteq gs[i].execed
  <2>1. i + 1 \in 1..n /\ i \in 1..(n + 1) /\ i < n + 1
    BY <1>12
  <2> QED BY <2>1 DEF Sees
<1>13. Sees(u, gs)
  BY <1>11, <1>12 DEF Sees
<1> QED BY <1>2, <1>4, <1>10, <1>13 DEF f

(* An exec changes the table for every construct that is going on. *)
Marks(t, fs, u, gs) ==
  /\ Len(gs) = Len(fs) /\ Undoable(u, <<>>, FALSE, t)
  /\ \A i \in 1..Len(fs) : /\ gs[i].saved = fs[i].saved /\ gs[i].before = fs[i].before
                           /\ gs[i].execed = fs[i].execed \union {d \in 0..Top : u[d] # t[d]}

LEMMA Marking ==
  ASSUME NEW t, NEW fs, NEW n \in Nat, Len(fs) = n, Owes(t, fs), Sees(t, fs), IsTable(t),
         NEW u, NEW gs, Marks(t, fs, u, gs)
  PROVE  IsTable(u) /\ Owes(u, gs) /\ Sees(u, gs)
<1>0. /\ Undoable(u, <<>>, FALSE, t) /\ Len(gs) = n
      /\ \A i \in 1..n : /\ gs[i].saved = fs[i].saved /\ gs[i].before = fs[i].before
                         /\ gs[i].execed = fs[i].execed \union {d \in 0..Top : u[d] # t[d]}
  BY DEF Marks
<1>1. IsTable(u) /\ \A d \in High : u[d] = t[d]
  <2>1. \A d : ~CopyIn(<<>>, d)
    BY <1>0 DEF CopyIn
  <2> QED BY <1>0, <2>1 DEF Undoable
<1>2. \A i \in 1..n : Owing(u, gs[i])
  <2> TAKE i \in 1..n
  <2>1. Owing(t, fs[i])
    BY <1>0 DEF Owes
  <2> QED BY <1>0, <1>1, <2>1, OwingSame
<1>3. Owes(u, gs)
  BY <1>0, <1>1, <1>2 DEF Owes
<1>4. ASSUME NEW i \in 1..n, NEW d \in User
      PROVE  SavesFd(gs[i].saved, d) \/ View(u, gs, i)[d] = gs[i].before.fds[d] \/ d \in gs[i].execed
  <2>0. SavesFd(fs[i].saved, d) \/ View(t, fs, i)[d] = fs[i].before.fds[d] \/ d \in fs[i].execed
    BY <1>0 DEF Sees
  <2>1. CASE i = n
    <3>1. View(u, gs, i) = u /\ View(t, fs, i) = t
      BY <1>0, <2>1 DEF View
    <3>2. d \in 0..Top
      BY Descriptors
    <3>3. u[d] = t[d] \/ d \in gs[i].execed
      BY <1>0, <3>2
    <3> QED BY <1>0, <2>0, <3>1, <3>3
  <2>2. CASE i # n
    <3>1. i + 1 \in 1..n
      BY <1>0, <2>2
    <3>2. View(u, gs, i) = View(t, fs, i)
      BY <1>0, <2>2, <3>1 DEF View
    <3> QED BY <1>0, <2>0, <3>2
  <2> QED BY <1>0, <2>1, <2>2
<1>5. ASSUME NEW i \in 1..n, i < n PROVE gs[i + 1].execed \subseteq gs[i].execed
  <2>1. i + 1 \in 1..n /\ fs[i + 1].execed \subseteq fs[i].execed
    BY <1>0, <1>5 DEF Sees
  <2> QED BY <1>0, <2>1
<1>6. Sees(u, gs)
  BY <1>0, <1>4, <1>5 DEF Sees
<1> QED BY <1>0, <1>1, <1>3, <1>6

(* The next command of a body is begun. *)
LEMMA Beginning ==
  ASSUME NEW t, NEW fs, NEW n \in Nat, Len(fs) = n, Owes(t, fs), Sees(t, fs), NEW gs, Len(gs) = n,
         \A i \in 1..n : gs[i].saved = fs[i].saved /\ gs[i].before = fs[i].before /\ gs[i].execed = fs[i].execed
  PROVE  Owes(t, gs) /\ Sees(t, gs)
<1>1. Owes(t, gs)
  BY DEF Owes, Owing
<1>2. \A i \in 1..n : View(t, gs, i) = View(t, fs, i)
  <2> TAKE i \in 1..n
  <2>1. i = n \/ i + 1 \in 1..n
    OBVIOUS
  <2> QED BY <2>1 DEF View
<1>3. ASSUME NEW i \in 1..n, i < n PROVE gs[i + 1].execed \subseteq gs[i].execed
  <2>1. i + 1 \in 1..n /\ fs[i + 1].execed \subseteq fs[i].execed
    BY <1>3 DEF Sees
  <2> QED BY <2>1
<1>4. Sees(t, gs)
  BY <1>2, <1>3 DEF Sees
<1> QED BY <1>1, <1>4

-----------------------------------------------------------------------------
(* What a command does to the descriptors.                                 *)

LEMMA RedirectionsUndo ==
  ASSUME StaysBelow, IsTable(fds), NEW cmd \in AllCommands, NEW keep,
         NEW c, c = apply_redirections(keep, fds, files, cmd.redirs, NoSub)
  PROVE  Undoable(c.fds, c.saved, keep, fds)
<1>1. Len(cmd.redirs) \in Nat /\ DOMAIN cmd.redirs = 1..Len(cmd.redirs)
  BY CommandTells
<1>2. \A i \in 1..Len(cmd.redirs) : cmd.redirs[i].fd \in User
  <2> TAKE i \in 1..Len(cmd.redirs)
  <2>1. cmd.redirs[i].fd \in 0..Top
    BY CommandTells
  <2>2. cmd.redirs[i].fd < SaveFrom
    BY <1>1 DEF StaysBelow
  <2> QED BY <2>1, <2>2, Descriptors DEF User
<1>3. Applied(c, keep, fds)
  BY <1>1, <1>2, RedirectionsTell
<1> QED BY <1>3, AppliedTells

LEMMA Undone ==
  ASSUME StaysBelow, IsTable(fds), NEW cmd \in AllCommands,
         NEW c, c = apply_redirections(TRUE, fds, files, cmd.redirs, NoSub)
  PROVE  restore_fds(c.fds, c.saved) = fds
<1>1. Undoable(c.fds, c.saved, TRUE, fds)
  BY RedirectionsUndo
<1> QED BY <1>1, RestoreUndoes

(* What a command does to the descriptors: nothing, unless it enters a          *)
(* construct, or it is exec. *)
Enters(cmd) ==
  \E c, f : /\ Undoable(c.fds, c.saved, TRUE, fds) /\ fds' = c.fds /\ frames' = Append(frames, f)
            /\ f.saved = c.saved /\ f.before.fds = fds /\ f.execed = {}
Execs(cmd) ==
  /\ cmd.name = "exec"
  /\ \E t : Undoable(t, <<>>, FALSE, fds) /\ fds' = t /\ frames' = Execed(t)
Quiet == fds' = fds /\ frames' = frames
Hands(cmd) == child' = child \/ \E t : IsTable(t) /\ child'.fds = Inherited(t)
Descends(cmd) == (Quiet \/ Enters(cmd) \/ Execs(cmd)) /\ Hands(cmd)

LEMMA EnterDescends ==
  ASSUME StaysBelow, IsTable(fds), NEW cmd \in AllCommands, NEW kind, NEW p, NEW positional,
         NEW c, c = apply_redirections(TRUE, fds, files, cmd.redirs, NoSub),
         child' = child,
         \/ frames' = Append(frames, Frame(cmd, kind, c, p, positional)) /\ fds' = c.fds
         \/ frames' = frames /\ fds' = restore_fds(c.fds, c.saved)
  PROVE  Descends(cmd)
<1>1. Undoable(c.fds, c.saved, TRUE, fds)
  BY RedirectionsUndo
<1>2. CASE frames' = frames /\ fds' = restore_fds(c.fds, c.saved)
  <2>1. Quiet
    BY <1>2, Undone DEF Quiet
  <2> QED BY <2>1 DEF Descends, Hands
<1>3. CASE frames' = Append(frames, Frame(cmd, kind, c, p, positional)) /\ fds' = c.fds
  <2> DEFINE f == Frame(cmd, kind, c, p, positional)
  <2>1. f.saved = c.saved /\ f.before.fds = fds /\ f.execed = {}
    BY DEF Frame
  <2>2. frames' = Append(frames, f) /\ fds' = c.fds
    BY <1>3
  <2> HIDE DEF f
  <2>3. Enters(cmd)
    BY <1>1, <2>1, <2>2 DEF Enters
  <2> QED BY <2>3 DEF Descends, Hands
<1> QED BY <1>2, <1>3

LEMMA GivenTells ==
  ASSUME StaysBelow, IsTable(fds), NEW cmd \in AllCommands, NEW env,
         NEW c, c = apply_redirections(FALSE, fds, files, cmd.redirs, NoSub),
         child' = [fds |-> Inherited(c.fds), env |-> env]
  PROVE  Hands(cmd)
<1>1. Undoable(c.fds, c.saved, FALSE, fds)
  BY RedirectionsUndo
<1>2. IsTable(c.fds)
  BY <1>1 DEF Undoable
<1>3. child'.fds = Inherited(c.fds)
  OBVIOUS
<1> QED BY <1>2, <1>3 DEF Hands

LEMMA ExecDescends ==
  ASSUME StaysBelow, IsTable(fds), NEW cmd \in AllCommands, Exec(cmd)
  PROVE  Descends(cmd)
<1> DEFINE c == apply_redirections(FALSE, fds, files, cmd.redirs, NoSub)
<1>1. cmd.name = "exec" /\ fds' = c.fds /\ frames' = Execed(c.fds)
  BY DEF Exec
<1>2. child' = child \/ \E env : child' = [fds |-> Inherited(c.fds), env |-> env]
  BY DEF Exec
<1>3. Undoable(c.fds, c.saved, FALSE, fds)
  BY RedirectionsUndo
<1>4. Hands(cmd)
  <2>1. CASE child' = child
    BY <2>1 DEF Hands
  <2>2. CASE \E env : child' = [fds |-> Inherited(c.fds), env |-> env]
    BY <2>2, GivenTells
  <2> QED BY <1>2, <2>1, <2>2
<1> HIDE DEF c
<1>5. c.saved = <<>>
  BY <1>3 DEF Undoable
<1>6. Execs(cmd)
  BY <1>1, <1>3, <1>5 DEF Execs
<1> QED BY <1>4, <1>6 DEF Descends

LEMMA RunDescends ==
  ASSUME StaysBelow, IsTable(fds), NEW cmd \in AllCommands, Run(cmd)
  PROVE  Descends(cmd)
<1> DEFINE c == apply_redirections(TRUE, fds, files, cmd.redirs, NoSub)
<1>a. \/ Quiet /\ child' = child
      \/ Descends(cmd)
      \/ Quiet /\ \E env : child' = [fds |-> Inherited(apply_redirections(FALSE, fds, files, cmd.redirs, NoSub).fds), env |-> env]
  <2>1. CASE WordsFail(cmd)
    BY <2>1 DEF WordsFail, Quiet
  <2>2. CASE \E forks \in BOOLEAN : NoName(cmd, forks)
    BY <2>2 DEF NoName, Quiet
  <2>3. CASE RefusedPrefix(cmd)
    <3>1. fds' = restore_fds(c.fds, c.saved) /\ frames' = frames /\ child' = child
      BY <2>3 DEF RefusedPrefix
    <3>2. restore_fds(c.fds, c.saved) = fds
      BY Undone
    <3> QED BY <3>1, <3>2 DEF Quiet
  <2>4. CASE Nothing(cmd)
    BY <2>4 DEF Nothing, Quiet
  <2>5. CASE EnterFunction(cmd)
    <3> DEFINE p == apply_prefix(sh, cmd.assigns, FALSE)
    <3>1. /\ child' = child
          /\ \/ frames' = Append(frames, Frame(cmd, "function", c, p, sh.positional)) /\ fds' = c.fds
             \/ frames' = frames /\ fds' = restore_fds(c.fds, c.saved)
      BY <2>5 DEF EnterFunction
    <3> HIDE DEF p
    <3> QED BY <3>1, EnterDescends
  <2>6. CASE EnterEval(cmd)
    <3> DEFINE p == apply_prefix(sh, cmd.assigns, ~cmd.demoted)
    <3>1. /\ child' = child
          /\ \/ frames' = Append(frames, Frame(cmd, "eval", c, p, sh.positional)) /\ fds' = c.fds
             \/ frames' = frames /\ fds' = restore_fds(c.fds, c.saved)
      BY <2>6 DEF EnterEval
    <3> HIDE DEF p
    <3> QED BY <3>1, EnterDescends
  <2>7. CASE EnterGroup(cmd)
    <3>1. /\ child' = child
          /\ \/ frames' = Append(frames, Frame(cmd, "group", c, NoPrefix, sh.positional)) /\ fds' = c.fds
             \/ frames' = frames /\ fds' = restore_fds(c.fds, c.saved)
      BY <2>7 DEF EnterGroup
    <3> QED BY <3>1, EnterDescends
  <2>8. CASE Exec(cmd)
    BY <2>8, ExecDescends
  <2>9. CASE \E line \in Lines, at_eof \in BOOLEAN : Builtin(cmd, line, at_eof)
    <3>1. fds' = restore_fds(c.fds, c.saved) /\ frames' = frames /\ child' = child
      BY <2>9 DEF Builtin
    <3>2. restore_fds(c.fds, c.saved) = fds
      BY Undone
    <3> QED BY <3>1, <3>2 DEF Quiet
  <2>10. CASE \E forks \in BOOLEAN : External(cmd, forks)
    BY <2>10 DEF External, Quiet
  <2>11. CASE Define(cmd)
    BY <2>11 DEF Define, Quiet
  <2> QED BY <2>1, <2>2, <2>3, <2>4, <2>5, <2>6, <2>7, <2>8, <2>9, <2>10, <2>11 DEF Run
<1>b. CASE Quiet /\ \E env : child' = [fds |-> Inherited(apply_redirections(FALSE, fds, files, cmd.redirs, NoSub).fds), env |-> env]
  BY <1>b, GivenTells DEF Descends
<1>c. CASE Quiet /\ child' = child
  BY <1>c DEF Descends, Hands
<1> QED BY <1>a, <1>b, <1>c

-------------------------------------------------------------------------------
(* The inductive invariant: what is owed can be paid. *)
Tables ==
  /\ IsTable(fds) /\ Owes(fds, frames) /\ Sees(fds, frames)
  /\ \A d \in High : child.fds[d] = Closed

LEMMA InheritedTells ==
  ASSUME NEW t, IsTable(t), NEW d \in High
  PROVE  Inherited(t)[d] = Closed
<1>1. d \in 0..Top /\ (t[d] = Closed \/ t[d].cloexec = TRUE)
  BY Descriptors, TableTells
<1> QED BY <1>1 DEF Inherited, Closed

LEMMA DescendsTells ==
  ASSUME Tables, Framed(frames), NEW cmd, Descends(cmd)
  PROVE  /\ Tables'
         /\ (cmd.name # "exec" /\ Len(frames') = Len(frames)) => fds' = fds
<1> DEFINE n == Len(frames)
<1>1. n \in Nat /\ IsList(frames)
  BY FramedTells DEF Framed
<1>2. IsTable(fds) /\ Owes(fds, frames) /\ Sees(fds, frames) /\ \A d \in High : child.fds[d] = Closed
  BY DEF Tables
<1>3. \A d \in High : child'.fds[d] = Closed
  BY <1>2, InheritedTells DEF Descends, Hands
<1>4. CASE Quiet
  BY <1>2, <1>3, <1>4 DEF Quiet, Tables
<1>5. CASE Enters(cmd)
  <2>1. PICK c, f : /\ Undoable(c.fds, c.saved, TRUE, fds) /\ fds' = c.fds /\ frames' = Append(frames, f)
                    /\ f.saved = c.saved /\ f.before.fds = fds /\ f.execed = {}
    BY <1>5 DEF Enters
  <2>2. Len(frames') = n + 1 /\ (\A i \in 1..n : frames'[i] = frames[i]) /\ frames'[n + 1] = f
    BY <1>1, <2>1, Appended
  <2>3. Undoable(fds', f.saved, TRUE, fds)
    BY <2>1
  <2> DEFINE u == fds'
             gs == frames'
  <2>4. Undoable(u, f.saved, TRUE, fds) /\ Len(gs) = n + 1 /\ (\A i \in 1..n : gs[i] = frames[i]) /\ gs[n + 1] = f
    BY <2>2, <2>3
  <2>6. Len(frames') # Len(frames)
    BY <1>1, <2>2
  <2> HIDE DEF u, gs
  <2>5. IsTable(u) /\ Owes(u, gs) /\ Sees(u, gs)
    <3>1. n \in Nat /\ Len(frames) = n
      BY <1>1
    <3>2. f.before.fds = fds /\ f.execed = {}
      BY <2>1
    <3>3. Len(gs) = n + 1 /\ (\A i \in 1..n : gs[i] = frames[i]) /\ gs[n + 1] = f
      BY <2>4
    <3>4. Undoable(u, f.saved, TRUE, fds)
      BY <2>4
    <3>5. Entering(fds, frames, n, f, u, gs)
      BY <3>1, <3>2, <3>3, <3>4 DEF Entering
    <3> QED BY <1>2, <3>5, Entered
  <2> QED BY <1>3, <2>5, <2>6 DEF Tables, u, gs
<1>6. CASE Execs(cmd)
  <2>1. PICK t : Undoable(t, <<>>, FALSE, fds) /\ fds' = t /\ frames' = Execed(t) /\ cmd.name = "exec"
    BY <1>6 DEF Execs
  <2> DEFINE gs == Execed(t)
  <2>2. /\ Len(gs) = n
        /\ \A i \in 1..n : /\ gs[i].saved = frames[i].saved /\ gs[i].before = frames[i].before
                           /\ gs[i].execed = frames[i].execed \union {f \in 0..Top : t[f] # fds[f]}
    BY ExecedTells
  <2> HIDE DEF gs
  <2>3. IsTable(t) /\ Owes(t, gs) /\ Sees(t, gs)
    <3>1. n \in Nat /\ Len(frames) = n
      BY <1>1
    <3>2. Undoable(t, <<>>, FALSE, fds)
      BY <2>1
    <3>3. Len(gs) = n
      BY <2>2
    <3>4. \A i \in 1..n : /\ gs[i].saved = frames[i].saved /\ gs[i].before = frames[i].before
                          /\ gs[i].execed = frames[i].execed \union {d \in 0..Top : t[d] # fds[d]}
      BY <2>2
    <3>5. Marks(fds, frames, t, gs)
      BY <3>1, <3>2, <3>3, <3>4 DEF Marks
    <3> QED BY <1>2, <3>1, <3>5, Marking
  <2> QED BY <1>3, <2>1, <2>3 DEF Tables, gs
<1> QED BY <1>4, <1>5, <1>6 DEF Descends

LEMMA LeaveTables ==
  ASSUME Tables, Framed(frames), Leave
  PROVE  /\ Tables'
         /\ LET f == Last(frames)
            IN \A d \in User : fds'[d] = f.before.fds[d] \/ (d \in f.execed /\ ~SavesFd(f.saved, d))
<1> DEFINE f == Last(frames)
           n == Len(frames) - 1
           gs == Front(frames)
           u == restore_fds(fds, f.saved)
<1>1. frames # <<>> /\ frames' = gs /\ fds' = u /\ child' = child
  BY DEF Leave
<1>2. /\ IsList(frames) /\ Len(frames) \in Nat
  BY ListTells DEF Framed
<1>3. Len(frames) >= 1 /\ f = frames[Len(frames)] /\ Len(gs) = n /\ \A i \in 1..n : gs[i] = frames[i]
  BY <1>1, <1>2, Fronted
<1>4. n \in Nat /\ Len(frames) = n + 1 /\ f = frames[n + 1]
  BY <1>2, <1>3
<1>5. IsTable(fds) /\ Owes(fds, frames) /\ Sees(fds, frames) /\ \A d \in High : child.fds[d] = Closed
  BY DEF Tables
<1> HIDE DEF f, n, gs
<1>6. u = restore_fds(fds, frames[n + 1].saved)
  BY <1>4
<1> HIDE DEF u
<1>7. /\ IsTable(u) /\ Owes(u, gs) /\ Sees(u, gs)
      /\ \A d \in User : u[d] = frames[n + 1].before.fds[d] \/ (d \in frames[n + 1].execed /\ ~SavesFd(frames[n + 1].saved, d))
  BY <1>3, <1>4, <1>5, <1>6, Leaving
<1> QED BY <1>1, <1>4, <1>5, <1>7 DEF Tables, f

LEMMA InitTables == Init => Tables
<1> SUFFICES ASSUME Init PROVE Tables
  OBVIOUS
<1>1. fds = [f \in 0..Top |-> IF f < 2 THEN Open("terminal", "rw") ELSE Closed] /\ frames = <<>>
      /\ child = [fds |-> [f \in 0..Top |-> Closed], env |-> {}]
  BY DEF Init
<1>2. \A d \in High : d \in 0..Top /\ ~(d < 2)
  BY Descriptors DEF High
<1>3. \A d \in 0..Top : fds[d] = Closed \/ fds[d] = Open("terminal", "rw")
  BY <1>1
<1>4. \A d \in High : fds[d] = Closed /\ child.fds[d] = Closed
  BY <1>1, <1>2
<1>5. \A d \in 0..Top : Desc(fds[d]) /\ fds[d].cloexec = FALSE
  BY <1>3, ClosedTells, OpenTells
<1>6. IsTable(fds)
  <2>1. fds = [d \in 0..Top |-> fds[d]]
    BY <1>1
  <2> QED BY <2>1, <1>4, <1>5, Descriptors DEF IsTable
<1>7. Len(frames) = 0
  BY <1>1
<1>8. Owes(fds, frames) /\ Sees(fds, frames)
  BY <1>4, <1>7 DEF Owes, Sees
<1> QED BY <1>4, <1>6, <1>8 DEF Tables

LEMMA StepTables ==
  ASSUME StaysBelow, Known, Tables, [Next]_vars
  PROVE  /\ Tables'
         /\ (Stepped /\ current.name # "exec" /\ Len(frames') = Len(frames)) => fds' = fds
<1>0. Framed(frames) /\ Len(frames) \in Nat
  BY FramedTells DEF Known
<1>1. CASE Read
  <2>1. fds' = fds /\ frames' = frames /\ child' = child
    BY <1>1 DEF Read
  <2> QED BY <2>1 DEF Tables
<1>2. CASE Execute
  <2>1. current \in AllCommands /\ Run(current)
    BY <1>2 DEF Execute, Known
  <2>2. Descends(current)
    BY <2>1, RunDescends DEF Tables
  <2> QED BY <1>0, <2>2, DescendsTells
<1>3. CASE Continue
  <2>1. /\ Len(frames') = Len(frames)
        /\ \A i \in 1..Len(frames) : /\ frames'[i].saved = frames[i].saved /\ frames'[i].before = frames[i].before
                                     /\ frames'[i].execed = frames[i].execed
    BY <1>3, ContinueTells
  <2>2. fds' = fds /\ child' = child /\ current = NoCommand
    BY <1>3 DEF Continue
  <2> DEFINE gs == frames'
  <2>3. /\ Len(gs) = Len(frames)
        /\ \A i \in 1..Len(frames) : gs[i].saved = frames[i].saved /\ gs[i].before = frames[i].before /\ gs[i].execed = frames[i].execed
    BY <2>1
  <2> HIDE DEF gs
  <2>4. Owes(fds, gs) /\ Sees(fds, gs)
    BY <1>0, <2>3, Beginning DEF Tables
  <2> QED BY <2>2, <2>4 DEF Tables, Stepped, gs
<1>4. CASE Leave
  <2>1. Tables'
    BY <1>0, <1>4, LeaveTables
  <2>2. ~Stepped
    BY <1>4 DEF Leave, Stepped
  <2> QED BY <2>1, <2>2
<1>5. CASE Removed
  <2>1. fds' = fds /\ frames' = frames /\ child' = child
    BY <1>5 DEF Removed
  <2> QED BY <2>1 DEF Tables
<1>6. CASE UNCHANGED vars
  <2>1. fds' = fds /\ frames' = frames /\ child' = child
    BY <1>6 DEF vars
  <2> QED BY <2>1 DEF Tables
<1> QED BY <1>1, <1>2, <1>3, <1>4, <1>5, <1>6 DEF Next

(* With Known, inductive for the descriptors: what is owed to each construct    *)
(* can be paid from the copies, each kept for one construct, and nothing else  *)
(* is open at SaveFrom or above, in the shell or in what it runs.              *)
THEOREM TablesThroughout ==
  ASSUME StaysBelow
  PROVE  Spec => []Tables
<1>1. Known /\ Tables /\ [Next]_vars => Tables'
  BY StepTables
<1> QED BY InitTables, <1>1, KnownThroughout, PTL DEF Spec

LEMMA SavesIs ==
  ASSUME NEW f, IsList(f.saved), NEW d
  PROVE  Saves(f, d) <=> SavesFd(f.saved, d)
<1>1. DOMAIN f.saved = 1..Len(f.saved)
  BY ListTells
<1> QED BY <1>1 DEF Saves, SavesFd

(* DescriptorsComeBack, as long as a script's redirections stay below the       *)
(* copies: after a command, and when a construct is left, each descriptor is   *)
(* what it was but for what an exec changed (save_fd, restore_fds).            *)
THEOREM DescriptorsAreRestored ==
  ASSUME StaysBelow
  PROVE  Spec => DescriptorsComeBack
<1>1. Known /\ Tables /\ [Next]_vars =>
        [/\ (Stepped /\ current.name # "exec" /\ Len(frames') = Len(frames)) => fds' = fds
         /\ Len(frames') < Len(frames) =>
               LET f == Last(frames)
               IN \A d \in 0..(SaveFrom - 1) :
                     fds'[d] = f.before.fds[d] \/ (d \in f.execed /\ ~Saves(f, d))]_vars
  <2> SUFFICES ASSUME Known, Tables, [Next]_vars
      PROVE  /\ (Stepped /\ current.name # "exec" /\ Len(frames') = Len(frames)) => fds' = fds
             /\ Len(frames') < Len(frames) =>
                   LET f == Last(frames)
                   IN \A d \in 0..(SaveFrom - 1) :
                         fds'[d] = f.before.fds[d] \/ (d \in f.execed /\ ~Saves(f, d))
    OBVIOUS
  <2>1. (Stepped /\ current.name # "exec" /\ Len(frames') = Len(frames)) => fds' = fds
    BY StepTables
  <2>2. ASSUME Len(frames') < Len(frames)
        PROVE  LET f == Last(frames)
               IN \A d \in 0..(SaveFrom - 1) :
                     fds'[d] = f.before.fds[d] \/ (d \in f.execed /\ ~Saves(f, d))
    <3> DEFINE f == Last(frames)
    <3>1. Leave
      BY <2>2, StepKnown
    <3>2. \A d \in User : fds'[d] = f.before.fds[d] \/ (d \in f.execed /\ ~SavesFd(f.saved, d))
      BY <3>1, LeaveTables DEF Known
    <3>3. IsList(f.saved)
      <4>1. frames # <<>> /\ IsList(frames)
        BY <3>1 DEF Leave, Known, Framed
      <4>2. f = frames[Len(frames)] /\ Len(frames) \in 1..Len(frames)
        BY <4>1, Fronted, ListTells
      <4>3. Owed(fds, f.saved)
        BY <4>2 DEF Tables, Owes, Owing
      <4> QED BY <4>3, OwedTells
    <3>4. \A d : Saves(f, d) <=> SavesFd(f.saved, d)
      BY <3>3, SavesIs
    <3> HIDE DEF f
    <3>5. \A d \in 0..(SaveFrom - 1) : fds'[d] = f.before.fds[d] \/ (d \in f.execed /\ ~Saves(f, d))
      BY <3>2, <3>4 DEF User
    <3> QED BY <3>5 DEF f
  <2> QED BY <2>1, <2>2
<1> QED BY <1>1, KnownThroughout, TablesThroughout, PTL DEF Spec, DescriptorsComeBack

(* A command leaves the descriptors and the values of its prefix as they were. *)
THEOREM CommandsLeaveNothing ==
  ASSUME StaysBelow
  PROVE  Spec => CommandsLeaveNoTrace
BY DescriptorsAreRestored, PrefixValuesComeBack DEF CommandsLeaveNoTrace

(* CopiesAreExact: at SaveFrom and above exactly the copies are open that a     *)
(* construct still keeps, each for one only, and no program is given one.     *)
THEOREM CopiesStayExact ==
  ASSUME StaysBelow
  PROVE  Spec => []CopiesAreExact
<1>1. Known /\ Tables => CopiesAreExact
  <2> SUFFICES ASSUME Known, Tables PROVE CopiesAreExact
    OBVIOUS
  <2>1. /\ IsTable(fds) /\ Owes(fds, frames) /\ \A d \in High : child.fds[d] = Closed
    BY DEF Tables
  <2>2. DOMAIN frames = 1..Len(frames)
    BY ListTells DEF Known, Framed
  <2>3. \A i \in 1..Len(frames) : Owed(fds, frames[i].saved)
    BY <2>1 DEF Owes, Owing
  <2>4. ASSUME NEW i \in 1..Len(frames)
        PROVE  /\ DOMAIN frames[i].saved = 1..Len(frames[i].saved)
               /\ \A k, l \in 1..Len(frames[i].saved) :
                    frames[i].saved[k].copy # -1 /\ frames[i].saved[k].copy = frames[i].saved[l].copy => k = l
    <3>1. Owed(fds, frames[i].saved)
      BY <2>3
    <3>2. IsList(frames[i].saved)
      BY <3>1, OwedTells
    <3>3. DOMAIN frames[i].saved = 1..Len(frames[i].saved)
      BY <3>2, ListTells
    <3> QED BY <3>1, <3>3 DEF Owed
  <2>5. \A d \in High : d # -1
    BY Descriptors
  <2>6. \A i \in 1..Len(frames) : \A k \in 1..Len(frames[i].saved) : \A d \in High :
           Keeps(i, k, d) <=> frames[i].saved[k].copy = d
    BY <2>4, <2>5 DEF Keeps, Copies
  <2>7. ASSUME NEW d \in High
        PROVE  Kept(d) <=> \E i \in 1..Len(frames) : CopyIn(frames[i].saved, d)
    <3>1. ASSUME NEW i \in 1..Len(frames)
          PROVE  (\E k \in DOMAIN frames[i].saved : Keeps(i, k, d)) <=> CopyIn(frames[i].saved, d)
      <4>1. DOMAIN frames[i].saved = 1..Len(frames[i].saved)
        BY <2>4
      <4>2. \A k \in 1..Len(frames[i].saved) : Keeps(i, k, d) <=> frames[i].saved[k].copy = d
        BY <2>6
      <4> QED BY <4>1, <4>2 DEF CopyIn
    <3> QED BY <2>2, <3>1 DEF Kept
  <2>8. ASSUME NEW d \in High PROVE fds[d] # Closed <=> Kept(d)
    <3>1. ASSUME NEW i \in 1..Len(frames), CopyIn(frames[i].saved, d) PROVE fds[d] # Closed
      BY <2>3, <3>1, CopyTells
    <3>2. fds[d] # Closed => \E i \in 1..Len(frames) : CopyIn(frames[i].saved, d)
      BY <2>1 DEF Owes
    <3> QED BY <2>7, <3>1, <3>2
  <2>9. ASSUME NEW i \in 1..Len(frames), NEW j \in 1..Len(frames),
               NEW k \in 1..Len(frames[i].saved), NEW l \in 1..Len(frames[j].saved),
               NEW d \in High, Keeps(i, k, d), Keeps(j, l, d)
        PROVE  i = j /\ k = l
    <3>1. frames[i].saved[k].copy = d /\ frames[j].saved[l].copy = d
      BY <2>6, <2>9
    <3>2. CopyIn(frames[i].saved, d) /\ CopyIn(frames[j].saved, d)
      BY <3>1 DEF CopyIn
    <3>3. i = j
      BY <2>1, <3>2 DEF Owes
    <3>4. k = l
      BY <2>4, <2>5, <3>1, <3>3
    <3> QED BY <3>3, <3>4
  <2>10. \A d \in User : ~fds[d].cloexec
    <3> TAKE d \in User
    <3>1. fds[d].cloexec = FALSE
      BY <2>1, Descriptors, TableTells
    <3> QED BY <3>1
  <2>11. \A d \in SaveFrom..Top : fds[d] # Closed <=> Kept(d)
    BY <2>8 DEF High
  <2>12. ASSUME NEW i \in DOMAIN frames, NEW j \in DOMAIN frames,
                NEW k \in DOMAIN frames[i].saved, NEW l \in DOMAIN frames[j].saved,
                NEW d \in SaveFrom..Top, Keeps(i, k, d), Keeps(j, l, d)
         PROVE  i = j /\ k = l
    <3>1. i \in 1..Len(frames) /\ j \in 1..Len(frames)
      BY <2>2
    <3>2. k \in 1..Len(frames[i].saved) /\ l \in 1..Len(frames[j].saved)
      BY <2>4, <3>1
    <3>3. d \in High
      BY DEF High
    <3> QED BY <2>9, <2>12, <3>1, <3>2, <3>3
  <2>13. \A d \in 0..(SaveFrom - 1) : ~fds[d].cloexec
    BY <2>10 DEF User
  <2>14. \A d \in SaveFrom..Top : child.fds[d] = Closed
    BY <2>1 DEF High
  <2> QED BY <2>11, <2>12, <2>13, <2>14 DEF CopiesAreExact
<1> QED BY <1>1, KnownThroughout, TablesThroughout, PTL
=============================================================================
