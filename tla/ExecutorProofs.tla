--------------------------- MODULE ExecutorProofs ---------------------------
(***************************************************************************)
(* Control flow, proved for stacks of any height and for every world: an   *)
(* unwind reaches its goal and nothing else, `set -e' judges each status   *)
(* once, and nothing of an unwind is left where it ends.                   *)
(***************************************************************************)
EXTENDS Executor, FiniteSetTheorems, SequenceTheorems, WellFoundedInduction, TLAPS

Kinds == Lists \cup Operators
Flows == {"normal", "return", "break", "continue", "interrupted"}
Pcs == {"node", "operand", "command", "back", "traps", "caught", "tests", "left",
        "unit", "ready", "finish", "gone"}
Fields == [flow : Flows, level : Nat, exit : BOOLEAN, ended : BOOLEAN, last : Nat,
           tested : BOOLEAN, trap_ran : BOOLEAN, entry : Seq(Nat),
           handler : BOOLEAN, on_exit : BOOLEAN]
Provs == [tested : BOOLEAN, blurred : BOOLEAN]
Frames == [kind : Kinds, keep : Nat, outer : Seq(Fields), prov : Provs]
Unwinds == [how : {"exit", "return", "break", "continue", "interrupt"},
            goal : Nat, want : Seq(Nat)]

(* A node is waited for on a stack whose first frame is the shell's input.  *)
Types ==
  /\ stack \in Seq(Frames)
  /\ sh \in Fields
  /\ at \in [pc : Pcs, ret : Nat]
  /\ prov \in Provs
  /\ watch \in Seq(Unwinds)
  /\ mode \in [interactive : BOOLEAN, errexit : BOOLEAN, world : Worlds]

(* A frame that forked, or that put fields by, has them; a trap runs        *)
(* between the commands of a list, and the EXIT trap at the end of its      *)
(* process.                                                                 *)
FramesStand ==
  /\ Depth >= 1
  /\ \A i \in 1..Depth :
       /\ stack[i].kind = "input" <=> i = 1
       /\ stack[i].kind \in {"subshell", "trap", "exit_trap"} => stack[i].outer # <<>>
       /\ stack[i].kind = "subshell" => ~stack[i].outer[1].tested
       /\ stack[i].kind = "trap" => i > 1 /\ stack[i - 1].kind \in Lists
       /\ stack[i].kind = "exit_trap" => i > 1 /\ stack[i - 1].kind \in Processes

(* Where the walk can be, by the frame on top. *)
PointKnown ==
  /\ at.pc \in {"traps", "caught", "tests", "left"} => Top.kind \in Lists
  /\ at.pc \in {"unit", "ready", "gone"} => Depth = 1
  /\ at.pc = "finish" => Top.kind \in Processes
  /\ at.pc = "caught" => \A j \in 1..Depth : stack[j].kind # "subshell"

(* An interrupt is taken by the shell itself, and so is a trap in its midst. *)
InterruptsKnown ==
  \A i, j \in 1..Depth :
    stack[i].kind = "trap" /\ stack[i].keep # 0 /\ j < i => stack[j].kind # "subshell"

(* While an EXIT trap runs, the fields of its process say that it has run,  *)
(* where they are put by or where they stand.                               *)
TrapsRemembered ==
  \A i \in 1..Depth : stack[i].kind = "exit_trap" =>
    /\ (\A j \in i..Depth : stack[j].kind # "subshell") => sh.trap_ran
    /\ \A j \in i..Depth :
         /\ stack[j].kind = "subshell"
         /\ \A k \in i..(j - 1) : stack[k].kind # "subshell"
         => stack[j].outer[1].trap_ran

(* A status knows whether it was tested, unless the code itself mixes it up. *)
TestsKnown == at.pc \notin Running /\ ~prov.blurred => sh.tested = prov.tested

(* The kinds of frame an unwind ends at, and those it never passes. *)
Goals(how) ==
  CASE how = "exit" -> Processes
    [] how = "return" -> Processes \cup {"function", "dot"}
    [] how = "interrupt" -> {"input"}
    [] OTHER -> Loops \cup {"subshell"}
Barred(w) ==
  Processes
  \cup (CASE w.how = "return" -> {"function", "dot"} \cup Conditions
          [] w.how \in {"break", "continue"} -> {"function"}
          [] OTHER -> {})
  \cup IF w.want = <<>> THEN {} ELSE {"not", "trap"} \cup Conditions

(* How many loops it has to leave before the one that takes it. *)
LoopsAbove(goal) == {i \in Above(Loops) : i > goal}
LevelsLeft(goal) ==
  LET m == Cardinality(LoopsAbove(goal))
  IN  /\ sh.level > m /\ loop_depth > m
      /\ stack[goal].kind \in Loops => m + 1 \in {sh.level, loop_depth}

(* What stands while an unwind is under way. *)
Stands(w) ==
  IF at.pc = "finish" THEN Depth = 1 => sh.flow = "normal" \/ sh.trap_ran
  ELSE CASE w.how = "exit" -> sh.exit /\ sh.flow = "normal"
         [] w.how = "interrupt" ->
              sh.flow = IF Depth = 1 /\ at.pc = "left" THEN "normal" ELSE "interrupted"
         [] w.how = "return" ->
              /\ ~sh.exit
              /\ IF Depth = 1 /\ at.pc \in {"unit", "left"}
                 THEN sh.flow = "normal" /\ (at.pc = "unit" => sh.ended)
                 ELSE sh.flow = "return"
         [] OTHER -> ~sh.exit /\ sh.flow = w.how /\ LevelsLeft(w.goal)

(* The status it brings, in the hand that holds it. *)
Brings(w) ==
  w.want # <<>> =>
    /\ w.how \in {"exit", "return"}
    /\ at.pc \in {"back", "left", "unit"} => at.ret = w.want[1]
    /\ at.pc \in {"traps", "caught", "tests"} => sh.last = w.want[1]

(* Its goal still stands, and nothing stands above it that would stop it. *)
OnItsWay(w) ==
  /\ w.goal \in 1..Depth
  /\ stack[w.goal].kind \in Goals(w.how)
  /\ \A i \in (w.goal + 1)..Depth : stack[i].kind \notin Barred(w)

UnderWay(w) ==
  /\ at.pc \notin Running \cup {"ready", "gone"}
  /\ OnItsWay(w)
  /\ Stands(w)
  /\ Brings(w)

StackKnown == FramesStand /\ InterruptsKnown /\ TrapsRemembered

IInv ==
  /\ Types /\ StackKnown /\ PointKnown /\ TestsKnown
  /\ watch # <<>> => UnderWay(watch[1])

-----------------------------------------------------------------------------
(* Greatest and least members *)

(* A set of numbers that has a member has a least one. *)
LEMMA HasLeast ==
  ASSUME NEW T, T \subseteq Nat, T # {}
  PROVE  \E x \in T : \A y \in T : x <= y
<1> DEFINE R == OpToRel(<, Nat)
<1>1. IsWellFoundedOn(R, Nat)
  BY NatLessThanWellFounded
<1>2. \A x, y \in Nat : <<x, y>> \in R <=> x < y
  BY DEF OpToRel
<1> HIDE DEF R
<1>3. PICK x \in T : \A y \in T : ~ (<<y, x>> \in R)
  BY <1>1, WFMin
<1>4. ASSUME NEW y \in T PROVE x <= y
  <2>1. x \in Nat /\ y \in Nat /\ ~ (y < x)
    BY <1>2, <1>3
  <2> QED BY <2>1
<1> QED BY <1>4

(* And one that is bounded has a greatest. *)
LEMMA HasGreatest ==
  ASSUME NEW n \in Nat, NEW T, T \subseteq 1..n, T # {}
  PROVE  \E x \in T : \A y \in T : y <= x
<1> DEFINE U == {n - x : x \in T}
<1>1. \A x \in T : n - x \in Nat
  OBVIOUS
<1>2. U \subseteq Nat /\ U # {}
  BY <1>1
<1>3. PICK u \in U : \A v \in U : u <= v
  BY <1>2, HasLeast
<1>4. PICK x \in T : u = n - x
  BY <1>3
<1>5. ASSUME NEW y \in T PROVE y <= x
  <2>1. n - x <= n - y
    BY <1>3, <1>4
  <2> QED BY <2>1
<1> QED BY <1>5

LEMMA HighestIsHighest ==
  ASSUME NEW n \in Nat, NEW T, T \subseteq 1..n, T # {}
  PROVE  Highest(T) \in T /\ \A y \in T : y <= Highest(T)
<1>1. \E x \in T : \A y \in T : y <= x
  BY HasGreatest
<1> QED BY <1>1 DEF Highest

-----------------------------------------------------------------------------
(* The stack *)

LEMMA StackTells ==
  ASSUME Types, FramesStand
  PROVE  /\ stack \in Seq(Frames) /\ Depth \in Nat /\ Depth >= 1
         /\ DOMAIN stack = 1..Depth
         /\ \A i \in 1..Depth : stack[i] \in Frames /\ stack[i].kind \in Kinds
         /\ Top \in Frames /\ stack[1].kind = "input"
<1>1. stack \in Seq(Frames) /\ Depth \in Nat /\ DOMAIN stack = 1..Depth
  BY LenProperties DEF Types, Depth
<1>2. \A i \in 1..Depth : stack[i] \in Frames
  BY <1>1, ElementOfSeq DEF Depth
<1>3. \A i \in 1..Depth : stack[i].kind \in Kinds
  BY <1>2 DEF Frames
<1>4. Depth >= 1 /\ stack[1].kind = "input"
  BY <1>1 DEF FramesStand
<1> QED BY <1>1, <1>2, <1>3, <1>4 DEF Top

(* A frame is pushed, popped or replaced; those below it stay. *)
Pushes(f) == stack' = Append(stack, f)

LEMMA PushTells ==
  ASSUME Types, FramesStand, NEW f \in Frames, Pushes(f)
  PROVE  /\ stack' \in Seq(Frames) /\ Depth' = Depth + 1
         /\ \A i \in 1..Depth : stack'[i] = stack[i]
         /\ stack'[Depth + 1] = f /\ Top' = f
<1>1. /\ stack' \in Seq(Frames) /\ Len(stack') = Len(stack) + 1
      /\ \A i \in 1..Len(stack) : stack'[i] = stack[i]
      /\ stack'[Len(stack) + 1] = f
  BY StackTells, AppendProperties DEF Pushes
<1> QED BY <1>1 DEF Depth, Top

LEMMA PopTells ==
  ASSUME Types, FramesStand, stack' = Popped
  PROVE  /\ stack' \in Seq(Frames) /\ Depth' = Depth - 1
         /\ \A i \in 1..(Depth - 1) : stack'[i] = stack[i]
<1>1. /\ stack \in Seq(Frames) /\ Depth \in Nat /\ Depth >= 1
      /\ \A i \in 1..Depth : stack[i] \in Frames
  BY StackTells
<1>2. /\ SubSeq(stack, 1, Depth - 1) \in Seq(Frames)
      /\ Len(SubSeq(stack, 1, Depth - 1)) = IF 1 <= Depth - 1 THEN (Depth - 1) - 1 + 1 ELSE 0
      /\ \A i \in 1..((Depth - 1) - 1 + 1) :
           SubSeq(stack, 1, Depth - 1)[i] = stack[1 + i - 1]
  BY <1>1, SubSeqProperties
<1>3. (Depth - 1) - 1 + 1 = Depth - 1 /\ \A i \in 1..(Depth - 1) : 1 + i - 1 = i
  BY <1>1
<1>4. Len(stack') = Depth - 1
  BY <1>1, <1>2 DEF Popped
<1>5. \A i \in 1..(Depth - 1) : stack'[i] = stack[i]
  BY <1>2, <1>3 DEF Popped
<1> QED BY <1>2, <1>4, <1>5 DEF Popped, Depth

LEMMA BecomesTells ==
  ASSUME Types, FramesStand, NEW f \in Frames, stack' = Becomes(f)
  PROVE  /\ stack' \in Seq(Frames) /\ Depth' = Depth
         /\ \A i \in 1..(Depth - 1) : stack'[i] = stack[i]
         /\ stack'[Depth] = f /\ Top' = f
<1>1. /\ stack \in Seq(Frames) /\ Depth \in Nat /\ Depth >= 1
      /\ \A i \in 1..Depth : stack[i] \in Frames
  BY StackTells
<1> DEFINE p == Popped
<1>2. /\ p \in Seq(Frames) /\ Len(p) = Depth - 1
      /\ \A i \in 1..(Depth - 1) : p[i] = stack[i]
  <2>1. /\ SubSeq(stack, 1, Depth - 1) \in Seq(Frames)
        /\ Len(SubSeq(stack, 1, Depth - 1)) = IF 1 <= Depth - 1 THEN (Depth - 1) - 1 + 1 ELSE 0
        /\ \A i \in 1..((Depth - 1) - 1 + 1) :
             SubSeq(stack, 1, Depth - 1)[i] = stack[1 + i - 1]
    BY <1>1, SubSeqProperties
  <2>2. (Depth - 1) - 1 + 1 = Depth - 1 /\ \A i \in 1..(Depth - 1) : 1 + i - 1 = i
    BY <1>1
  <2>3. Len(p) = Depth - 1
    BY <1>1, <2>1 DEF Popped
  <2> QED BY <2>1, <2>2, <2>3 DEF Popped
<1>3. stack' = Append(p, f)
  BY DEF Becomes
<1> HIDE DEF p
<1>4. /\ stack' \in Seq(Frames) /\ Len(stack') = Len(p) + 1
      /\ \A i \in 1..Len(p) : stack'[i] = p[i]
      /\ stack'[Len(p) + 1] = f
  BY <1>2, <1>3, AppendProperties
<1>5. Len(p) + 1 = Depth
  BY <1>1, <1>2
<1> QED BY <1>2, <1>4, <1>5 DEF Depth, Top

(* The highest frame of some kinds, where there is one. *)
LEMMA HighestAbove ==
  ASSUME Types, FramesStand, NEW kinds, \E i \in 1..Depth : stack[i].kind \in kinds
  PROVE  /\ Highest(Above(kinds)) \in 1..Depth
         /\ stack[Highest(Above(kinds))].kind \in kinds
         /\ \A i \in (Highest(Above(kinds)) + 1)..Depth : stack[i].kind \notin kinds
<1>1. Above(kinds) \subseteq 1..Depth /\ Above(kinds) # {} /\ Depth \in Nat
  BY StackTells DEF Above
<1>2. /\ Highest(Above(kinds)) \in Above(kinds)
      /\ \A y \in Above(kinds) : y <= Highest(Above(kinds))
  BY <1>1, HighestIsHighest
<1>3. ASSUME NEW i \in (Highest(Above(kinds)) + 1)..Depth PROVE stack[i].kind \notin kinds
  <2>1. i \in 1..Depth /\ ~ (i <= Highest(Above(kinds)))
    BY <1>1, <1>2
  <2> QED BY <1>2, <2>1 DEF Above
<1> QED BY <1>1, <1>2, <1>3 DEF Above

LEMMA ProcessTells ==
  ASSUME Types, FramesStand
  PROVE  /\ Process \in 1..Depth /\ stack[Process].kind \in Processes
         /\ \A i \in (Process + 1)..Depth : stack[i].kind \notin Processes
<1>1. 1 \in 1..Depth /\ stack[1].kind \in Processes
  BY StackTells DEF Processes
<1> QED BY <1>1, HighestAbove DEF Process

LEMMA CallTells ==
  ASSUME Types, FramesStand
  PROVE  /\ Call \in 0..Depth /\ (Call # 0 => stack[Call].kind = "function")
         /\ \A i \in (Call + 1)..Depth : stack[i].kind # "function"
<1>1. Depth \in Nat
  BY StackTells
<1>2. CASE Above({"function"}) = {}
  BY <1>1, <1>2 DEF Call, Above
<1>3. CASE Above({"function"}) # {}
  <2>1. \E i \in 1..Depth : stack[i].kind \in {"function"}
    BY <1>3 DEF Above
  <2> QED BY <1>1, <1>3, <2>1, HighestAbove DEF Call
<1> QED BY <1>2, <1>3

-----------------------------------------------------------------------------
(* Counting loops *)

LEMMA LoopsFinite ==
  ASSUME Types, FramesStand, NEW g
  PROVE  /\ IsFiniteSet(LoopsAbove(g)) /\ Cardinality(LoopsAbove(g)) \in Nat
         /\ loop_depth = Cardinality(LoopsAbove(Call)) /\ loop_depth \in Nat
<1>1. Depth \in Nat
  BY StackTells
<1>2. IsFiniteSet(1..Depth)
  BY <1>1, FS_Interval
<1>3. \A k : LoopsAbove(k) \subseteq 1..Depth
  BY DEF LoopsAbove, Above
<1>4. \A k : IsFiniteSet(LoopsAbove(k)) /\ Cardinality(LoopsAbove(k)) \in Nat
  BY <1>2, <1>3, FS_Subset, FS_CardinalityType
<1>5. loop_depth = Cardinality(LoopsAbove(Call))
  BY DEF loop_depth, LoopsAbove
<1> QED BY <1>4, <1>5

(* Of a set with a member one is the greatest, and with two one comes next. *)
LEMMA CountFromAbove ==
  ASSUME NEW n \in Nat, NEW T, T \subseteq 1..n, NEW level \in 1..2,
         \A i \in T : Cardinality({j \in T : j >= i}) # level
  PROVE  Cardinality(T) < level
<1>1. IsFiniteSet(T) /\ \A i \in T : i \in Nat
  <2>1. IsFiniteSet(1..n)
    BY FS_Interval
  <2>2. IsFiniteSet(T)
    BY <2>1, FS_Subset
  <2> QED BY <2>2
<1>2. CASE T = {}
  BY <1>2, FS_EmptySet
<1>3. CASE T # {}
  <2>1. PICK h \in T : \A y \in T : y <= h
    BY <1>3, HasGreatest
  <2>2. {j \in T : j >= h} = {h}
    <3>1. ASSUME NEW j \in T, j >= h PROVE j = h
      BY <1>1, <2>1, <3>1
    <3>2. h >= h
      BY <1>1
    <3> QED BY <3>1, <3>2
  <2>3. Cardinality({j \in T : j >= h}) = 1
    BY <2>2, FS_Singleton
  <2>4. level = 2
    BY <2>1, <2>3
  <2>5. CASE T \ {h} = {}
    <3>1. T = {h}
      BY <2>1, <2>5
    <3>2. Cardinality(T) = 1
      BY <3>1, FS_Singleton
    <3> QED BY <2>4, <3>2
  <2>6. CASE T \ {h} # {}
    <3>1. T \ {h} \subseteq 1..n
      OBVIOUS
    <3>2. PICK k \in T \ {h} : \A y \in T \ {h} : y <= k
      BY <2>6, <3>1, HasGreatest
    <3>3. {j \in T : j >= k} = {h} \cup {k} /\ k \notin {h}
      <4>1. ASSUME NEW j \in T, j >= k PROVE j \in {h} \cup {k}
        <5>1. j = h \/ j \in T \ {h}
          OBVIOUS
        <5>2. j \in T \ {h} => j = k
          BY <1>1, <3>2, <4>1
        <5> QED BY <5>1, <5>2
      <4>2. h >= k /\ k >= k
        BY <1>1, <2>1, <3>2
      <4> QED BY <2>1, <3>2, <4>1, <4>2
    <3>4. Cardinality({h} \cup {k}) = 2
      <4>1. IsFiniteSet({h}) /\ Cardinality({h}) = 1
        BY FS_Singleton
      <4> QED BY <3>3, <4>1, FS_AddElement
    <3> QED BY <2>4, <3>2, <3>3, <3>4
  <2> QED BY <2>5, <2>6
<1> QED BY <1>2, <1>3

-----------------------------------------------------------------------------
(* What the invariant says of the stack, for each thing a step does to it *)

(* The stack stays. *)
LEMMA StayKnows ==
  ASSUME Types, StackKnown, UNCHANGED stack, sh'.trap_ran = sh.trap_ran
  PROVE  StackKnown' /\ Depth' = Depth /\ Top' = Top
<1>1. Depth' = Depth /\ Top' = Top
  BY DEF Depth, Top
<1>2. FramesStand'
  BY <1>1 DEF StackKnown, FramesStand
<1>3. InterruptsKnown'
  BY <1>1 DEF StackKnown, InterruptsKnown
<1>4. TrapsRemembered'
  BY <1>1 DEF StackKnown, TrapsRemembered
<1> QED BY <1>1, <1>2, <1>3, <1>4 DEF StackKnown

(* A frame is pushed. *)
LEMMA PushKnows ==
  ASSUME Types, StackKnown, NEW f \in Frames, Pushes(f),
         f.kind # "input",
         f.kind \in {"subshell", "trap", "exit_trap"} => f.outer # <<>>,
         f.kind = "subshell" => ~f.outer[1].tested /\ f.outer[1].trap_ran = sh.trap_ran,
         f.kind = "trap" => Top.kind \in Lists,
         f.kind = "trap" /\ f.keep # 0 => \A j \in 1..Depth : stack[j].kind # "subshell",
         f.kind = "exit_trap" => Top.kind \in Processes /\ sh'.trap_ran,
         f.kind \notin {"subshell", "exit_trap"} => sh'.trap_ran = sh.trap_ran
  PROVE  StackKnown' /\ Depth' = Depth + 1 /\ Top' = f
<1>1. /\ Depth' = Depth + 1 /\ Top' = f /\ stack'[Depth + 1] = f
      /\ \A i \in 1..Depth : stack'[i] = stack[i]
      /\ Depth \in Nat /\ Depth >= 1
  BY PushTells, StackTells DEF StackKnown
<1>2. ASSUME NEW i \in 1..Depth' PROVE i \in 1..Depth \/ i = Depth + 1
  BY <1>1
<1>3. FramesStand'
  <2>1. Depth' >= 1
    BY <1>1
  <2>2. ASSUME NEW i \in 1..Depth'
        PROVE  /\ stack'[i].kind = "input" <=> i = 1
               /\ stack'[i].kind \in {"subshell", "trap", "exit_trap"} => stack'[i].outer # <<>>
               /\ stack'[i].kind = "subshell" => ~stack'[i].outer[1].tested
               /\ stack'[i].kind = "trap" => i > 1 /\ stack'[i - 1].kind \in Lists
               /\ stack'[i].kind = "exit_trap" => i > 1 /\ stack'[i - 1].kind \in Processes
    <3>1. CASE i \in 1..Depth
      <4>1. stack'[i] = stack[i] /\ (i > 1 => stack'[i - 1] = stack[i - 1])
        BY <1>1, <3>1
      <4> QED BY <3>1, <4>1 DEF StackKnown, FramesStand
    <3>2. CASE i = Depth + 1
      <4>1. stack'[i] = f /\ i > 1 /\ stack'[i - 1] = Top /\ i # 1
        BY <1>1, <3>2 DEF Top
      <4> QED BY <4>1
    <3> QED BY <1>2, <3>1, <3>2
  <2> QED BY <2>1, <2>2 DEF FramesStand
<1>4. InterruptsKnown'
  <2>1. ASSUME NEW i \in 1..Depth', NEW j \in 1..Depth',
               stack'[i].kind = "trap", stack'[i].keep # 0, j < i
        PROVE  stack'[j].kind # "subshell"
    <3>1. j \in 1..Depth /\ stack'[j] = stack[j]
      BY <1>1, <2>1
    <3>2. CASE i \in 1..Depth
      <4>1. stack'[i] = stack[i]
        BY <1>1, <3>2
      <4> QED BY <2>1, <3>1, <3>2, <4>1 DEF StackKnown, InterruptsKnown
    <3>3. CASE i = Depth + 1
      BY <1>1, <2>1, <3>1, <3>3
    <3> QED BY <1>2, <3>2, <3>3
  <2> QED BY <2>1 DEF InterruptsKnown
<1>5. TrapsRemembered'
  <2>1. ASSUME NEW i \in 1..Depth', stack'[i].kind = "exit_trap",
               \A j \in i..Depth' : stack'[j].kind # "subshell"
        PROVE  sh'.trap_ran
    <3>1. CASE i \in 1..Depth
      <4>1. stack'[i] = stack[i] /\ Depth + 1 \in i..Depth' /\ f.kind # "subshell"
        BY <1>1, <2>1, <3>1
      <4>2. \A j \in i..Depth : stack[j].kind # "subshell"
        BY <1>1, <2>1, <3>1
      <4>3. sh.trap_ran
        BY <2>1, <3>1, <4>1, <4>2 DEF StackKnown, TrapsRemembered
      <4> QED BY <4>1, <4>3
    <3>2. CASE i = Depth + 1
      BY <1>1, <2>1, <3>2
    <3> QED BY <1>2, <3>1, <3>2
  <2>2. ASSUME NEW i \in 1..Depth', stack'[i].kind = "exit_trap",
               NEW j \in i..Depth', stack'[j].kind = "subshell",
               \A k \in i..(j - 1) : stack'[k].kind # "subshell"
        PROVE  stack'[j].outer[1].trap_ran
    <3>1. i # j
      BY <2>2
    <3>2. i \in 1..Depth /\ stack'[i] = stack[i]
      BY <1>1, <2>2, <3>1
    <3>3. \A k \in i..(j - 1) : stack[k].kind # "subshell"
      BY <1>1, <2>2, <3>2
    <3>4. CASE j \in i..Depth
      <4>1. stack'[j] = stack[j]
        BY <1>1, <3>2, <3>4
      <4> QED BY <2>2, <3>2, <3>3, <3>4, <4>1 DEF StackKnown, TrapsRemembered
    <3>5. CASE j = Depth + 1
      <4>1. stack'[j] = f /\ j - 1 = Depth /\ f.outer[1].trap_ran = sh.trap_ran
        BY <1>1, <2>2, <3>5
      <4> QED BY <2>2, <3>2, <3>3, <4>1 DEF StackKnown, TrapsRemembered
    <3> QED BY <1>1, <3>2, <3>4, <3>5
  <2> QED BY <2>1, <2>2 DEF TrapsRemembered
<1> QED BY <1>1, <1>3, <1>4, <1>5 DEF StackKnown

(* The top frame is popped: the parent of a subshell is as it was. *)
LEMMA PopKnows ==
  ASSUME Types, StackKnown, stack' = Popped, Top.kind # "input",
         sh'.trap_ran = IF Top.kind = "subshell" THEN Top.outer[1].trap_ran ELSE sh.trap_ran
  PROVE  StackKnown' /\ Depth' = Depth - 1 /\ Depth > 1 /\ Top' = stack[Depth - 1]
<1>1. /\ Depth' = Depth - 1 /\ \A i \in 1..(Depth - 1) : stack'[i] = stack[i]
      /\ Depth \in Nat /\ Depth >= 1
  BY PopTells, StackTells DEF StackKnown
<1>2. Depth > 1
  BY <1>1, StackTells DEF StackKnown, Top
<1>3. FramesStand'
  <2>1. ASSUME NEW i \in 1..Depth'
        PROVE  i \in 1..Depth /\ stack'[i] = stack[i] /\ (i > 1 => stack'[i - 1] = stack[i - 1])
    BY <1>1
  <2> QED BY <1>1, <1>2, <2>1 DEF StackKnown, FramesStand
<1>4. InterruptsKnown'
  <2>1. \A i \in 1..Depth' : i \in 1..Depth /\ stack'[i] = stack[i]
    BY <1>1
  <2> QED BY <2>1 DEF StackKnown, InterruptsKnown
<1>5. TrapsRemembered'
  <2>1. ASSUME NEW i \in 1..Depth', stack'[i].kind = "exit_trap",
               \A j \in i..Depth' : stack'[j].kind # "subshell"
        PROVE  sh'.trap_ran
    <3>1. i \in 1..Depth /\ stack[i].kind = "exit_trap"
      BY <1>1, <2>1
    <3>2. \A j \in i..(Depth - 1) : stack[j].kind # "subshell"
      BY <1>1, <2>1
    <3>3. CASE Top.kind = "subshell"
      <4>1. Depth \in i..Depth /\ stack[Depth].kind = "subshell"
        BY <1>1, <3>1, <3>3 DEF Top
      <4>2. stack[Depth].outer[1].trap_ran
        BY <3>1, <3>2, <4>1 DEF StackKnown, TrapsRemembered
      <4> QED BY <3>3, <4>2 DEF Top
    <3>4. CASE Top.kind # "subshell"
      <4>1. \A j \in i..Depth : j \in i..(Depth - 1) \/ j = Depth
        BY <1>1
      <4>2. \A j \in i..Depth : stack[j].kind # "subshell"
        BY <3>2, <3>4, <4>1 DEF Top
      <4> QED BY <3>1, <3>4, <4>2 DEF StackKnown, TrapsRemembered
    <3> QED BY <3>3, <3>4
  <2>2. ASSUME NEW i \in 1..Depth', stack'[i].kind = "exit_trap",
               NEW j \in i..Depth', stack'[j].kind = "subshell",
               \A k \in i..(j - 1) : stack'[k].kind # "subshell"
        PROVE  stack'[j].outer[1].trap_ran
    <3>1. /\ i \in 1..Depth /\ stack[i] = stack'[i]
          /\ j \in i..Depth /\ stack[j] = stack'[j]
      BY <1>1
    <3>2. \A k \in i..(j - 1) : stack[k].kind # "subshell"
      BY <1>1, <2>2
    <3> QED BY <2>2, <3>1, <3>2 DEF StackKnown, TrapsRemembered
  <2> QED BY <2>1, <2>2 DEF TrapsRemembered
<1>6. Top' = stack[Depth - 1]
  BY <1>1, <1>2 DEF Top
<1> QED BY <1>1, <1>2, <1>3, <1>4, <1>5, <1>6 DEF StackKnown

(* The top frame changes between constructs that put nothing by. *)
LEMMA BecomesKnows ==
  ASSUME Types, StackKnown, NEW f \in Frames, stack' = Becomes(f),
         sh'.trap_ran = sh.trap_ran,
         {f.kind, Top.kind} \cap {"input", "subshell", "trap", "exit_trap"} = {}
  PROVE  StackKnown' /\ Depth' = Depth /\ Top' = f
<1>1. /\ Depth' = Depth /\ Top' = f /\ stack'[Depth] = f
      /\ \A i \in 1..(Depth - 1) : stack'[i] = stack[i]
      /\ Depth \in Nat /\ Depth >= 1
  BY BecomesTells, StackTells DEF StackKnown
<1>2. /\ \A i \in 1..Depth : i \in 1..(Depth - 1) \/ i = Depth
      /\ stack'[Depth] = f /\ stack[Depth] = Top
  BY <1>1 DEF Top
<1>3. /\ f.kind \notin {"input", "subshell", "trap", "exit_trap"}
      /\ Top.kind \notin {"input", "subshell", "trap", "exit_trap"}
  OBVIOUS
<1>4. \A i \in 1..Depth, kind \in {"input", "subshell", "trap", "exit_trap"} :
        /\ stack'[i].kind = kind <=> stack[i].kind = kind
        /\ stack[i].kind = kind => stack'[i] = stack[i]
  BY <1>1, <1>2, <1>3
<1>5. FramesStand'
  <2>1. ASSUME NEW i \in 1..Depth, i > 1
        PROVE i - 1 \in 1..(Depth - 1) /\ stack'[i - 1] = stack[i - 1]
    BY <1>1, <2>1
  <2> QED BY <1>1, <1>4, <2>1 DEF StackKnown, FramesStand
<1>6. InterruptsKnown'
  BY <1>1, <1>4 DEF StackKnown, InterruptsKnown
<1>7. TrapsRemembered'
  <2>1. ASSUME NEW i \in 1..Depth, NEW j \in i..Depth
        PROVE  j \in 1..Depth /\ \A k \in i..(j - 1) : k \in 1..Depth
    BY <1>1
  <2> QED BY <1>1, <1>4, <2>1 DEF StackKnown, TrapsRemembered
<1> QED BY <1>1, <1>5, <1>6, <1>7 DEF StackKnown

-----------------------------------------------------------------------------
(* An unwind under way *)

LEMMA UnwindTells ==
  ASSUME IInv, NEW w, watch # <<>>, w = watch[1]
  PROVE  /\ w \in Unwinds /\ UnderWay(w)
         /\ at.pc \notin {"finish", "unit", "left"} => Unwinding
         /\ at.pc = "left" /\ Depth > 1 => Unwinding
<1>1. watch \in Seq(Unwinds) /\ w \in Unwinds
  <2>1. watch \in Seq(Unwinds)
    BY DEF IInv, Types
  <2>2. Len(watch) \in Nat /\ Len(watch) >= 1
    BY <2>1, LenProperties, EmptySeq
  <2>3. 1 \in 1..Len(watch)
    BY <2>2
  <2> QED BY <2>1, <2>3, ElementOfSeq
<1>2. UnderWay(w)
  BY DEF IInv
<1>3. w.how \in {"exit", "return", "break", "continue", "interrupt"}
  BY <1>1 DEF Unwinds
<1>4. Stands(w) /\ (at.pc = "left" /\ Depth > 1 => Depth # 1)
  BY <1>2, StackTells DEF UnderWay, IInv, StackKnown
<1>5. (at.pc \notin {"finish", "unit", "left"} \/ (at.pc = "left" /\ Depth # 1)) => Unwinding
  BY <1>3, <1>4 DEF Stands, Unwinding
<1> QED BY <1>1, <1>2, <1>4, <1>5

LEMMA StartsUnwatched ==
  ASSUME IInv, at.pc \in Running \cup {"ready", "gone"}
  PROVE  watch = <<>>
  BY DEF IInv, UnderWay

(* Where it comes to be under way. *)
LEMMA GoesBegins ==
  ASSUME Types, StackKnown, UNCHANGED stack,
         NEW how \in {"exit", "return", "break", "continue", "interrupt"},
         NEW goal \in 1..Depth, NEW status \in Nat,
         Goes(how, goal, status),
         stack[goal].kind \in Goals(how),
         \A i \in (goal + 1)..Depth :
           /\ stack[i].kind \notin Processes
           /\ how = "return" => stack[i].kind \notin {"function", "dot"}
           /\ how \in {"break", "continue"} => stack[i].kind # "function"
  PROVE  /\ watch' \in Seq(Unwinds)
         /\ watch' # <<>> =>
              /\ OnItsWay(watch[1])'
              /\ watch'[1].how = how /\ watch'[1].goal = goal
              /\ watch'[1].want # <<>> => how \in {"exit", "return"} /\ watch'[1].want[1] = status
              /\ Unwinding => how = "interrupt"
<1> DEFINE through(kinds) == \E i \in goal + 1..Depth : stack[i].kind \in kinds
           promised == how \in {"exit", "return"} /\ ~through({"not", "trap"} \cup Conditions)
           kept == (Unwinding => how = "interrupt") /\ (how = "return" => ~through(Conditions))
           w == [how |-> how, goal |-> goal, want |-> IF promised THEN <<status>> ELSE <<>>]
<1>1. watch' = IF ~kept THEN <<>> ELSE <<w>>
  BY DEF Goes
<1>2. w \in Unwinds
  <2>1. <<>> \in Seq(Nat) /\ <<status>> \in Seq(Nat)
    BY EmptySeq
  <2>2. goal \in Nat
    BY StackTells DEF StackKnown
  <2> QED BY <2>1, <2>2 DEF Unwinds
<1>3. CASE ~kept
  BY <1>1, <1>3, EmptySeq
<1>4. CASE kept
  <2>1. watch' = <<w>> /\ watch'[1] = w
    BY <1>1, <1>4
  <2>2. w.how = how /\ w.goal = goal
        /\ (w.want # <<>> => promised) /\ (promised => w.want = <<status>>)
    OBVIOUS
  <2>3. ASSUME NEW i \in (goal + 1)..Depth PROVE stack[i].kind \notin Barred(w)
    <3>1. w.want # <<>> => stack[i].kind \notin {"not", "trap"} \cup Conditions
      BY <2>2
    <3>2. how = "return" => stack[i].kind \notin Conditions
      BY <1>4
    <3> HIDE DEF w
    <3> QED BY <2>2, <3>1, <3>2 DEF Barred
  <2>4. OnItsWay(w)
    BY <2>2, <2>3 DEF OnItsWay
  <2>5. OnItsWay(watch[1])'
    BY <2>1, <2>4 DEF OnItsWay, Depth, Goals, Barred
  <2> QED BY <1>2, <1>4, <2>1, <2>2, <2>5
<1> QED BY <1>3, <1>4

(* It stays on its way as frames above its goal are popped. *)
LEMMA WayStays ==
  ASSUME UNCHANGED stack, NEW w, OnItsWay(w)
  PROVE  OnItsWay(w)'
  BY DEF OnItsWay, Depth

LEMMA WayPops ==
  ASSUME Types, StackKnown, NEW w, stack' = Popped, OnItsWay(w), ~(Depth - 1 < w.goal)
  PROVE  OnItsWay(w)' /\ Top.kind \notin Barred(w)
<1>1. /\ Depth' = Depth - 1 /\ \A i \in 1..(Depth - 1) : stack'[i] = stack[i]
      /\ Depth \in Nat /\ Depth >= 1
  BY PopTells, StackTells DEF StackKnown
<1>2. w.goal \in 1..Depth' /\ stack'[w.goal] = stack[w.goal]
  BY <1>1 DEF OnItsWay
<1>3. \A i \in (w.goal + 1)..Depth' : i \in (w.goal + 1)..Depth /\ stack'[i] = stack[i]
  BY <1>1, <1>2
<1>4. Depth \in (w.goal + 1)..Depth
  BY <1>1, <1>2
<1> QED BY <1>2, <1>3, <1>4 DEF OnItsWay, Top

(* The levels a `break' has left, as a frame goes. *)
LEMMA LevelsStay ==
  ASSUME UNCHANGED stack, sh'.level = sh.level, NEW g, LevelsLeft(g)
  PROVE  LevelsLeft(g)'
  BY DEF LevelsLeft, LoopsAbove, Above, Depth, loop_depth, Call, Highest

LEMMA CallPops ==
  ASSUME Types, StackKnown, stack' = Popped, Top.kind # "function"
  PROVE  Call' = Call
<1>1. /\ Depth' = Depth - 1 /\ \A i \in 1..(Depth - 1) : stack'[i] = stack[i]
      /\ Depth \in Nat /\ Depth >= 1
  BY PopTells, StackTells DEF StackKnown
<1>2. \A i : i \in 1..Depth <=> i \in 1..(Depth - 1) \/ i = Depth
  BY <1>1
<1>3. Above({"function"})' = Above({"function"})
  BY <1>1, <1>2 DEF Above, Top
<1>4. Call' = IF Above({"function"})' = {} THEN 0 ELSE Highest(Above({"function"})')
  BY DEF Call
<1> QED BY <1>3, <1>4 DEF Call

LEMMA LevelsPop ==
  ASSUME Types, StackKnown, stack' = Popped, Top.kind # "function",
         NEW g \in 1..(Depth - 1), LevelsLeft(g)
  PROVE  /\ Top.kind \notin Loops /\ sh'.level = sh.level => LevelsLeft(g)'
         /\ Top.kind \in Loops => ~Lasts /\ sh.level > 0
         /\ Top.kind \in Loops /\ sh'.level = sh.level - 1 => LevelsLeft(g)'
<1>1. /\ Depth' = Depth - 1 /\ \A i \in 1..(Depth - 1) : stack'[i] = stack[i]
      /\ Depth \in Nat /\ Depth >= 1 /\ sh.level \in Nat
  BY PopTells, StackTells DEF StackKnown, Types, Fields
<1>2. Call' = Call /\ Call \in 0..Depth /\ Call # Depth
  BY CallPops, CallTells DEF StackKnown, Top
<1>3. \A i : i \in 1..Depth <=> i \in 1..(Depth - 1) \/ i = Depth
  BY <1>1
<1>4. stack'[g].kind = stack[g].kind
  BY <1>1
<1>5. /\ IsFiniteSet(LoopsAbove(g)) /\ IsFiniteSet(LoopsAbove(Call))
      /\ Cardinality(LoopsAbove(g)) \in Nat /\ Cardinality(LoopsAbove(Call)) \in Nat
      /\ loop_depth = Cardinality(LoopsAbove(Call))
      /\ loop_depth' = Cardinality(LoopsAbove(Call)')
  BY LoopsFinite, <1>2 DEF StackKnown, loop_depth, LoopsAbove
<1>6. CASE Top.kind \notin Loops
  <2>1. \A k \in {g, Call} : LoopsAbove(k)' = LoopsAbove(k)
    BY <1>1, <1>3, <1>6 DEF LoopsAbove, Above, Top
  <2>2. LoopsAbove(g)' = LoopsAbove(g) /\ loop_depth' = loop_depth
    BY <1>2, <1>5, <2>1
  <2>3. sh'.level = sh.level => LevelsLeft(g)'
    BY <1>4, <2>2 DEF LevelsLeft
  <2> QED BY <1>6, <2>3
<1>7. CASE Top.kind \in Loops
  <2>1. /\ LoopsAbove(g)' = LoopsAbove(g) \ {Depth} /\ Depth \in LoopsAbove(g)
        /\ LoopsAbove(Call)' = LoopsAbove(Call) \ {Depth} /\ Depth \in LoopsAbove(Call)
    BY <1>1, <1>2, <1>3, <1>7 DEF LoopsAbove, Above, Top
  <2>2. /\ Cardinality(LoopsAbove(g) \ {Depth}) = Cardinality(LoopsAbove(g)) - 1
        /\ Cardinality(LoopsAbove(Call) \ {Depth}) = Cardinality(LoopsAbove(Call)) - 1
        /\ Cardinality(LoopsAbove(g) \ {Depth}) \in Nat
        /\ Cardinality(LoopsAbove(Call) \ {Depth}) \in Nat
    <3>1. IsFiniteSet(LoopsAbove(g) \ {Depth}) /\ IsFiniteSet(LoopsAbove(Call) \ {Depth})
      BY <1>5, FS_Subset
    <3> QED BY <1>5, <2>1, <3>1, FS_RemoveElement, FS_CardinalityType
  <2>3. /\ Cardinality(LoopsAbove(g)') = Cardinality(LoopsAbove(g)) - 1
        /\ loop_depth' = loop_depth - 1
        /\ Cardinality(LoopsAbove(g)) >= 1 /\ loop_depth \in Nat
    BY <1>5, <2>1, <2>2
  <2>4. /\ sh.level > Cardinality(LoopsAbove(g)) /\ loop_depth > Cardinality(LoopsAbove(g))
        /\ stack[g].kind \in Loops => Cardinality(LoopsAbove(g)) + 1 \in {sh.level, loop_depth}
    BY DEF LevelsLeft
  <2>5. ~Lasts /\ sh.level > 0
    BY <1>1, <1>5, <2>3, <2>4 DEF Lasts
  <2>6. sh'.level = sh.level - 1 => LevelsLeft(g)'
    BY <1>1, <1>4, <1>5, <2>3, <2>4 DEF LevelsLeft
  <2> QED BY <1>7, <2>5, <2>6
<1> QED BY <1>6, <1>7

(* At its goal the last level goes. *)
LEMMA LevelsEnd ==
  ASSUME Types, StackKnown, LevelsLeft(Depth), Top.kind \in Loops
  PROVE  Lasts
<1>1. LoopsAbove(Depth) = {}
  BY StackTells DEF LoopsAbove, Above, StackKnown
<1>2. Cardinality(LoopsAbove(Depth)) = 0
  BY <1>1, FS_EmptySet
<1>3. 1 \in {sh.level, loop_depth}
  BY <1>2 DEF LevelsLeft, Top
<1> QED BY <1>3 DEF Lasts

(* Above its goal it does not. *)
LEMMA LevelsMore ==
  ASSUME Types, StackKnown, NEW g \in 1..(Depth - 1), LevelsLeft(g), Top.kind \in Loops
  PROVE  ~Lasts
<1>1. Depth \in Nat /\ Depth >= 1 /\ sh.level \in Nat
  BY StackTells DEF StackKnown, Types, Fields
<1>2. /\ IsFiniteSet(LoopsAbove(g)) /\ Cardinality(LoopsAbove(g)) \in Nat /\ loop_depth \in Nat
  BY LoopsFinite DEF StackKnown
<1>3. Depth \in LoopsAbove(g)
  BY <1>1 DEF LoopsAbove, Above, Top
<1>4. Cardinality(LoopsAbove(g)) # 0
  BY <1>2, <1>3, FS_EmptySet
<1> QED BY <1>1, <1>2, <1>4 DEF LevelsLeft, Lasts

-----------------------------------------------------------------------------
(* Each action keeps the invariant. *)

(* `break' and `continue' go to a loop of their own process, the level-th of *)
(* its call or the outermost, or out of a subshell into the parent's loop.   *)
LEMMA BreakGoal ==
  ASSUME Types, FramesStand, loop_depth # 0, NEW level \in 1..2
  PROVE  LET g == LoopGoal(level)
         IN  /\ g \in 1..Depth
             /\ stack[g].kind \in Loops \cup {"subshell"}
             /\ \A i \in (g + 1)..Depth : stack[i].kind \notin Processes \cup {"function"}
             /\ LET m == Cardinality(LoopsAbove(g))
                IN  /\ level > m /\ loop_depth > m
                    /\ stack[g].kind \in Loops => m + 1 \in {level, loop_depth}
<1> DEFINE all == {i \in Above(Loops) : i > Call}
           mine == {i \in Above(Loops) : i > Call /\ i > Process}
           reached == {i \in mine : Cardinality({j \in mine : j >= i}) = level}
           g == LoopGoal(level)
<1>g. g = LoopGoal(level)
  OBVIOUS
<1>1. /\ Depth \in Nat /\ DOMAIN stack = 1..Depth
      /\ Process \in 1..Depth /\ stack[Process].kind \in Processes
      /\ \A i \in (Process + 1)..Depth : stack[i].kind \notin Processes
      /\ Call \in 0..Depth /\ (Call # 0 => stack[Call].kind = "function")
      /\ \A i \in (Call + 1)..Depth : stack[i].kind # "function"
  BY StackTells, ProcessTells, CallTells
<1>2. /\ mine \subseteq all /\ all \subseteq 1..Depth
      /\ loop_depth = Cardinality(all)
      /\ \A i \in 1..Depth : stack[i].kind \in Loops /\ i > Call <=> i \in all
      /\ \A i \in 1..Depth : stack[i].kind \in Loops /\ i > Call /\ i > Process <=> i \in mine
  BY DEF Above, loop_depth
<1>3. /\ IsFiniteSet(all) /\ IsFiniteSet(mine)
      /\ Cardinality(all) \in Nat /\ Cardinality(mine) \in Nat
      /\ Cardinality(mine) <= Cardinality(all)
  <2>1. IsFiniteSet(1..Depth)
    BY <1>1, FS_Interval
  <2>2. IsFiniteSet(all) /\ IsFiniteSet(mine)
    BY <1>2, <2>1, FS_Subset
  <2> HIDE DEF all, mine
  <2> QED BY <1>2, <2>2, FS_Subset, FS_CardinalityType
<1>4. g = IF mine = {} \/ (reached = {} /\ Cardinality(all) > Cardinality(mine))
          THEN Process
          ELSE IF reached # {} THEN Highest(reached)
          ELSE CHOOSE i \in mine : \A j \in mine : i <= j
  BY <1>2 DEF LoopGoal
<1>5. reached = {} => Cardinality(mine) < level
  <2>1. mine \subseteq 1..Depth
    BY <1>2
  <2>2. reached = {} => \A i \in mine : Cardinality({j \in mine : j >= i}) # level
    OBVIOUS
  <2> HIDE DEF mine, reached
  <2> QED BY <1>1, <2>1, <2>2, CountFromAbove
<1>6. all # {} /\ Cardinality(all) >= 1
  <2>1. Cardinality(all) # 0
    BY <1>2
  <2>2. all # {}
    BY <2>1, FS_EmptySet
  <2> HIDE DEF all
  <2> QED BY <1>3, <2>1, <2>2
<1> HIDE DEF all
<1>7. CASE mine = {} \/ (reached = {} /\ Cardinality(all) > Cardinality(mine))
  <2>1. g = Process
    BY <1>4, <1>7
  <2>2. /\ mine = {} => Cardinality(mine) = 0 /\ reached = {}
        /\ Cardinality(all) > Cardinality(mine) /\ Cardinality(mine) < level
    <3>1. mine = {} => Cardinality(mine) = 0
      BY FS_EmptySet
    <3>2. mine = {} => reached = {}
      OBVIOUS
    <3> HIDE DEF mine, reached
    <3> QED BY <1>3, <1>5, <1>6, <1>7, <3>1, <3>2
  <2>3. PICK k \in all : k \notin mine
    <3>1. all # mine
      <4> HIDE DEF mine
      <4> QED BY <1>3, <2>2
    <3> QED BY <1>2, <3>1
  <2>4. /\ k \in 1..Depth /\ k > Call /\ k # Process /\ k < Process
        /\ stack[k].kind \in Loops
    <3>1. k \in 1..Depth /\ k > Call /\ stack[k].kind \in Loops /\ ~(k > Process)
      BY <1>2, <2>3
    <3>2. k # Process
      BY <1>1, <3>1 DEF Loops, Processes
    <3> QED BY <1>1, <3>1, <3>2
  <2>5. stack[Process].kind = "subshell"
    <3>1. Process # 1
      BY <1>1, <2>4
    <3> QED BY <1>1, <3>1 DEF Processes, FramesStand
  <2>6. LoopsAbove(Process) = mine
    BY <1>1, <2>4 DEF LoopsAbove, Above
  <2>7. \A i \in (Process + 1)..Depth : stack[i].kind \notin Processes \cup {"function"}
    BY <1>1, <2>4
  <2>8. stack[Process].kind \notin Loops
    BY <2>5 DEF Loops
  <2> HIDE DEF mine, g
  <2> QED BY <1>g, <1>1, <1>2, <1>3, <2>1, <2>2, <2>5, <2>6, <2>7, <2>8
<1>8. CASE mine # {} /\ reached # {}
  <2>1. g = Highest(reached)
    BY <1>4, <1>8
  <2>2. reached \subseteq 1..Depth /\ reached # {}
    BY <1>2, <1>8
  <2>3. g \in reached
    BY <1>1, <2>1, <2>2, HighestIsHighest
  <2>4. g \in mine /\ Cardinality({j \in mine : j >= g}) = level
    BY <2>3
  <2>5. /\ g \in 1..Depth /\ g > Call /\ g > Process /\ stack[g].kind \in Loops
    BY <1>2, <2>4
  <2>6. LoopsAbove(g) = {j \in mine : j >= g} \ {g}
    BY <1>1, <2>5 DEF LoopsAbove, Above
  <2>7. /\ IsFiniteSet({j \in mine : j >= g}) /\ g \in {j \in mine : j >= g}
        /\ Cardinality({j \in mine : j >= g}) <= Cardinality(mine)
    <3>1. {j \in mine : j >= g} \subseteq mine /\ g >= g
      BY <1>1, <2>5
    <3> HIDE DEF mine, g
    <3> QED BY <1>3, <2>4, <3>1, FS_Subset
  <2>8. Cardinality(LoopsAbove(g)) = level - 1
    <3> HIDE DEF mine, g, reached
    <3> QED BY <2>4, <2>6, <2>7, FS_RemoveElement
  <2>9. \A i \in (g + 1)..Depth : stack[i].kind \notin Processes \cup {"function"}
    BY <1>1, <2>5
  <2> HIDE DEF mine, g, reached
  <2> QED BY <1>g, <1>2, <1>3, <2>4, <2>5, <2>7, <2>8, <2>9
<1>9. CASE mine # {} /\ reached = {} /\ ~(Cardinality(all) > Cardinality(mine))
  <2>1. g = CHOOSE i \in mine : \A j \in mine : i <= j
    BY <1>4, <1>9
  <2>2. \E i \in mine : \A j \in mine : i <= j
    <3>1. mine \subseteq Nat
      <4>1. mine \subseteq 1..Depth
        BY <1>2
      <4> HIDE DEF mine
      <4> QED BY <1>1, <4>1
    <3> HIDE DEF mine
    <3> QED BY <1>9, <3>1, HasLeast
  <2>3. g \in mine /\ \A j \in mine : g <= j
    BY <2>1, <2>2
  <2>4. /\ g \in 1..Depth /\ g > Call /\ g > Process /\ stack[g].kind \in Loops
    BY <1>2, <2>3
  <2>5. LoopsAbove(g) = mine \ {g}
    <3>1. \A i \in mine : i # g => i > g
      <4>1. mine \subseteq 1..Depth
        BY <1>2
      <4> HIDE DEF mine, g
      <4> QED BY <1>1, <2>3, <2>4, <4>1
    <3>2. \A i \in LoopsAbove(g) : i \in mine /\ i # g
      BY <1>1, <2>4 DEF LoopsAbove, Above
    <3> QED BY <3>1, <3>2 DEF LoopsAbove
  <2>6. Cardinality(LoopsAbove(g)) = Cardinality(mine) - 1
    <3> HIDE DEF mine, g
    <3> QED BY <1>3, <2>3, <2>5, FS_RemoveElement
  <2>7. \A i \in (g + 1)..Depth : stack[i].kind \notin Processes \cup {"function"}
    BY <1>1, <2>4
  <2> HIDE DEF mine, g
  <2> QED BY <1>g, <1>2, <1>3, <1>5, <1>9, <2>3, <2>4, <2>6, <2>7
<1> QED BY <1>7, <1>8, <1>9

(* What the types say of the fields a step reads. *)
Tells ==
  /\ sh \in Fields /\ at.ret \in Nat /\ at.pc \in Pcs /\ prov \in Provs
  /\ at = [pc |-> at.pc, ret |-> at.ret]
  /\ Top \in Frames /\ Top.kind \in Kinds /\ Top.keep \in Nat /\ Top.prov \in Provs
  /\ Top.outer # <<>> => Top.outer[1] \in Fields
  /\ ValueOr \in Nat
  /\ Depth \in Nat /\ Depth >= 1
  /\ Top.kind = "input" <=> Depth = 1
  /\ Top.kind \in {"subshell", "trap", "exit_trap"} => Top.outer # <<>>

LEMMA HeadOfSome ==
  ASSUME NEW S, NEW s \in Seq(S), s # <<>>
  PROVE  s[1] \in S /\ Head(s) \in S
<1>1. Len(s) \in Nat /\ Len(s) >= 1
  BY LenProperties, EmptySeq
<1>2. s[1] \in S
  BY <1>1, ElementOfSeq
<1> QED BY <1>2, HeadTailProperties

LEMMA IInvTells ==
  ASSUME IInv
  PROVE  Tells
<1>1. Types /\ FramesStand
  BY DEF IInv, StackKnown
<1>2. /\ sh \in Fields /\ at.ret \in Nat /\ at.pc \in Pcs /\ prov \in Provs
      /\ at = [pc |-> at.pc, ret |-> at.ret]
  BY <1>1 DEF Types
<1>3. Depth \in Nat /\ Depth >= 1 /\ Top \in Frames
  BY <1>1, StackTells
<1>4. Top.kind \in Kinds /\ Top.keep \in Nat /\ Top.prov \in Provs /\ Top.outer \in Seq(Fields)
  BY <1>3 DEF Frames
<1>5. Top.outer # <<>> => Top.outer[1] \in Fields
  BY <1>4, HeadOfSome
<1>6. ValueOr \in Nat
  <2>1. sh.entry \in Seq(Nat) /\ sh.last \in Nat
    BY <1>2 DEF Fields
  <2>2. sh.entry # <<>> => Head(sh.entry) \in Nat
    BY <2>1, HeadOfSome
  <2> QED BY <2>1, <2>2 DEF ValueOr
<1>7. Depth \in 1..Depth
  BY <1>3
<1>8. /\ Top.kind = "input" <=> Depth = 1
      /\ Top.kind \in {"subshell", "trap", "exit_trap"} => Top.outer # <<>>
  BY <1>1, <1>7 DEF FramesStand, Top
<1> QED BY <1>2, <1>3, <1>4, <1>5, <1>6, <1>8 DEF Tells

LEMMA PlainFrame ==
  ASSUME NEW kind \in Kinds
  PROVE  Frame(kind) \in Frames /\ Frame(kind).kind = kind /\ Frame(kind).keep = 0
<1>1. <<>> \in Seq(Fields)
  BY EmptySeq
<1> QED BY <1>1 DEF Frame, Frames, Acted, Provs

(* A frame that is popped, and the unwind that goes on below it. *)
LEMMA PopCarries ==
  ASSUME IInv, stack' = Popped, NEW pc, Follows(Depth - 1, pc), watch' # <<>>
  PROVE  \E w \in Unwinds :
           /\ watch # <<>> /\ watch' = watch /\ w = watch[1]
           /\ UnderWay(w) /\ OnItsWay(w)' /\ w.goal \in 1..(Depth - 1)
           /\ Top.kind \notin Barred(w)
           /\ at.pc # "finish" /\ Depth > 1 => Unwinding
<1>1. watch' = watch /\ watch # <<>> /\ ~(Depth - 1 < watch[1].goal)
  BY DEF Follows, Arrived
<1>2. PICK w : w = watch[1]
  OBVIOUS
<1>3. /\ w \in Unwinds /\ UnderWay(w)
      /\ at.pc \notin {"finish", "unit", "left"} => Unwinding
      /\ at.pc = "left" /\ Depth > 1 => Unwinding
  BY <1>1, <1>2, UnwindTells
<1>4. at.pc = "unit" => Depth = 1
  BY DEF IInv, PointKnown
<1>5. OnItsWay(w)' /\ Top.kind \notin Barred(w)
  BY <1>1, <1>2, <1>3, WayPops DEF IInv, UnderWay
<1>6. w.goal \in 1..(Depth - 1)
  BY <1>1, <1>2, <1>3, IInvTells DEF UnderWay, OnItsWay, Tells
<1> QED BY <1>1, <1>2, <1>3, <1>4, <1>5, <1>6

(* What stands goes on standing as a frame is popped that takes none of it. *)
LEMMA StandsPops ==
  ASSUME Types, StackKnown, stack' = Popped, Depth > 1, NEW w \in Unwinds, UnderWay(w),
         w.goal \in 1..(Depth - 1), Top.kind \notin Barred(w),
         at.pc \notin {"finish", "unit"}, at'.pc \in {"back", "traps", "caught"},
         sh'.flow = sh.flow, sh'.exit = sh.exit,
         w.how \in {"break", "continue"} =>
           sh'.level = IF Top.kind \in Loops THEN sh.level - 1 ELSE sh.level
  PROVE  Stands(w)'
<1>1. w.how \in {"exit", "return", "break", "continue", "interrupt"}
  BY DEF Unwinds
<1>2. Stands(w) /\ Depth # 1
  BY StackTells DEF UnderWay, StackKnown
<1>3. CASE w.how \in {"exit", "return", "interrupt"}
  BY <1>2, <1>3 DEF Stands
<1>4. CASE w.how \in {"break", "continue"}
  <2>1. ~sh.exit /\ sh.flow = w.how /\ LevelsLeft(w.goal)
    BY <1>2, <1>4 DEF Stands
  <2>2. Top.kind # "function"
    BY <1>4 DEF Barred
  <2>3. LevelsLeft(w.goal)'
    BY <1>4, <2>1, <2>2, LevelsPop
  <2> QED BY <1>4, <2>1, <2>3 DEF Stands
<1> QED BY <1>1, <1>3, <1>4

(* A construct runs another list only below no unwind. *)
LEMMA ContinuesBelow ==
  ASSUME IInv, at.pc = "left", Follows(Depth, "node"), watch' # <<>>
  PROVE  \E w \in Unwinds :
           /\ UnderWay(w) /\ w.goal \in 1..(Depth - 1)
           /\ Top.kind \notin Barred(w) /\ Unwinding
<1>1. /\ watch' = watch /\ watch # <<>>
      /\ ~(Depth < watch[1].goal) /\ Depth # watch[1].goal
  BY DEF Follows, Arrived, Running
<1>2. PICK w : w = watch[1]
  OBVIOUS
<1>3. /\ w \in Unwinds /\ UnderWay(w) /\ (Depth > 1 => Unwinding)
  BY <1>1, <1>2, UnwindTells
<1>4. Depth \in Nat /\ w.goal \in 1..Depth /\ w.goal # Depth
  BY <1>1, <1>2, <1>3, IInvTells DEF UnderWay, OnItsWay, Tells
<1>5. w.goal \in 1..(Depth - 1) /\ Depth > 1 /\ Depth \in (w.goal + 1)..Depth
  BY <1>4
<1>6. Top.kind \notin Barred(w)
  BY <1>3, <1>5 DEF UnderWay, OnItsWay, Top
<1> QED BY <1>3, <1>5, <1>6

(* A loop above the goal takes a level, and lets the unwind pass. *)
Takes == sh' = IF sh.exit THEN sh ELSE consume_loop_flow

LEMMA TakesTypes ==
  ASSUME sh \in Fields, Takes
  PROVE  sh' \in Fields /\ sh'.trap_ran = sh.trap_ran /\ sh'.tested = sh.tested
<1>1. sh.level \in Nat /\ (sh.level # 0 => sh.level - 1 \in Nat)
  BY DEF Fields
<1>2. CASE sh.exit \/ ~Breaks
  BY <1>2 DEF Takes, consume_loop_flow
<1>3. CASE ~sh.exit /\ Breaks
  <2>1. sh' = [sh EXCEPT !.level = IF @ = 0 THEN 0 ELSE @ - 1,
                         !.flow = IF Lasts THEN "normal" ELSE @]
    BY <1>3 DEF Takes, consume_loop_flow
  <2>2. CASE Lasts
    BY <1>1, <2>1, <2>2 DEF Fields, Flows
  <2>3. CASE ~Lasts
    BY <1>1, <2>1, <2>3 DEF Fields, Flows
  <2> QED BY <2>2, <2>3
<1> QED BY <1>2, <1>3 DEF Breaks

LEMMA LoopTakes ==
  ASSUME Types, StackKnown, NEW w \in Unwinds, Stands(w), w.goal \in 1..(Depth - 1),
         at.pc = "left", Top.kind \in Loops, Takes
  PROVE  /\ sh'.flow = sh.flow /\ sh'.exit = sh.exit
         /\ w.how \in {"break", "continue"} => sh'.level = sh.level - 1
<1>1. w.how \in {"exit", "return", "break", "continue", "interrupt"}
  BY DEF Unwinds
<1>2. sh \in Fields /\ sh.level \in Nat
  BY DEF Types, Fields
<1>3. CASE w.how \in {"exit", "return", "interrupt"}
  <2>1. sh.exit \/ sh.flow \notin {"break", "continue"}
    BY <1>1, <1>3 DEF Stands
  <2> QED BY <1>3, <2>1 DEF Takes, consume_loop_flow, Breaks
<1>4. CASE w.how \in {"break", "continue"}
  <2>1. ~sh.exit /\ sh.flow = w.how /\ LevelsLeft(w.goal)
    BY <1>4 DEF Stands
  <2>2. ~Lasts
    BY <2>1, LevelsMore
  <2>3. Cardinality(LoopsAbove(w.goal)) \in Nat
    BY LoopsFinite DEF StackKnown
  <2>4. sh.level # 0
    BY <1>2, <2>1, <2>3 DEF LevelsLeft
  <2>5. sh' = [sh EXCEPT !.level = IF @ = 0 THEN 0 ELSE @ - 1,
                         !.flow = IF Lasts THEN "normal" ELSE @]
    BY <1>4, <2>1 DEF Takes, consume_loop_flow, Breaks
  <2> QED BY <1>2, <2>2, <2>4, <2>5 DEF Fields
<1> QED BY <1>1, <1>3, <1>4

(* What stands goes on standing where a list looks about it. *)
LEMMA StandsStays ==
  ASSUME UNCHANGED stack, NEW w \in Unwinds, Stands(w), Depth' = Depth,
         at.pc \in {"back", "traps", "caught", "tests"},
         \/ at'.pc \in {"traps", "caught", "tests"}
         \/ at'.pc = "left" /\ Depth # 1,
         sh'.flow = sh.flow, sh'.exit = sh.exit, sh'.level = sh.level
  PROVE  Stands(w)'
<1>1. w.how \in {"exit", "return", "break", "continue", "interrupt"}
  BY DEF Unwinds
<1>2. LevelsLeft(w.goal) => LevelsLeft(w.goal)'
  BY LevelsStay
<1> QED BY <1>1, <1>2 DEF Stands

LEMMA WatchStays ==
  ASSUME IInv, watch' = watch, watch' # <<>>
  PROVE  \E w \in Unwinds :
           /\ w = watch[1] /\ w = watch'[1] /\ UnderWay(w) /\ Stands(w) /\ Brings(w)
           /\ w.goal \in 1..Depth
           /\ w.how \in {"exit", "return", "break", "continue", "interrupt"}
           /\ at.pc \notin {"finish", "unit", "left"} => Unwinding
<1>1. PICK w : w = watch[1]
  OBVIOUS
<1>2. /\ w \in Unwinds /\ UnderWay(w)
      /\ at.pc \notin {"finish", "unit", "left"} => Unwinding
  BY <1>1, UnwindTells
<1> QED BY <1>1, <1>2 DEF UnderWay, OnItsWay, Unwinds

(* Nodes that only report a status. *)
LEMMA SimpleCommandKeeps ==
  ASSUME IInv, SimpleCommand
  PROVE  IInv'
<1>f. Types /\ StackKnown /\ Tells
  BY IInvTells DEF IInv
<1>g. UNCHANGED stack /\ sh'.trap_ran = sh.trap_ran
  BY <1>f DEF SimpleCommand, Step, Tells, Fields
<1>1. Types'
  <2>1. sh' \in Fields
    BY <1>f DEF Tells, Fields, Flows, SimpleCommand
  <2>2. at' \in [pc : Pcs, ret : Nat]
    BY <1>f DEF Tells, Fields, Pcs, Status, Step, Point, SimpleCommand
  <2>3. prov' \in Provs
    BY <1>f DEF Tells, Provs, Acted, Tested, SimpleCommand
  <2>4. mode' = mode /\ watch' \in Seq(Unwinds)
    BY <1>f DEF Types, Step, SimpleCommand
  <2> QED BY <1>f, <1>g, <2>1, <2>2, <2>3, <2>4 DEF Types
<1>2. StackKnown' /\ Depth' = Depth /\ Top' = Top
  BY <1>f, <1>g, StayKnows
<1>3. PointKnown'
  BY <1>f, <1>2 DEF PointKnown, IInv, Running, Point, Step, SimpleCommand
<1>4. TestsKnown'
  BY <1>f DEF TestsKnown, IInv, Running, Point, Step, Acted, Tested, Tells, Fields,
     SimpleCommand
<1>5. watch' # <<>> => UnderWay(watch[1])'
  BY StartsUnwatched DEF SimpleCommand
<1> QED BY <1>1, <1>2, <1>3, <1>4, <1>5 DEF IInv

LEMMA SetTrapKeeps ==
  ASSUME IInv, SetTrap
  PROVE  IInv'
<1>f. Types /\ StackKnown /\ Tells
  BY IInvTells DEF IInv
<1>g. UNCHANGED stack /\ sh'.trap_ran = sh.trap_ran
  BY <1>f DEF SetTrap, Step, Tells, Fields
<1>1. Types'
  <2>1. sh' \in Fields
    BY <1>f DEF Tells, Fields, Flows, SetTrap
  <2>2. at' \in [pc : Pcs, ret : Nat]
    BY <1>f DEF Tells, Fields, Pcs, Status, Step, Point, SetTrap
  <2>3. prov' \in Provs
    BY <1>f DEF Tells, Provs, Acted, Tested, SetTrap
  <2>4. mode' = mode /\ watch' \in Seq(Unwinds)
    BY <1>f DEF Types, Step, SetTrap
  <2> QED BY <1>f, <1>g, <2>1, <2>2, <2>3, <2>4 DEF Types
<1>2. StackKnown' /\ Depth' = Depth /\ Top' = Top
  BY <1>f, <1>g, StayKnows
<1>3. PointKnown'
  BY <1>f, <1>2 DEF PointKnown, IInv, Running, Point, Step, SetTrap
<1>4. TestsKnown'
  BY <1>f DEF TestsKnown, IInv, Running, Point, Step, Acted, Tested, Tells, Fields, SetTrap
<1>5. watch' # <<>> => UnderWay(watch[1])'
  BY StartsUnwatched DEF SetTrap
<1> QED BY <1>1, <1>2, <1>3, <1>4, <1>5 DEF IInv

LEMMA EmptyConstructKeeps ==
  ASSUME IInv, EmptyConstruct
  PROVE  IInv'
<1>f. Types /\ StackKnown /\ Tells
  BY IInvTells DEF IInv
<1>g. UNCHANGED stack /\ sh'.trap_ran = sh.trap_ran
  BY <1>f DEF EmptyConstruct, Step, Tells, Fields
<1>1. Types'
  <2>1. sh' \in Fields
    BY <1>f DEF Tells, Fields, Flows, EmptyConstruct
  <2>2. at' \in [pc : Pcs, ret : Nat]
    BY <1>f DEF Tells, Fields, Pcs, Status, Step, Point, EmptyConstruct
  <2>3. prov' \in Provs
    BY <1>f DEF Tells, Provs, Acted, Tested, EmptyConstruct
  <2>4. mode' = mode /\ watch' \in Seq(Unwinds)
    BY <1>f DEF Types, Step, EmptyConstruct
  <2> QED BY <1>f, <1>g, <2>1, <2>2, <2>3, <2>4 DEF Types
<1>2. StackKnown' /\ Depth' = Depth /\ Top' = Top
  BY <1>f, <1>g, StayKnows
<1>3. PointKnown'
  BY <1>f, <1>2 DEF PointKnown, IInv, Running, Point, Step, EmptyConstruct
<1>4. TestsKnown'
  BY <1>f DEF TestsKnown, IInv, Running, Point, Step, Acted, Tested, Tells, Fields,
     EmptyConstruct
<1>5. watch' # <<>> => UnderWay(watch[1])'
  BY StartsUnwatched DEF EmptyConstruct
<1> QED BY <1>1, <1>2, <1>3, <1>4, <1>5 DEF IInv

(* `exit', `return' and `break' set an unwind going. *)
LEMMA ExitKeeps ==
  ASSUME IInv, Exit
  PROVE  IInv'
<1>f. Types /\ StackKnown /\ Tells
  BY IInvTells DEF IInv
<1>g. UNCHANGED stack /\ sh'.trap_ran = sh.trap_ran
  BY <1>f DEF Exit, Step, Tells, Fields
<1>w. /\ watch' \in Seq(Unwinds)
      /\ watch' # <<>> =>
           /\ OnItsWay(watch[1])' /\ watch'[1].how = "exit" /\ ~Unwinding
           /\ watch'[1].want # <<>> => watch'[1].want[1] = at'.ret
  <2>1. PICK status \in Nat : Goes("exit", Process, status) /\ at'.ret = status
    BY <1>f DEF Exit, Step, Point, Status, Tells
  <2>2. stack[Process].kind \in Goals("exit")
    BY <1>f, ProcessTells DEF StackKnown, Goals
  <2> QED BY <1>f, <1>g, <2>1, <2>2, ProcessTells, GoesBegins DEF StackKnown
<1>1. Types'
  <2>1. sh' \in Fields
    BY <1>f DEF Tells, Fields, Flows, Exit
  <2>2. at' \in [pc : Pcs, ret : Nat]
    BY <1>f DEF Tells, Fields, Pcs, Status, Step, Point, Exit
  <2>3. prov' \in Provs
    BY <1>f DEF Tells, Provs, Acted, Tested, Exit
  <2>4. mode' = mode /\ watch' \in Seq(Unwinds)
    BY <1>f, <1>w DEF Types, Step, Exit
  <2> QED BY <1>f, <1>g, <2>1, <2>2, <2>3, <2>4 DEF Types
<1>2. StackKnown' /\ Depth' = Depth /\ Top' = Top
  BY <1>f, <1>g, StayKnows
<1>3. PointKnown'
  BY <1>f, <1>2 DEF PointKnown, IInv, Running, Point, Step, Exit
<1>4. TestsKnown'
  BY <1>f DEF TestsKnown, IInv, Running, Point, Step, Acted, Tested, Tells, Fields, Exit
<1>5. watch' # <<>> => UnderWay(watch[1])'
  <2>1. at'.pc = "back" /\ sh'.exit /\ sh'.flow = sh.flow
    BY <1>f DEF Tells, Fields, Step, Point, Exit
  <2>2. watch' # <<>> => Stands(watch[1])' /\ Brings(watch[1])'
    BY <1>w, <2>1 DEF Stands, Brings, Unwinding
  <2> QED BY <1>w, <2>1, <2>2 DEF UnderWay, Running
<1> QED BY <1>1, <1>2, <1>3, <1>4, <1>5 DEF IInv

LEMMA ReturnKeeps ==
  ASSUME IInv, Return
  PROVE  IInv'
<1>f. Types /\ StackKnown /\ Tells
  BY IInvTells DEF IInv
<1>g. UNCHANGED stack /\ sh'.trap_ran = sh.trap_ran
  BY <1>f DEF Return, Step, Tells, Fields
<1>w. /\ watch' \in Seq(Unwinds)
      /\ watch' # <<>> =>
           /\ OnItsWay(watch[1])' /\ watch'[1].how = "return" /\ ~Unwinding
           /\ watch'[1].want # <<>> => watch'[1].want[1] = at'.ret
  <2> DEFINE goal == Highest(Above(Processes \cup {"function", "dot"}))
  <2>1. PICK status \in Nat : Goes("return", goal, status) /\ at'.ret = status
    BY <1>f DEF Return, Step, Point, Status, Tells
  <2>2. \E i \in 1..Depth : stack[i].kind \in Processes \cup {"function", "dot"}
    BY <1>f, ProcessTells DEF StackKnown
  <2>3. /\ goal \in 1..Depth
        /\ stack[goal].kind \in Processes \cup {"function", "dot"}
        /\ \A i \in (goal + 1)..Depth : stack[i].kind \notin Processes \cup {"function", "dot"}
    BY <1>f, <2>2, HighestAbove DEF StackKnown
  <2> HIDE DEF goal
  <2>4. stack[goal].kind \in Goals("return")
    BY <2>3 DEF Goals
  <2> QED BY <1>f, <1>g, <2>1, <2>3, <2>4, GoesBegins
<1>1. Types'
  <2>1. sh' \in Fields
    BY <1>f DEF Tells, Fields, Flows, Return
  <2>2. at' \in [pc : Pcs, ret : Nat]
    BY <1>f DEF Tells, Fields, Pcs, Status, Step, Point, Return
  <2>3. prov' \in Provs
    BY <1>f DEF Tells, Provs, Acted, Tested, Return
  <2>4. mode' = mode /\ watch' \in Seq(Unwinds)
    BY <1>f, <1>w DEF Types, Step, Return
  <2> QED BY <1>f, <1>g, <2>1, <2>2, <2>3, <2>4 DEF Types
<1>2. StackKnown' /\ Depth' = Depth /\ Top' = Top
  BY <1>f, <1>g, StayKnows
<1>3. PointKnown'
  BY <1>f, <1>2 DEF PointKnown, IInv, Running, Point, Step, Return
<1>4. TestsKnown'
  BY <1>f DEF TestsKnown, IInv, Running, Point, Step, Acted, Tested, Tells, Fields, Return
<1>5. watch' # <<>> => UnderWay(watch[1])'
  <2>1. at'.pc = "back" /\ sh'.exit = sh.exit /\ sh'.flow = "return"
    BY <1>f DEF Tells, Fields, Step, Point, Return
  <2>2. watch' # <<>> => Stands(watch[1])' /\ Brings(watch[1])'
    BY <1>w, <2>1 DEF Stands, Brings, Unwinding
  <2> QED BY <1>w, <2>1, <2>2 DEF UnderWay, Running
<1> QED BY <1>1, <1>2, <1>3, <1>4, <1>5 DEF IInv

LEMMA BreakKeeps ==
  ASSUME IInv, Break
  PROVE  IInv'
<1>f. Types /\ StackKnown /\ Tells
  BY IInvTells DEF IInv
<1>g. UNCHANGED stack /\ sh'.trap_ran = sh.trap_ran
  BY <1>f DEF Break, Step, Tells, Fields
<1>u. sh' \in Fields
  <2>1. \/ sh' = [sh EXCEPT !.tested = FALSE]
        \/ \E how \in {"break", "continue"}, level \in 1..2 :
             sh' = [sh EXCEPT !.tested = FALSE, !.flow = how, !.level = level]
    BY DEF Break
  <2>2. CASE sh' = [sh EXCEPT !.tested = FALSE]
    BY <1>f, <2>2 DEF Tells, Fields
  <2>3. ASSUME NEW how \in {"break", "continue"}, NEW level \in 1..2,
               sh' = [sh EXCEPT !.tested = FALSE, !.flow = how, !.level = level]
        PROVE  sh' \in Fields
    <3>1. level \in Nat /\ how \in Flows
      BY DEF Flows
    <3> QED BY <1>f, <2>3, <3>1 DEF Tells, Fields
  <2> QED BY <2>1, <2>2, <2>3
<1>w. /\ watch' \in Seq(Unwinds)
      /\ watch' # <<>> =>
           /\ OnItsWay(watch[1])' /\ watch'[1].how \in {"break", "continue"} /\ ~Unwinding
           /\ sh'.flow = watch'[1].how /\ LevelsLeft(watch[1].goal)'
           /\ watch'[1].want = <<>>
  <2>1. CASE loop_depth = 0
    BY <2>1, <1>f, StartsUnwatched, EmptySeq DEF Break, Offers
  <2>2. CASE loop_depth # 0
    <3>1. PICK how \in {"break", "continue"}, level \in 1..2 :
            /\ sh' = [sh EXCEPT !.tested = FALSE, !.flow = how, !.level = level]
            /\ Goes(how, LoopGoal(level), 0)
      BY <2>2 DEF Break
    <3>a. PICK g : g = LoopGoal(level)
      OBVIOUS
    <3> DEFINE m == Cardinality(LoopsAbove(g))
    <3>2. /\ g \in 1..Depth
          /\ stack[g].kind \in Loops \cup {"subshell"}
          /\ \A i \in (g + 1)..Depth : stack[i].kind \notin Processes \cup {"function"}
          /\ level > m /\ loop_depth > m
          /\ stack[g].kind \in Loops => m + 1 \in {level, loop_depth}
      BY <1>f, <2>2, <3>a, BreakGoal DEF StackKnown
    <3>3. stack[g].kind \in Goals(how)
      BY <3>2 DEF Goals
    <3>4. Goes(how, g, 0)
      BY <3>1, <3>a
    <3>5. /\ watch' \in Seq(Unwinds)
          /\ watch' # <<>> =>
               /\ OnItsWay(watch[1])' /\ watch'[1].how = how /\ watch'[1].goal = g
               /\ watch'[1].want = <<>> /\ ~Unwinding
      BY <1>f, <1>g, <3>2, <3>3, <3>4, GoesBegins
    <3>6. sh'.flow = how /\ sh'.level = level
      BY <1>f, <3>1 DEF Tells, Fields
    <3>7. LoopsAbove(g)' = LoopsAbove(g) /\ loop_depth' = loop_depth
      BY <1>g DEF LoopsAbove, Above, Depth, loop_depth, Call, Highest
    <3>8. LevelsLeft(g)'
      BY <1>g, <3>2, <3>6, <3>7 DEF LevelsLeft
    <3>9. watch' # <<>> => LevelsLeft(watch[1].goal)'
      BY <3>5, <3>8 DEF LevelsLeft, LoopsAbove
    <3> QED BY <3>5, <3>6, <3>9
  <2> QED BY <2>1, <2>2
<1>1. Types'
  <2>1. sh' \in Fields
    BY <1>f, <1>u DEF Tells, Fields, Flows, Break
  <2>2. at' \in [pc : Pcs, ret : Nat]
    BY <1>f DEF Tells, Fields, Pcs, Status, Step, Point, Break
  <2>3. prov' \in Provs
    BY <1>f DEF Tells, Provs, Acted, Tested, Break
  <2>4. mode' = mode /\ watch' \in Seq(Unwinds)
    BY <1>f, <1>w DEF Types, Step, Break
  <2> QED BY <1>f, <1>g, <2>1, <2>2, <2>3, <2>4 DEF Types
<1>2. StackKnown' /\ Depth' = Depth /\ Top' = Top
  BY <1>f, <1>g, StayKnows
<1>3. PointKnown'
  BY <1>f, <1>2 DEF PointKnown, IInv, Running, Point, Step, Break
<1>4. TestsKnown'
  BY <1>f DEF TestsKnown, IInv, Running, Point, Step, Acted, Tested, Tells, Fields, Break
<1>5. watch' # <<>> => UnderWay(watch[1])'
  <2>1. at'.pc = "back" /\ sh'.exit = sh.exit
    BY <1>f DEF Tells, Fields, Step, Point, Break
  <2>2. watch' # <<>> => Stands(watch[1])' /\ Brings(watch[1])'
    BY <1>w, <2>1 DEF Stands, Brings, Unwinding
  <2> QED BY <1>w, <2>1, <2>2 DEF UnderWay, Running
<1> QED BY <1>1, <1>2, <1>3, <1>4, <1>5 DEF IInv

(* A construct is entered. *)
LEMMA EnterConstructKeeps ==
  ASSUME IInv, EnterConstruct
  PROVE  IInv'
<1>f. Types /\ StackKnown /\ Tells
  BY IInvTells DEF IInv
<1>g. PICK f \in Frames :
        /\ Pushes(f) /\ f.kind \notin {"input"}
        /\ f.kind \notin {"subshell", "trap", "exit_trap"}
  <2>1. PICK kind \in {"brace", "function", "eval", "dot", "if", "while", "until", "for", "case"} :
          Pushes(Frame(kind))
    BY DEF EnterConstruct, Enters, Step, Pushes
  <2>2. kind \in Kinds /\ kind \notin {"input", "subshell", "trap", "exit_trap"}
    BY DEF Kinds, Lists, Loops, Operators
  <2> QED BY <2>1, <2>2, PlainFrame
<1>s. Types' /\ sh'.trap_ran = sh.trap_ran /\ at'.pc \in Running /\ watch' = <<>>
  <2>0. <<sh.last>> \in Seq(Nat)
    <3>1. sh.last \in Nat
      BY <1>f DEF Tells, Fields
    <3> QED BY <3>1
  <2>1. sh' \in Fields /\ sh'.trap_ran = sh.trap_ran
    BY <1>f, <1>g, <2>0, EmptySeq DEF Tells, Fields, Flows, Enters, EnterConstruct
  <2>2. at' \in [pc : Pcs, ret : Nat] /\ at'.pc \in Running
    BY <1>f DEF Tells, Pcs, Running, Step, Point, Enters, EnterConstruct
  <2>3. prov' = prov /\ mode' = mode
    BY DEF Enters, Step, EnterConstruct
  <2>4. watch' = <<>>
    BY StartsUnwatched DEF Enters, Running, EnterConstruct
  <2>5. stack' \in Seq(Frames)
    BY <1>f, <1>g, PushTells DEF StackKnown
  <2> QED BY <1>f, <2>1, <2>2, <2>3, <2>4, <2>5, EmptySeq DEF Types, Tells
<1>1. Types'
  BY <1>s
<1>2. StackKnown'
  BY <1>f, <1>g, <1>s, PushKnows
<1>3. PointKnown'
  BY <1>s DEF PointKnown, Running
<1>4. TestsKnown'
  BY <1>s DEF TestsKnown
<1>5. watch' # <<>> => UnderWay(watch[1])'
  BY <1>s
<1> QED BY <1>1, <1>2, <1>3, <1>4, <1>5 DEF IInv

LEMMA EnterOperatorKeeps ==
  ASSUME IInv, EnterOperator
  PROVE  IInv'
<1>f. Types /\ StackKnown /\ Tells
  BY IInvTells DEF IInv
<1>g. PICK f \in Frames :
        /\ Pushes(f) /\ f.kind \notin {"input"}
        /\ f.kind \notin {"subshell", "trap", "exit_trap"}
  <2>1. PICK kind \in {"and", "or", "not"} : Pushes(Frame(kind))
    BY DEF EnterOperator, Enters, Step, Pushes
  <2>2. kind \in Kinds /\ kind \notin {"input", "subshell", "trap", "exit_trap"}
    BY DEF Kinds, Lists, Loops, Operators
  <2> QED BY <2>1, <2>2, PlainFrame
<1>s. Types' /\ sh'.trap_ran = sh.trap_ran /\ at'.pc \in Running /\ watch' = <<>>
  <2>0. <<sh.last>> \in Seq(Nat)
    <3>1. sh.last \in Nat
      BY <1>f DEF Tells, Fields
    <3> QED BY <3>1
  <2>1. sh' \in Fields /\ sh'.trap_ran = sh.trap_ran
    BY <1>f, <1>g, <2>0, EmptySeq DEF Tells, Fields, Flows, Enters, EnterOperator
  <2>2. at' \in [pc : Pcs, ret : Nat] /\ at'.pc \in Running
    BY <1>f DEF Tells, Pcs, Running, Step, Point, Enters, EnterOperator
  <2>3. prov' = prov /\ mode' = mode
    BY DEF Enters, Step, EnterOperator
  <2>4. watch' = <<>>
    BY StartsUnwatched DEF Enters, Running, EnterOperator
  <2>5. stack' \in Seq(Frames)
    BY <1>f, <1>g, PushTells DEF StackKnown
  <2> QED BY <1>f, <2>1, <2>2, <2>3, <2>4, <2>5, EmptySeq DEF Types, Tells
<1>1. Types'
  BY <1>s
<1>2. StackKnown'
  BY <1>f, <1>g, <1>s, PushKnows
<1>3. PointKnown'
  BY <1>s DEF PointKnown, Running
<1>4. TestsKnown'
  BY <1>s DEF TestsKnown
<1>5. watch' # <<>> => UnderWay(watch[1])'
  BY <1>s
<1> QED BY <1>1, <1>2, <1>3, <1>4, <1>5 DEF IInv

LEMMA EnterSubshellKeeps ==
  ASSUME IInv, EnterSubshell
  PROVE  IInv'
<1>f. Types /\ StackKnown /\ Tells
  BY IInvTells DEF IInv
<1>g. PICK f \in Frames :
        /\ Pushes(f) /\ f.kind \notin {"input"}
        /\ f.kind = "subshell" /\ f.outer # <<>> /\ ~f.outer[1].tested
             /\ f.outer[1].trap_ran = sh.trap_ran
  <2> DEFINE o == [sh EXCEPT !.tested = FALSE]
             f == [Frame("subshell") EXCEPT !.outer = <<o>>]
  <2>1. o \in Fields /\ ~o.tested /\ o.trap_ran = sh.trap_ran
    BY <1>f DEF Tells, Fields
  <2>2. <<o>> \in Seq(Fields) /\ <<o>> # <<>> /\ <<o>>[1] = o
    BY <2>1
  <2> HIDE DEF o
  <2>3. Frame("subshell") \in Frames /\ Frame("subshell").kind = "subshell"
    BY PlainFrame DEF Kinds, Lists
  <2>4. f \in Frames /\ f.kind = "subshell" /\ f.outer = <<o>>
    BY <2>2, <2>3 DEF Frames
  <2>5. Pushes(f)
    BY DEF EnterSubshell, Enters, Step, Pushes, o
  <2> HIDE DEF f
  <2> QED BY <2>1, <2>2, <2>4, <2>5
<1>s. Types' /\ sh'.trap_ran = FALSE /\ at'.pc \in Running /\ watch' = <<>>
  <2>0. <<sh.last>> \in Seq(Nat)
    <3>1. sh.last \in Nat
      BY <1>f DEF Tells, Fields
    <3> QED BY <3>1
  <2>1. sh' \in Fields /\ sh'.trap_ran = FALSE
    BY <1>f, <1>g, <2>0, EmptySeq DEF Tells, Fields, Flows, Enters, EnterSubshell
  <2>2. at' \in [pc : Pcs, ret : Nat] /\ at'.pc \in Running
    BY <1>f DEF Tells, Pcs, Running, Step, Point, Enters, EnterSubshell
  <2>3. prov' = prov /\ mode' = mode
    BY DEF Enters, Step, EnterSubshell
  <2>4. watch' = <<>>
    BY StartsUnwatched DEF Enters, Running, EnterSubshell, Offers
  <2>5. stack' \in Seq(Frames)
    BY <1>f, <1>g, PushTells DEF StackKnown
  <2> QED BY <1>f, <2>1, <2>2, <2>3, <2>4, <2>5, EmptySeq DEF Types, Tells
<1>1. Types'
  BY <1>s
<1>2. StackKnown'
  BY <1>f, <1>g, <1>s, PushKnows
<1>3. PointKnown'
  BY <1>s DEF PointKnown, Running
<1>4. TestsKnown'
  BY <1>s DEF TestsKnown
<1>5. watch' # <<>> => UnderWay(watch[1])'
  BY <1>s
<1> QED BY <1>1, <1>2, <1>3, <1>4, <1>5 DEF IInv

(* A node has returned to the construct above it. *)
LEMMA run_negationKeeps ==
  ASSUME IInv, run_negation
  PROVE  IInv'
<1>f. Types /\ StackKnown /\ Tells
  BY IInvTells DEF IInv
<1>g. /\ stack' = Popped /\ Top.kind \in {"not"} /\ Top.kind # "input"
      /\ sh'.trap_ran = IF Top.kind = "subshell" THEN Top.outer[1].trap_ran ELSE sh.trap_ran
      /\ at'.pc = "back" /\ at.pc \in {"back", "left"} /\ Follows(Depth - 1, "back")
  <2>1. stack' = Popped /\ at'.pc = "back" /\ at.pc \in {"back", "left"}
          /\ Follows(Depth - 1, "back")
        /\ Top.kind \in {"not"}
    BY <1>f DEF Returns, Step, Point, Tells, Left, Back, run_negation
  <2>2. sh'.trap_ran = sh.trap_ran
    BY <1>f DEF Tells, Fields, Returns, consume_loop_flow, run_negation
  <2> QED BY <2>1, <2>2 DEF Loops, Conditions
<1>1. Types'
  <2>1. sh' \in Fields
    BY <1>f DEF Tells, Fields, Flows, Returns, consume_loop_flow, run_negation
  <2>2. at' \in [pc : Pcs, ret : Nat]
    BY <1>f DEF Tells, Fields, Pcs, Step, Point, Returns, run_negation
  <2>3. prov' \in Provs
    BY <1>f DEF Tells, Provs, Acted, Tested, run_negation
  <2>4. mode' = mode /\ watch' \in Seq(Unwinds)
    BY <1>f, <1>g, EmptySeq DEF Types, Step, Returns, Follows, run_negation
  <2>5. stack' \in Seq(Frames)
    BY <1>f, <1>g, PopTells DEF StackKnown
  <2> QED BY <1>f, <2>1, <2>2, <2>3, <2>4, <2>5 DEF Types
<1>2. StackKnown' /\ Depth' = Depth - 1 /\ Depth > 1 /\ Top' = stack[Depth - 1]
  BY <1>f, <1>g, PopKnows
<1>3. PointKnown'
  BY <1>g, <1>2 DEF PointKnown
<1>4. TestsKnown'
  BY <1>f DEF TestsKnown, IInv, Running, Point, Step, Acted, Tested, Tells, Fields, Returns,
     Left, Back, run_negation
<1>5. ASSUME watch' # <<>> PROVE UnderWay(watch[1])'
  <2>1. PICK w \in Unwinds :
           /\ watch' = watch /\ w = watch[1]
           /\ UnderWay(w) /\ OnItsWay(w)' /\ w.goal \in 1..(Depth - 1)
           /\ Top.kind \notin Barred(w) /\ Unwinding
    BY <1>g, <1>2, <1>5, PopCarries
  <2>h. w.how \in {"exit", "return", "break", "continue", "interrupt"} /\ Stands(w) /\ Brings(w)
    BY <2>1 DEF Unwinds, UnderWay
  <2>2. Stands(w)'
    <3>1. sh'.flow = sh.flow /\ sh'.exit = sh.exit
          /\ (w.how \in {"break", "continue"} => sh'.level = sh.level) /\ Top.kind \notin Loops
      BY <1>f, <1>g DEF Tells, Fields, Loops, run_negation
    <3> QED BY <1>f, <1>g, <1>2, <2>1, <3>1, StandsPops
  <2>3. Brings(w)'
    BY <1>g, <2>1 DEF Brings, Barred
  <2>4. UnderWay(w)'
    BY <1>g, <2>1, <2>2, <2>3 DEF UnderWay, Running
  <2> QED BY <2>1, <2>4
<1> QED BY <1>1, <1>2, <1>3, <1>4, <1>5 DEF IInv

LEMMA LeaveListKeeps ==
  ASSUME IInv, LeaveList
  PROVE  IInv'
<1>f. Types /\ StackKnown /\ Tells
  BY IInvTells DEF IInv
<1>g. /\ stack' = Popped /\ Top.kind \in {"brace", "eval"} /\ Top.kind # "input"
      /\ sh'.trap_ran = IF Top.kind = "subshell" THEN Top.outer[1].trap_ran ELSE sh.trap_ran
      /\ at'.pc = "back" /\ at.pc \in {"back", "left"} /\ Follows(Depth - 1, "back")
  <2>1. stack' = Popped /\ at'.pc = "back" /\ at.pc \in {"back", "left"}
          /\ Follows(Depth - 1, "back")
        /\ Top.kind \in {"brace", "eval"}
    BY <1>f DEF Returns, Step, Point, Tells, Left, Back, LeaveList
  <2>2. sh'.trap_ran = sh.trap_ran
    BY <1>f DEF Tells, Fields, Returns, consume_loop_flow, LeaveList
  <2> QED BY <2>1, <2>2 DEF Loops, Conditions
<1>1. Types'
  <2>1. sh' \in Fields
    BY <1>f DEF Tells, Fields, Flows, Returns, consume_loop_flow, LeaveList
  <2>2. at' \in [pc : Pcs, ret : Nat]
    BY <1>f DEF Tells, Fields, Pcs, Step, Point, Returns, LeaveList
  <2>3. prov' \in Provs
    BY <1>f DEF Tells, Provs, Acted, Tested, LeaveList
  <2>4. mode' = mode /\ watch' \in Seq(Unwinds)
    BY <1>f, <1>g, EmptySeq DEF Types, Step, Returns, Follows, LeaveList
  <2>5. stack' \in Seq(Frames)
    BY <1>f, <1>g, PopTells DEF StackKnown
  <2> QED BY <1>f, <2>1, <2>2, <2>3, <2>4, <2>5 DEF Types
<1>2. StackKnown' /\ Depth' = Depth - 1 /\ Depth > 1 /\ Top' = stack[Depth - 1]
  BY <1>f, <1>g, PopKnows
<1>3. PointKnown'
  BY <1>g, <1>2 DEF PointKnown
<1>4. TestsKnown'
  BY <1>f DEF TestsKnown, IInv, Running, Point, Step, Acted, Tested, Tells, Fields, Returns,
     Left, Back, LeaveList
<1>5. ASSUME watch' # <<>> PROVE UnderWay(watch[1])'
  <2>1. PICK w \in Unwinds :
           /\ watch' = watch /\ w = watch[1]
           /\ UnderWay(w) /\ OnItsWay(w)' /\ w.goal \in 1..(Depth - 1)
           /\ Top.kind \notin Barred(w) /\ Unwinding
    BY <1>g, <1>2, <1>5, PopCarries
  <2>h. w.how \in {"exit", "return", "break", "continue", "interrupt"} /\ Stands(w) /\ Brings(w)
    BY <2>1 DEF Unwinds, UnderWay
  <2>2. Stands(w)'
    <3>1. sh'.flow = sh.flow /\ sh'.exit = sh.exit
          /\ (w.how \in {"break", "continue"} => sh'.level = sh.level) /\ Top.kind \notin Loops
      BY <1>f, <1>g DEF Tells, Fields, Loops, LeaveList
    <3> QED BY <1>f, <1>g, <1>2, <2>1, <3>1, StandsPops
  <2>3. Brings(w)'
    BY <1>f, <1>g, <2>h DEF Brings, Barred, Tells, Step, Point, Returns, Back, Left, LeaveList
  <2>4. UnderWay(w)'
    BY <1>g, <2>1, <2>2, <2>3 DEF UnderWay, Running
  <2> QED BY <2>1, <2>4
<1> QED BY <1>1, <1>2, <1>3, <1>4, <1>5 DEF IInv

LEMMA LeaveItemKeeps ==
  ASSUME IInv, LeaveItem
  PROVE  IInv'
<1>f. Types /\ StackKnown /\ Tells
  BY IInvTells DEF IInv
<1>g. /\ stack' = Popped /\ Top.kind \in {"case"} /\ Top.kind # "input"
      /\ sh'.trap_ran = IF Top.kind = "subshell" THEN Top.outer[1].trap_ran ELSE sh.trap_ran
      /\ at'.pc = "back" /\ at.pc \in {"back", "left"} /\ Follows(Depth - 1, "back")
  <2>1. stack' = Popped /\ at'.pc = "back" /\ at.pc \in {"back", "left"}
          /\ Follows(Depth - 1, "back")
        /\ Top.kind \in {"case"}
    BY <1>f DEF Returns, Step, Point, Tells, Left, Back, LeaveItem
  <2>2. sh'.trap_ran = sh.trap_ran
    BY <1>f DEF Tells, Fields, Returns, consume_loop_flow, LeaveItem
  <2> QED BY <2>1, <2>2 DEF Loops, Conditions
<1>1. Types'
  <2>1. sh' \in Fields
    BY <1>f DEF Tells, Fields, Flows, Returns, consume_loop_flow, LeaveItem
  <2>2. at' \in [pc : Pcs, ret : Nat]
    BY <1>f DEF Tells, Fields, Pcs, Step, Point, Returns, LeaveItem
  <2>3. prov' \in Provs
    BY <1>f DEF Tells, Provs, Acted, Tested, LeaveItem
  <2>4. mode' = mode /\ watch' \in Seq(Unwinds)
    BY <1>f, <1>g, EmptySeq DEF Types, Step, Returns, Follows, LeaveItem
  <2>5. stack' \in Seq(Frames)
    BY <1>f, <1>g, PopTells DEF StackKnown
  <2> QED BY <1>f, <2>1, <2>2, <2>3, <2>4, <2>5 DEF Types
<1>2. StackKnown' /\ Depth' = Depth - 1 /\ Depth > 1 /\ Top' = stack[Depth - 1]
  BY <1>f, <1>g, PopKnows
<1>3. PointKnown'
  BY <1>g, <1>2 DEF PointKnown
<1>4. TestsKnown'
  BY <1>f DEF TestsKnown, IInv, Running, Point, Step, Acted, Tested, Tells, Fields, Returns,
     Left, Back, LeaveItem
<1>5. ASSUME watch' # <<>> PROVE UnderWay(watch[1])'
  <2>1. PICK w \in Unwinds :
           /\ watch' = watch /\ w = watch[1]
           /\ UnderWay(w) /\ OnItsWay(w)' /\ w.goal \in 1..(Depth - 1)
           /\ Top.kind \notin Barred(w) /\ Unwinding
    BY <1>g, <1>2, <1>5, PopCarries
  <2>h. w.how \in {"exit", "return", "break", "continue", "interrupt"} /\ Stands(w) /\ Brings(w)
    BY <2>1 DEF Unwinds, UnderWay
  <2>2. Stands(w)'
    <3>1. sh'.flow = sh.flow /\ sh'.exit = sh.exit
          /\ (w.how \in {"break", "continue"} => sh'.level = sh.level) /\ Top.kind \notin Loops
      BY <1>f, <1>g DEF Tells, Fields, Loops, LeaveItem
    <3> QED BY <1>f, <1>g, <1>2, <2>1, <3>1, StandsPops
  <2>3. Brings(w)'
    BY <1>f, <1>g, <2>h DEF Brings, Barred, Tells, Step, Point, Returns, Back, Left, LeaveItem
  <2>4. UnderWay(w)'
    BY <1>g, <2>1, <2>2, <2>3 DEF UnderWay, Running
  <2> QED BY <2>1, <2>4
<1> QED BY <1>1, <1>2, <1>3, <1>4, <1>5 DEF IInv

LEMMA LeaveFunctionKeeps ==
  ASSUME IInv, LeaveFunction
  PROVE  IInv'
<1>f. Types /\ StackKnown /\ Tells
  BY IInvTells DEF IInv
<1>g. /\ stack' = Popped /\ Top.kind \in {"function"} /\ Top.kind # "input"
      /\ sh'.trap_ran = IF Top.kind = "subshell" THEN Top.outer[1].trap_ran ELSE sh.trap_ran
      /\ at'.pc = "back" /\ at.pc \in {"back", "left"} /\ Follows(Depth - 1, "back")
  <2>1. stack' = Popped /\ at'.pc = "back" /\ at.pc \in {"back", "left"}
          /\ Follows(Depth - 1, "back")
        /\ Top.kind \in {"function"}
    BY <1>f DEF Returns, Step, Point, Tells, Left, Back, LeaveFunction
  <2>2. sh'.trap_ran = sh.trap_ran
    BY <1>f DEF Tells, Fields, Returns, consume_loop_flow, LeaveFunction
  <2> QED BY <2>1, <2>2 DEF Loops, Conditions
<1>1. Types'
  <2>1. sh' \in Fields
    BY <1>f DEF Tells, Fields, Flows, Returns, consume_loop_flow, LeaveFunction
  <2>2. at' \in [pc : Pcs, ret : Nat]
    BY <1>f DEF Tells, Fields, Pcs, Step, Point, Returns, LeaveFunction
  <2>3. prov' \in Provs
    BY <1>f DEF Tells, Provs, Acted, Tested, LeaveFunction
  <2>4. mode' = mode /\ watch' \in Seq(Unwinds)
    BY <1>f, <1>g, EmptySeq DEF Types, Step, Returns, Follows, LeaveFunction
  <2>5. stack' \in Seq(Frames)
    BY <1>f, <1>g, PopTells DEF StackKnown
  <2> QED BY <1>f, <2>1, <2>2, <2>3, <2>4, <2>5 DEF Types
<1>2. StackKnown' /\ Depth' = Depth - 1 /\ Depth > 1 /\ Top' = stack[Depth - 1]
  BY <1>f, <1>g, PopKnows
<1>3. PointKnown'
  BY <1>g, <1>2 DEF PointKnown
<1>4. TestsKnown'
  BY <1>f DEF TestsKnown, IInv, Running, Point, Step, Acted, Tested, Tells, Fields, Returns,
     Left, Back, LeaveFunction
<1>5. ASSUME watch' # <<>> PROVE UnderWay(watch[1])'
  <2>1. PICK w \in Unwinds :
           /\ watch' = watch /\ w = watch[1]
           /\ UnderWay(w) /\ OnItsWay(w)' /\ w.goal \in 1..(Depth - 1)
           /\ Top.kind \notin Barred(w) /\ Unwinding
    BY <1>g, <1>2, <1>5, PopCarries
  <2>h. w.how \in {"exit", "return", "break", "continue", "interrupt"} /\ Stands(w) /\ Brings(w)
    BY <2>1 DEF Unwinds, UnderWay
  <2>2. Stands(w)'
    <3>1. sh'.flow = sh.flow /\ sh'.exit = sh.exit
          /\ (w.how \in {"break", "continue"} => sh'.level = sh.level) /\ Top.kind \notin Loops
      BY <1>f, <1>g, <1>2, <2>1, <2>h DEF Tells, Fields, Loops, Stands, Barred, LeaveFunction
    <3> QED BY <1>f, <1>g, <1>2, <2>1, <3>1, StandsPops
  <2>3. Brings(w)'
    BY <1>f, <1>g, <2>h DEF Brings, Barred, Tells, Step, Point, Returns, Back, Left,
       LeaveFunction
  <2>4. UnderWay(w)'
    BY <1>g, <2>1, <2>2, <2>3 DEF UnderWay, Running
  <2> QED BY <2>1, <2>4
<1> QED BY <1>1, <1>2, <1>3, <1>4, <1>5 DEF IInv

LEMMA LeaveDotKeeps ==
  ASSUME IInv, LeaveDot
  PROVE  IInv'
<1>f. Types /\ StackKnown /\ Tells
  BY IInvTells DEF IInv
<1>g. /\ stack' = Popped /\ Top.kind \in {"dot"} /\ Top.kind # "input"
      /\ sh'.trap_ran = IF Top.kind = "subshell" THEN Top.outer[1].trap_ran ELSE sh.trap_ran
      /\ at'.pc = "back" /\ at.pc \in {"back", "left"} /\ Follows(Depth - 1, "back")
  <2>1. stack' = Popped /\ at'.pc = "back" /\ at.pc \in {"back", "left"}
          /\ Follows(Depth - 1, "back")
        /\ Top.kind \in {"dot"}
    BY <1>f DEF Returns, Step, Point, Tells, Left, Back, LeaveDot
  <2>2. sh'.trap_ran = sh.trap_ran
    BY <1>f DEF Tells, Fields, Returns, consume_loop_flow, LeaveDot
  <2> QED BY <2>1, <2>2 DEF Loops, Conditions
<1>1. Types'
  <2>1. sh' \in Fields
    BY <1>f DEF Tells, Fields, Flows, Returns, consume_loop_flow, LeaveDot
  <2>2. at' \in [pc : Pcs, ret : Nat]
    BY <1>f DEF Tells, Fields, Pcs, Step, Point, Returns, LeaveDot
  <2>3. prov' \in Provs
    BY <1>f DEF Tells, Provs, Acted, Tested, LeaveDot
  <2>4. mode' = mode /\ watch' \in Seq(Unwinds)
    BY <1>f, <1>g, EmptySeq DEF Types, Step, Returns, Follows, LeaveDot
  <2>5. stack' \in Seq(Frames)
    BY <1>f, <1>g, PopTells DEF StackKnown
  <2> QED BY <1>f, <2>1, <2>2, <2>3, <2>4, <2>5 DEF Types
<1>2. StackKnown' /\ Depth' = Depth - 1 /\ Depth > 1 /\ Top' = stack[Depth - 1]
  BY <1>f, <1>g, PopKnows
<1>3. PointKnown'
  BY <1>g, <1>2 DEF PointKnown
<1>4. TestsKnown'
  BY <1>f DEF TestsKnown, IInv, Running, Point, Step, Acted, Tested, Tells, Fields, Returns,
     Left, Back, LeaveDot
<1>5. ASSUME watch' # <<>> PROVE UnderWay(watch[1])'
  <2>1. PICK w \in Unwinds :
           /\ watch' = watch /\ w = watch[1]
           /\ UnderWay(w) /\ OnItsWay(w)' /\ w.goal \in 1..(Depth - 1)
           /\ Top.kind \notin Barred(w) /\ Unwinding
    BY <1>g, <1>2, <1>5, PopCarries
  <2>h. w.how \in {"exit", "return", "break", "continue", "interrupt"} /\ Stands(w) /\ Brings(w)
    BY <2>1 DEF Unwinds, UnderWay
  <2>2. Stands(w)'
    <3>1. sh'.flow = sh.flow /\ sh'.exit = sh.exit
          /\ (w.how \in {"break", "continue"} => sh'.level = sh.level) /\ Top.kind \notin Loops
      BY <1>f, <1>g, <1>2, <2>1, <2>h DEF Tells, Fields, Loops, Stands, Barred, LeaveDot
    <3> QED BY <1>f, <1>g, <1>2, <2>1, <3>1, StandsPops
  <2>3. Brings(w)'
    BY <1>f, <1>g, <2>h DEF Brings, Barred, Tells, Step, Point, Returns, Back, Left, LeaveDot
  <2>4. UnderWay(w)'
    BY <1>g, <2>1, <2>2, <2>3 DEF UnderWay, Running
  <2> QED BY <2>1, <2>4
<1> QED BY <1>1, <1>2, <1>3, <1>4, <1>5 DEF IInv

LEMMA run_and_orPassesKeeps ==
  ASSUME IInv, run_and_or, Unwinding \/ ShortCircuits
  PROVE  IInv'
<1>f. Types /\ StackKnown /\ Tells
  BY IInvTells DEF IInv
<1>a. /\ \/ Unwinding /\ prov' = prov /\ sh' = [sh EXCEPT !.last = at.ret]
         \/ ~Unwinding /\ prov' = Tested /\ sh' = [sh EXCEPT !.last = at.ret, !.tested = TRUE]
      /\ at.pc = "back" /\ at'.pc = "back"
  <2>1. /\ at.pc = "back" /\ Returns(at.ret)
        /\ sh' = [sh EXCEPT !.last = at.ret, !.tested = ~Unwinding \/ @]
        /\ prov' = IF Unwinding THEN prov ELSE Tested
    BY DEF run_and_or, Back
  <2>2. at'.pc = "back" /\ sh \in Fields
    BY <1>f, <2>1 DEF Returns, Step, Point, Tells
  <2>3. CASE Unwinding
    BY <2>1, <2>2, <2>3 DEF Fields
  <2>4. CASE ~Unwinding
    BY <2>1, <2>2, <2>4 DEF Fields
  <2> QED BY <2>1, <2>2, <2>3, <2>4
<1>g. /\ stack' = Popped /\ Top.kind \in {"and", "or"} /\ Top.kind # "input"
      /\ sh'.trap_ran = IF Top.kind = "subshell" THEN Top.outer[1].trap_ran ELSE sh.trap_ran
      /\ at'.pc = "back" /\ at.pc \in {"back", "left"} /\ Follows(Depth - 1, "back")
  <2>1. stack' = Popped /\ at'.pc = "back" /\ at.pc \in {"back", "left"}
          /\ Follows(Depth - 1, "back")
        /\ Top.kind \in {"and", "or"}
    BY <1>f DEF Returns, Step, Point, Tells, Left, Back, run_and_or, ShortCircuits
  <2>2. sh'.trap_ran = sh.trap_ran
    BY <1>f DEF Tells, Fields, Returns, consume_loop_flow, run_and_or, ShortCircuits
  <2> QED BY <2>1, <2>2 DEF Loops, Conditions
<1>1. Types'
  <2>1. sh' \in Fields
    BY <1>f DEF Tells, Fields, Flows, Returns, consume_loop_flow, run_and_or, ShortCircuits
  <2>2. at' \in [pc : Pcs, ret : Nat]
    BY <1>f DEF Tells, Fields, Pcs, Step, Point, Returns, run_and_or, ShortCircuits
  <2>3. prov' \in Provs
    <3>1. Tested \in Provs
      BY DEF Tested, Provs
    <3>2. prov' = prov \/ prov' = Tested
      BY <1>a
    <3> QED BY <1>f, <3>1, <3>2 DEF Tells
  <2>4. mode' = mode /\ watch' \in Seq(Unwinds)
    BY <1>f, <1>g, EmptySeq DEF Types, Step, Returns, Follows, run_and_or, ShortCircuits
  <2>5. stack' \in Seq(Frames)
    BY <1>f, <1>g, PopTells DEF StackKnown
  <2> QED BY <1>f, <2>1, <2>2, <2>3, <2>4, <2>5 DEF Types
<1>2. StackKnown' /\ Depth' = Depth - 1 /\ Depth > 1 /\ Top' = stack[Depth - 1]
  BY <1>f, <1>g, PopKnows
<1>3. PointKnown'
  BY <1>g, <1>2 DEF PointKnown
<1>4. TestsKnown'
  <2>1. CASE Unwinding
    <3>1. prov' = prov /\ sh'.tested = sh.tested
      BY <1>f, <1>a, <2>1 DEF Tells, Fields
    <3> QED BY <1>a, <3>1 DEF TestsKnown, IInv, Running
  <2>2. CASE ~Unwinding
    <3>1. prov' = Tested /\ sh'.tested
      BY <1>f, <1>a, <2>2 DEF Tells, Fields
    <3> QED BY <3>1 DEF TestsKnown, Tested
  <2> QED BY <2>1, <2>2
<1>5. ASSUME watch' # <<>> PROVE UnderWay(watch[1])'
  <2>1. PICK w \in Unwinds :
           /\ watch' = watch /\ w = watch[1]
           /\ UnderWay(w) /\ OnItsWay(w)' /\ w.goal \in 1..(Depth - 1)
           /\ Top.kind \notin Barred(w) /\ Unwinding
    BY <1>g, <1>2, <1>5, PopCarries
  <2>h. w.how \in {"exit", "return", "break", "continue", "interrupt"} /\ Stands(w) /\ Brings(w)
    BY <2>1 DEF Unwinds, UnderWay
  <2>2. Stands(w)'
    <3>1. sh'.flow = sh.flow /\ sh'.exit = sh.exit
          /\ (w.how \in {"break", "continue"} => sh'.level = sh.level) /\ Top.kind \notin Loops
      BY <1>f, <1>g DEF Tells, Fields, Loops, run_and_or
    <3> QED BY <1>f, <1>g, <1>2, <2>1, <3>1, StandsPops
  <2>3. Brings(w)'
    BY <1>f, <1>g, <2>h DEF Brings, Barred, Tells, Step, Point, Returns, Back, Left,
       run_and_or, ShortCircuits
  <2>4. UnderWay(w)'
    BY <1>g, <2>1, <2>2, <2>3 DEF UnderWay, Running
  <2> QED BY <2>1, <2>4
<1> QED BY <1>1, <1>2, <1>3, <1>4, <1>5 DEF IInv

LEMMA run_and_orGoesOnKeeps ==
  ASSUME IInv, run_and_or, ~Unwinding, ~ShortCircuits
  PROVE  IInv'
<1>f. Types /\ StackKnown /\ Tells
  BY IInvTells DEF IInv
<1>g. /\ stack' = Popped /\ Top.kind \in {"and", "or"} /\ Top.kind # "input"
      /\ sh'.trap_ran = IF Top.kind = "subshell" THEN Top.outer[1].trap_ran ELSE sh.trap_ran
      /\ at'.pc = "operand" /\ at.pc \in {"back", "left"} /\ Follows(Depth - 1, "operand")
  <2>1. stack' = Popped /\ at'.pc = "operand" /\ at.pc \in {"back", "left"}
          /\ Follows(Depth - 1, "operand")
        /\ Top.kind \in {"and", "or"}
    BY <1>f DEF Returns, Step, Point, Tells, Left, Back, run_and_or, ShortCircuits
  <2>2. sh'.trap_ran = sh.trap_ran
    BY <1>f DEF Tells, Fields, Returns, consume_loop_flow, run_and_or, ShortCircuits
  <2> QED BY <2>1, <2>2 DEF Loops, Conditions
<1>1. Types'
  <2>1. sh' \in Fields
    BY <1>f DEF Tells, Fields, Flows, Returns, consume_loop_flow, run_and_or, ShortCircuits
  <2>2. at' \in [pc : Pcs, ret : Nat]
    BY <1>f DEF Tells, Fields, Pcs, Step, Point, Returns, run_and_or, ShortCircuits
  <2>3. prov' \in Provs
    BY <1>f DEF Tells, Provs, Acted, Tested, run_and_or, ShortCircuits
  <2>4. mode' = mode /\ watch' \in Seq(Unwinds)
    BY <1>f, <1>g, EmptySeq DEF Types, Step, Returns, Follows, run_and_or, ShortCircuits
  <2>5. stack' \in Seq(Frames)
    BY <1>f, <1>g, PopTells DEF StackKnown
  <2> QED BY <1>f, <2>1, <2>2, <2>3, <2>4, <2>5 DEF Types
<1>2. StackKnown' /\ Depth' = Depth - 1 /\ Depth > 1 /\ Top' = stack[Depth - 1]
  BY <1>f, <1>g, PopKnows
<1>3. PointKnown'
  BY <1>g DEF PointKnown
<1>4. TestsKnown'
  BY <1>g DEF TestsKnown, Running
<1>5. ASSUME watch' # <<>> PROVE UnderWay(watch[1])'
  <2>1. PICK w \in Unwinds :
           /\ watch' = watch /\ w = watch[1]
           /\ UnderWay(w) /\ OnItsWay(w)' /\ w.goal \in 1..(Depth - 1)
           /\ Top.kind \notin Barred(w) /\ Unwinding
    BY <1>g, <1>2, <1>5, PopCarries
  <2>h. w.how \in {"exit", "return", "break", "continue", "interrupt"} /\ Stands(w) /\ Brings(w)
    BY <2>1 DEF Unwinds, UnderWay
  <2>2. FALSE
    BY <2>1
  <2>3. FALSE
    BY <2>2
  <2>4. UnderWay(w)'
    BY <1>g, <2>1, <2>2, <2>3 DEF UnderWay, Running
  <2> QED BY <2>1, <2>4
<1> QED BY <1>1, <1>2, <1>3, <1>4, <1>5 DEF IInv

LEMMA run_ifReturnsKeeps ==
  ASSUME IInv, Left({"if"}), NEW ret \in Nat, Returns(ret), ret = at.ret \/ ~Unwinding,
         UNCHANGED <<sh, prov>>
  PROVE  IInv'
<1>f. Types /\ StackKnown /\ Tells
  BY IInvTells DEF IInv
<1>g. /\ stack' = Popped /\ Top.kind \in {"if"} /\ Top.kind # "input"
      /\ sh'.trap_ran = IF Top.kind = "subshell" THEN Top.outer[1].trap_ran ELSE sh.trap_ran
      /\ at'.pc = "back" /\ at.pc \in {"back", "left"} /\ Follows(Depth - 1, "back")
  <2>1. stack' = Popped /\ at'.pc = "back" /\ at.pc \in {"back", "left"}
          /\ Follows(Depth - 1, "back")
        /\ Top.kind \in {"if"}
    BY <1>f DEF Returns, Step, Point, Tells, Left, Back, ShortCircuits
  <2>2. sh'.trap_ran = sh.trap_ran
    BY <1>f DEF Tells, Fields, Returns, consume_loop_flow, ShortCircuits
  <2> QED BY <2>1, <2>2 DEF Loops, Conditions
<1>1. Types'
  <2>1. sh' \in Fields
    BY <1>f DEF Tells, Fields, Flows, Returns, consume_loop_flow, ShortCircuits
  <2>2. at' \in [pc : Pcs, ret : Nat]
    BY <1>f DEF Tells, Fields, Pcs, Step, Point, Returns, ShortCircuits
  <2>3. prov' \in Provs
    BY <1>f DEF Tells, Provs, Acted, Tested, ShortCircuits
  <2>4. mode' = mode /\ watch' \in Seq(Unwinds)
    BY <1>f, <1>g, EmptySeq DEF Types, Step, Returns, Follows, ShortCircuits
  <2>5. stack' \in Seq(Frames)
    BY <1>f, <1>g, PopTells DEF StackKnown
  <2> QED BY <1>f, <2>1, <2>2, <2>3, <2>4, <2>5 DEF Types
<1>2. StackKnown' /\ Depth' = Depth - 1 /\ Depth > 1 /\ Top' = stack[Depth - 1]
  BY <1>f, <1>g, PopKnows
<1>3. PointKnown'
  BY <1>g, <1>2 DEF PointKnown
<1>4. TestsKnown'
  BY <1>f DEF TestsKnown, IInv, Running, Point, Step, Acted, Tested, Tells, Fields, Returns,
     Left, Back, ShortCircuits
<1>5. ASSUME watch' # <<>> PROVE UnderWay(watch[1])'
  <2>1. PICK w \in Unwinds :
           /\ watch' = watch /\ w = watch[1]
           /\ UnderWay(w) /\ OnItsWay(w)' /\ w.goal \in 1..(Depth - 1)
           /\ Top.kind \notin Barred(w) /\ Unwinding
    BY <1>g, <1>2, <1>5, PopCarries
  <2>h. w.how \in {"exit", "return", "break", "continue", "interrupt"} /\ Stands(w) /\ Brings(w)
    BY <2>1 DEF Unwinds, UnderWay
  <2>2. Stands(w)'
    <3>1. sh'.flow = sh.flow /\ sh'.exit = sh.exit
          /\ (w.how \in {"break", "continue"} => sh'.level = sh.level) /\ Top.kind \notin Loops
      BY <1>f, <1>g DEF Tells, Fields, Loops, ShortCircuits
    <3> QED BY <1>f, <1>g, <1>2, <2>1, <3>1, StandsPops
  <2>3. Brings(w)'
    <3>1. ret = at.ret
      BY <2>1
    <3> QED BY <1>f, <1>g, <2>h, <3>1 DEF Brings, Barred, Tells, Step, Point, Returns, Left
  <2>4. UnderWay(w)'
    BY <1>g, <2>1, <2>2, <2>3 DEF UnderWay, Running
  <2> QED BY <2>1, <2>4
<1> QED BY <1>1, <1>2, <1>3, <1>4, <1>5 DEF IInv

LEMMA run_ifContinuesKeeps ==
  ASSUME IInv, Left({"if"}), ~Unwinding, NEW kind \in {"brace", "if"}, Continues(Frame(kind)),
         UNCHANGED <<sh, prov>>
  PROVE  IInv'
<1>f. Types /\ StackKnown /\ Tells
  BY IInvTells DEF IInv
<1>m. Frame(kind) \in Frames
        /\ Frame(kind).kind \in Kinds \ {"input", "subshell", "trap", "exit_trap"}
      /\ Top.kind \in {"if"}
  BY PlainFrame DEF Left, Kinds, Lists
<1>g. /\ stack' = Becomes(Frame(kind)) /\ at'.pc = "node" /\ at' \in [pc : Pcs, ret : Nat]
      /\ mode' = mode /\ Follows(Depth, "node") /\ at.pc = "left" /\ prov' = prov
  BY <1>f DEF Continues, Step, Point, Left, Pcs, ShortCircuits
<1>s. sh' \in Fields /\ sh'.trap_ran = sh.trap_ran
  BY <1>f DEF Tells, Fields
<1>5. watch' = <<>>
  <2>1. ASSUME watch' # <<>> PROVE FALSE
    <3>1. PICK w \in Unwinds :
             /\ UnderWay(w) /\ w.goal \in 1..(Depth - 1)
             /\ Top.kind \notin Barred(w) /\ Unwinding
      BY <1>g, <2>1, ContinuesBelow
    <3> QED BY <3>1
  <2> QED BY <2>1
<1>1. Types'
  <2>1. stack' \in Seq(Frames)
    BY <1>f, <1>m, <1>g, BecomesTells DEF StackKnown
  <2> QED BY <1>f, <1>g, <1>s, <1>5, <2>1, EmptySeq DEF Types
<1>2. StackKnown'
  <2>1. {Frame(kind).kind, Top.kind} \cap {"input", "subshell", "trap", "exit_trap"} = {}
    BY <1>m DEF Loops, Conditions
  <2> QED BY <1>f, <1>m, <1>g, <1>s, <2>1, BecomesKnows
<1>3. PointKnown'
  BY <1>g DEF PointKnown
<1>4. TestsKnown'
  BY <1>g DEF TestsKnown, Running
<1> QED BY <1>1, <1>2, <1>3, <1>4, <1>5 DEF IInv

LEMMA run_ifKeeps ==
  ASSUME IInv, run_if
  PROVE  IInv'
<1>1. at.ret \in Nat /\ 0 \in Nat
  BY IInvTells DEF Tells
<1> QED BY <1>1, run_ifReturnsKeeps, run_ifContinuesKeeps DEF run_if

LEMMA LoopConditionReturnsKeeps ==
  ASSUME IInv, Left(Conditions), Returns(Top.keep), Takes,
         prov' = [Top.prov EXCEPT !.blurred = TRUE]
  PROVE  IInv'
<1>f. Types /\ StackKnown /\ Tells
  BY IInvTells DEF IInv
<1>k. sh' \in Fields /\ sh'.trap_ran = sh.trap_ran /\ sh'.tested = sh.tested
      /\ Top.kind \in Loops \ {"subshell", "input"} /\ at.pc = "left"
  BY <1>f, TakesTypes DEF Tells, Left, Conditions, Loops
<1>g. /\ stack' = Popped /\ Top.kind \in Conditions /\ Top.kind # "input"
      /\ sh'.trap_ran = IF Top.kind = "subshell" THEN Top.outer[1].trap_ran ELSE sh.trap_ran
      /\ at'.pc = "back" /\ at.pc \in {"back", "left"} /\ Follows(Depth - 1, "back")
  <2>1. stack' = Popped /\ at'.pc = "back" /\ at.pc \in {"back", "left"}
          /\ Follows(Depth - 1, "back")
        /\ Top.kind \in Conditions
    BY <1>f, <1>k DEF Returns, Step, Point, Tells, Left, Back, ShortCircuits
  <2>2. sh'.trap_ran = sh.trap_ran
    BY <1>k
  <2> QED BY <2>1, <2>2 DEF Loops, Conditions
<1>1. Types'
  <2>1. sh' \in Fields
    BY <1>k
  <2>2. at' \in [pc : Pcs, ret : Nat]
    BY <1>f, <1>k DEF Tells, Fields, Pcs, Step, Point, Returns, ShortCircuits
  <2>3. prov' \in Provs
    BY <1>f DEF Tells, Provs
  <2>4. mode' = mode /\ watch' \in Seq(Unwinds)
    BY <1>f, <1>g, EmptySeq DEF Types, Step, Returns, Follows, ShortCircuits
  <2>5. stack' \in Seq(Frames)
    BY <1>f, <1>g, PopTells DEF StackKnown
  <2> QED BY <1>f, <2>1, <2>2, <2>3, <2>4, <2>5 DEF Types
<1>2. StackKnown' /\ Depth' = Depth - 1 /\ Depth > 1 /\ Top' = stack[Depth - 1]
  BY <1>f, <1>g, PopKnows
<1>3. PointKnown'
  BY <1>g, <1>2 DEF PointKnown
<1>4. TestsKnown'
  <2>1. prov'.blurred
    BY <1>f DEF Tells, Provs
  <2> QED BY <2>1 DEF TestsKnown
<1>5. ASSUME watch' # <<>> PROVE UnderWay(watch[1])'
  <2>1. PICK w \in Unwinds :
           /\ watch' = watch /\ w = watch[1]
           /\ UnderWay(w) /\ OnItsWay(w)' /\ w.goal \in 1..(Depth - 1)
           /\ Top.kind \notin Barred(w) /\ Unwinding
    BY <1>g, <1>2, <1>5, PopCarries
  <2>h. w.how \in {"exit", "return", "break", "continue", "interrupt"} /\ Stands(w) /\ Brings(w)
    BY <2>1 DEF Unwinds, UnderWay
  <2>2. Stands(w)'
    <3>1. /\ sh'.flow = sh.flow /\ sh'.exit = sh.exit
          /\ w.how \in {"break", "continue"} => sh'.level = sh.level - 1
      BY <1>f, <1>g, <1>k, <2>1, <2>h, LoopTakes DEF Left, Conditions, Loops
    <3> QED BY <1>f, <1>g, <1>k, <1>2, <2>1, <3>1, StandsPops DEF Left
  <2>3. Brings(w)'
    BY <1>g, <2>1 DEF Brings, Barred
  <2>4. UnderWay(w)'
    BY <1>g, <2>1, <2>2, <2>3 DEF UnderWay, Running
  <2> QED BY <2>1, <2>4
<1> QED BY <1>1, <1>2, <1>3, <1>4, <1>5 DEF IInv

LEMMA LoopBodyReturnsKeeps ==
  ASSUME IInv, Left({"while_do", "until_do", "for"}), Returns(at.ret), Takes,
         prov' = prov
  PROVE  IInv'
<1>f. Types /\ StackKnown /\ Tells
  BY IInvTells DEF IInv
<1>k. sh' \in Fields /\ sh'.trap_ran = sh.trap_ran /\ sh'.tested = sh.tested
      /\ Top.kind \in Loops \ {"subshell", "input"} /\ at.pc = "left"
  BY <1>f, TakesTypes DEF Tells, Left, Conditions, Loops
<1>g. /\ stack' = Popped /\ Top.kind \in {"while_do", "until_do", "for"} /\ Top.kind # "input"
      /\ sh'.trap_ran = IF Top.kind = "subshell" THEN Top.outer[1].trap_ran ELSE sh.trap_ran
      /\ at'.pc = "back" /\ at.pc \in {"back", "left"} /\ Follows(Depth - 1, "back")
  <2>1. stack' = Popped /\ at'.pc = "back" /\ at.pc \in {"back", "left"}
          /\ Follows(Depth - 1, "back")
        /\ Top.kind \in {"while_do", "until_do", "for"}
    BY <1>f, <1>k DEF Returns, Step, Point, Tells, Left, Back, ShortCircuits
  <2>2. sh'.trap_ran = sh.trap_ran
    BY <1>k
  <2> QED BY <2>1, <2>2 DEF Loops, Conditions
<1>1. Types'
  <2>1. sh' \in Fields
    BY <1>k
  <2>2. at' \in [pc : Pcs, ret : Nat]
    BY <1>f, <1>k DEF Tells, Fields, Pcs, Step, Point, Returns, ShortCircuits
  <2>3. prov' \in Provs
    BY <1>f DEF Tells
  <2>4. mode' = mode /\ watch' \in Seq(Unwinds)
    BY <1>f, <1>g, EmptySeq DEF Types, Step, Returns, Follows, ShortCircuits
  <2>5. stack' \in Seq(Frames)
    BY <1>f, <1>g, PopTells DEF StackKnown
  <2> QED BY <1>f, <2>1, <2>2, <2>3, <2>4, <2>5 DEF Types
<1>2. StackKnown' /\ Depth' = Depth - 1 /\ Depth > 1 /\ Top' = stack[Depth - 1]
  BY <1>f, <1>g, PopKnows
<1>3. PointKnown'
  BY <1>g, <1>2 DEF PointKnown
<1>4. TestsKnown'
  BY <1>k DEF TestsKnown, IInv, Running
<1>5. ASSUME watch' # <<>> PROVE UnderWay(watch[1])'
  <2>1. PICK w \in Unwinds :
           /\ watch' = watch /\ w = watch[1]
           /\ UnderWay(w) /\ OnItsWay(w)' /\ w.goal \in 1..(Depth - 1)
           /\ Top.kind \notin Barred(w) /\ Unwinding
    BY <1>g, <1>2, <1>5, PopCarries
  <2>h. w.how \in {"exit", "return", "break", "continue", "interrupt"} /\ Stands(w) /\ Brings(w)
    BY <2>1 DEF Unwinds, UnderWay
  <2>2. Stands(w)'
    <3>1. /\ sh'.flow = sh.flow /\ sh'.exit = sh.exit
          /\ w.how \in {"break", "continue"} => sh'.level = sh.level - 1
      BY <1>f, <1>g, <1>k, <2>1, <2>h, LoopTakes DEF Left, Conditions, Loops
    <3> QED BY <1>f, <1>g, <1>k, <1>2, <2>1, <3>1, StandsPops DEF Left
  <2>3. Brings(w)'
    BY <1>f, <1>g, <2>h DEF Brings, Barred, Tells, Step, Point, Returns, Back, Left,
       ShortCircuits
  <2>4. UnderWay(w)'
    BY <1>g, <2>1, <2>2, <2>3 DEF UnderWay, Running
  <2> QED BY <2>1, <2>4
<1> QED BY <1>1, <1>2, <1>3, <1>4, <1>5 DEF IInv

LEMMA LoopConditionContinuesKeeps ==
  ASSUME IInv, Left(Conditions), ~sh.exit, ~Breaks, sh.flow # "interrupted",
         Continues([Top EXCEPT !.kind = Do(@)]), UNCHANGED <<sh, prov>>
  PROVE  IInv'
<1>f. Types /\ StackKnown /\ Tells
  BY IInvTells DEF IInv
<1>m. [Top EXCEPT !.kind = Do(@)] \in Frames
        /\ [Top EXCEPT !.kind = Do(@)].kind \in Kinds \ {"input", "subshell", "trap", "exit_trap"}
      /\ Top.kind \in Conditions
  BY <1>f DEF Left, Conditions, Tells, Frames, Kinds, Lists, Loops, Do
<1>g. /\ stack' = Becomes([Top EXCEPT !.kind = Do(@)]) /\ at'.pc = "node"
           /\ at' \in [pc : Pcs, ret : Nat]
      /\ mode' = mode /\ Follows(Depth, "node") /\ at.pc = "left" /\ prov' = prov
  BY <1>f DEF Continues, Step, Point, Left, Pcs, ShortCircuits
<1>s. sh' \in Fields /\ sh'.trap_ran = sh.trap_ran
  BY <1>f DEF Tells, Fields
<1>5. watch' = <<>>
  <2>1. ASSUME watch' # <<>> PROVE FALSE
    <3>1. PICK w \in Unwinds :
             /\ UnderWay(w) /\ w.goal \in 1..(Depth - 1)
             /\ Top.kind \notin Barred(w) /\ Unwinding
      BY <1>g, <2>1, ContinuesBelow
    <3>2. w.how = "return"
      BY <3>1 DEF Unwinds, UnderWay, Stands, Breaks, Unwinding, Left
    <3> QED BY <3>1, <3>2 DEF Barred, Left
  <2> QED BY <2>1
<1>1. Types'
  <2>1. stack' \in Seq(Frames)
    BY <1>f, <1>m, <1>g, BecomesTells DEF StackKnown
  <2> QED BY <1>f, <1>g, <1>s, <1>5, <2>1, EmptySeq DEF Types
<1>2. StackKnown'
  <2>1. {[Top EXCEPT !.kind
          = Do(@)].kind, Top.kind} \cap {"input", "subshell", "trap", "exit_trap"} = {}
    BY <1>m DEF Loops, Conditions
  <2> QED BY <1>f, <1>m, <1>g, <1>s, <2>1, BecomesKnows
<1>3. PointKnown'
  BY <1>g DEF PointKnown
<1>4. TestsKnown'
  BY <1>g DEF TestsKnown, Running
<1> QED BY <1>1, <1>2, <1>3, <1>4, <1>5 DEF IInv

LEMMA LoopBodyForContinuesKeeps ==
  ASSUME IInv, Left({"for"}), ~LoopStops, Continues(Top), Takes, prov' = prov
  PROVE  IInv'
<1>f. Types /\ StackKnown /\ Tells
  BY IInvTells DEF IInv
<1>m. Top \in Frames /\ Top.kind \in Kinds \ {"input", "subshell", "trap", "exit_trap"}
      /\ Top.kind \in {"for"}
  BY <1>f DEF Left, Tells, Kinds, Lists, Loops
<1>g. /\ stack' = Becomes(Top) /\ at'.pc = "node" /\ at' \in [pc : Pcs, ret : Nat]
      /\ mode' = mode /\ Follows(Depth, "node") /\ at.pc = "left" /\ prov' = prov
  BY <1>f DEF Continues, Step, Point, Left, Pcs, ShortCircuits
<1>s. sh' \in Fields /\ sh'.trap_ran = sh.trap_ran
  BY <1>f, TakesTypes DEF Tells
<1>5. watch' = <<>>
  <2>1. ASSUME watch' # <<>> PROVE FALSE
    <3>1. PICK w \in Unwinds :
             /\ UnderWay(w) /\ w.goal \in 1..(Depth - 1)
             /\ Top.kind \notin Barred(w) /\ Unwinding
      BY <1>g, <2>1, ContinuesBelow
    <3>2. sh.flow = "continue" /\ Lasts /\ ~sh.exit
      BY <3>1 DEF LoopStops, Unwinding
    <3>3. LevelsLeft(w.goal)
      BY <3>1, <3>2 DEF Unwinds, UnderWay, Stands, Left
    <3>4. ~Lasts
      BY <1>f, <3>1, <3>3, LevelsMore DEF Left, Loops
    <3> QED BY <3>2, <3>4
  <2> QED BY <2>1
<1>1. Types'
  <2>1. stack' \in Seq(Frames)
    BY <1>f, <1>m, <1>g, BecomesTells DEF StackKnown
  <2> QED BY <1>f, <1>g, <1>s, <1>5, <2>1, EmptySeq DEF Types
<1>2. StackKnown'
  <2>1. {Top.kind, Top.kind} \cap {"input", "subshell", "trap", "exit_trap"} = {}
    BY <1>m DEF Loops, Conditions
  <2> QED BY <1>f, <1>m, <1>g, <1>s, <2>1, BecomesKnows
<1>3. PointKnown'
  BY <1>g DEF PointKnown
<1>4. TestsKnown'
  BY <1>g DEF TestsKnown, Running
<1> QED BY <1>1, <1>2, <1>3, <1>4, <1>5 DEF IInv

LEMMA LoopBodyContinuesKeeps ==
  ASSUME IInv, Left({"while_do", "until_do"}), ~LoopStops, Takes, prov' = prov,
         Continues([Top EXCEPT !.kind = Cond(@), !.keep = at.ret, !.prov = prov])
  PROVE  IInv'
<1>f. Types /\ StackKnown /\ Tells
  BY IInvTells DEF IInv
<1>m. [Top EXCEPT !.kind = Cond(@), !.keep = at.ret, !.prov = prov] \in Frames
        /\ [Top EXCEPT !.kind = Cond(@), !.keep = at.ret, !.prov = prov].kind
             \in Kinds \ {"input", "subshell", "trap", "exit_trap"}
      /\ Top.kind \in {"while_do", "until_do"}
  BY <1>f DEF Left, Tells, Frames, Kinds, Lists, Loops, Cond
<1>g. /\ stack' = Becomes([Top EXCEPT !.kind = Cond(@), !.keep = at.ret, !.prov = prov])
           /\ at'.pc = "node" /\ at' \in [pc : Pcs, ret : Nat]
      /\ mode' = mode /\ Follows(Depth, "node") /\ at.pc = "left" /\ prov' = prov
  BY <1>f DEF Continues, Step, Point, Left, Pcs, ShortCircuits
<1>s. sh' \in Fields /\ sh'.trap_ran = sh.trap_ran
  BY <1>f, TakesTypes DEF Tells
<1>5. watch' = <<>>
  <2>1. ASSUME watch' # <<>> PROVE FALSE
    <3>1. PICK w \in Unwinds :
             /\ UnderWay(w) /\ w.goal \in 1..(Depth - 1)
             /\ Top.kind \notin Barred(w) /\ Unwinding
      BY <1>g, <2>1, ContinuesBelow
    <3>2. sh.flow = "continue" /\ Lasts /\ ~sh.exit
      BY <3>1 DEF LoopStops, Unwinding
    <3>3. LevelsLeft(w.goal)
      BY <3>1, <3>2 DEF Unwinds, UnderWay, Stands, Left
    <3>4. ~Lasts
      BY <1>f, <3>1, <3>3, LevelsMore DEF Left, Loops
    <3> QED BY <3>2, <3>4
  <2> QED BY <2>1
<1>1. Types'
  <2>1. stack' \in Seq(Frames)
    BY <1>f, <1>m, <1>g, BecomesTells DEF StackKnown
  <2> QED BY <1>f, <1>g, <1>s, <1>5, <2>1, EmptySeq DEF Types
<1>2. StackKnown'
  <2>1. {[Top EXCEPT !.kind = Cond(@), !.keep = at.ret, !.prov
          = prov].kind, Top.kind} \cap {"input", "subshell", "trap", "exit_trap"} = {}
    BY <1>m DEF Loops, Conditions
  <2> QED BY <1>f, <1>m, <1>g, <1>s, <2>1, BecomesKnows
<1>3. PointKnown'
  BY <1>g DEF PointKnown
<1>4. TestsKnown'
  BY <1>g DEF TestsKnown, Running
<1> QED BY <1>1, <1>2, <1>3, <1>4, <1>5 DEF IInv

LEMMA LoopConditionKeeps ==
  ASSUME IInv, LoopCondition
  PROVE  IInv'
<1>1. \/ /\ Left(Conditions) /\ Returns(Top.keep) /\ Takes
         /\ prov' = [Top.prov EXCEPT !.blurred = TRUE]
      \/ /\ Left(Conditions) /\ ~sh.exit /\ ~Breaks /\ sh.flow # "interrupted"
         /\ Continues([Top EXCEPT !.kind = Do(@)]) /\ UNCHANGED <<sh, prov>>
  BY DEF LoopCondition, Takes
<1> QED BY <1>1, LoopConditionReturnsKeeps, LoopConditionContinuesKeeps

LEMMA LoopBodyKeeps ==
  ASSUME IInv, LoopBody
  PROVE  IInv'
<1>1. /\ Left({"while_do", "until_do", "for"}) /\ Takes /\ prov' = prov
      /\ \/ Returns(at.ret)
         \/ Top.kind = "for" /\ ~LoopStops /\ Continues(Top)
         \/ /\ Top.kind # "for" /\ ~LoopStops
            /\ Continues([Top EXCEPT !.kind = Cond(@), !.keep = at.ret, !.prov = prov])
  BY DEF LoopBody, Takes
<1>2. CASE Returns(at.ret)
  BY <1>1, <1>2, LoopBodyReturnsKeeps
<1>3. CASE Top.kind = "for" /\ ~LoopStops /\ Continues(Top)
  <2>1. Left({"for"})
    BY <1>1, <1>3 DEF Left
  <2> QED BY <1>1, <1>3, <2>1, LoopBodyForContinuesKeeps
<1>4. CASE /\ Top.kind # "for" /\ ~LoopStops
           /\ Continues([Top EXCEPT !.kind = Cond(@), !.keep = at.ret, !.prov = prov])
  <2>1. Left({"while_do", "until_do"})
    BY <1>1, <1>4 DEF Left
  <2> QED BY <1>1, <1>4, <2>1, LoopBodyContinuesKeeps
<1> QED BY <1>1, <1>2, <1>3, <1>4

(* Between two commands of a list. *)
LEMMA CommandDoneKeeps ==
  ASSUME IInv, CommandDone
  PROVE  IInv'
<1>f. Types /\ StackKnown /\ Tells
  BY IInvTells DEF IInv
<1>g. UNCHANGED stack /\ sh'.trap_ran = sh.trap_ran
  BY <1>f DEF CommandDone, Step, Tells, Fields
<1>1. Types'
  <2>1. sh' \in Fields
    BY <1>f DEF Tells, Fields, Flows, CommandDone
  <2>2. at' \in [pc : Pcs, ret : Nat]
    BY <1>f DEF Tells, Fields, Pcs, Status, Step, Point, CommandDone
  <2>3. prov' \in Provs
    BY <1>f DEF Tells, Provs, Acted, Tested, CommandDone
  <2>4. mode' = mode /\ watch' \in Seq(Unwinds)
    BY <1>f DEF Types, Step, CommandDone
  <2> QED BY <1>f, <1>g, <2>1, <2>2, <2>3, <2>4 DEF Types
<1>2. StackKnown' /\ Depth' = Depth /\ Top' = Top
  BY <1>f, <1>g, StayKnows
<1>3. PointKnown'
  BY <1>f, <1>2 DEF PointKnown, IInv, Running, Point, Step, Back, CommandDone
<1>4. TestsKnown'
  BY <1>f DEF TestsKnown, IInv, Running, Point, Step, Tells, Fields, Back, CommandDone
<1>5. watch' # <<>> => UnderWay(watch[1])'
  <2>1. ASSUME watch' # <<>> PROVE UnderWay(watch[1])'
    <3>1. PICK w \in Unwinds :
           /\ w = watch[1] /\ w = watch'[1] /\ UnderWay(w) /\ Stands(w) /\ Brings(w)
           /\ w.goal \in 1..Depth
           /\ w.how \in {"exit", "return", "break", "continue", "interrupt"}
           /\ at.pc \notin {"finish", "unit", "left"} => Unwinding
      BY <2>1, WatchStays DEF Follows, CommandDone
    <3>2. OnItsWay(w)'
      BY <1>g, <3>1, WayStays DEF UnderWay
    <3>3. Stands(w)' /\ at'.pc \notin Running \cup {"ready", "gone"}
      BY <1>f, <1>g, <1>2, <3>1, StandsStays DEF Tells, Fields, Step, Point, Back, Running,
         CommandDone
    <3>4. Brings(w)'
      BY <1>f, <3>1 DEF Brings, Tells, Fields, Step, Point, Back, Left, CommandDone
    <3>5. UnderWay(w)'
      BY <3>2, <3>3, <3>4 DEF UnderWay
    <3> QED BY <3>1, <3>5
  <2> QED BY <2>1
<1> QED BY <1>1, <1>2, <1>3, <1>4, <1>5 DEF IInv

LEMMA TakeInterruptKeeps ==
  ASSUME IInv, TakeInterrupt
  PROVE  IInv'
<1>f. Types /\ StackKnown /\ Tells
  BY IInvTells DEF IInv
<1>g. UNCHANGED stack /\ sh'.trap_ran = sh.trap_ran
  BY <1>f DEF TakeInterrupt, Step, Tells, Fields
<1>1. Types'
  <2>1. sh' \in Fields
    BY <1>f DEF Tells, Fields, Flows, TakeInterrupt
  <2>2. at' \in [pc : Pcs, ret : Nat]
    BY <1>f DEF Tells, Fields, Pcs, Status, Step, Point, TakeInterrupt
  <2>3. prov' \in Provs
    BY <1>f DEF Tells, Provs, Acted, Tested, TakeInterrupt
  <2>4. mode' = mode /\ watch' \in Seq(Unwinds)
    BY <1>f DEF Types, Step, TakeInterrupt
  <2> QED BY <1>f, <1>g, <2>1, <2>2, <2>3, <2>4 DEF Types
<1>2. StackKnown' /\ Depth' = Depth /\ Top' = Top
  BY <1>f, <1>g, StayKnows
<1>3. PointKnown'
  <2>1. \A j \in 1..Depth : stack[j].kind # "subshell"
    BY DEF TakeInterrupt, Above
  <2> QED BY <1>f, <1>g, <1>2, <2>1 DEF PointKnown, IInv, Running, Point, Step, TakeInterrupt
<1>4. TestsKnown'
  BY <1>f DEF TestsKnown, IInv, Running, Point, Step, Acted, Tested, Tells, Fields,
     TakeInterrupt
<1>5. watch' # <<>> => UnderWay(watch[1])'
  <2>1. ASSUME watch' # <<>> PROVE UnderWay(watch[1])'
    <3>1. PICK w \in Unwinds :
           /\ w = watch[1] /\ w = watch'[1] /\ UnderWay(w) /\ Stands(w) /\ Brings(w)
           /\ w.goal \in 1..Depth
           /\ w.how \in {"exit", "return", "break", "continue", "interrupt"}
           /\ at.pc \notin {"finish", "unit", "left"} => Unwinding
      BY <2>1, WatchStays DEF Follows, TakeInterrupt
    <3>2. OnItsWay(w)'
      BY <1>g, <3>1, WayStays DEF UnderWay
    <3>3. Stands(w)' /\ at'.pc \notin Running \cup {"ready", "gone"}
      BY <1>f, <1>g, <1>2, <3>1, StandsStays DEF Tells, Fields, Step, Point, Back, Running,
         TakeInterrupt
    <3>4. Brings(w)'
      BY <1>f, <3>1 DEF Brings, Tells, Fields, Step, Point, Back, Left, TakeInterrupt
    <3>5. UnderWay(w)'
      BY <3>2, <3>3, <3>4 DEF UnderWay
    <3> QED BY <3>1, <3>5
  <2> QED BY <2>1
<1> QED BY <1>1, <1>2, <1>3, <1>4, <1>5 DEF IInv

LEMMA NoSignalLeftKeeps ==
  ASSUME IInv, at.pc = "traps", Step(stack, "tests", 0), UNCHANGED <<sh, watch, prov>>
  PROVE  IInv'
<1>f. Types /\ StackKnown /\ Tells
  BY IInvTells DEF IInv
<1>g. UNCHANGED stack /\ sh'.trap_ran = sh.trap_ran
  BY <1>f DEF ShortCircuits, Step, Tells, Fields
<1>1. Types'
  <2>1. sh' \in Fields
    BY <1>f DEF Tells, Fields, Flows, ShortCircuits
  <2>2. at' \in [pc : Pcs, ret : Nat]
    BY <1>f DEF Tells, Fields, Pcs, Status, Step, Point, ShortCircuits
  <2>3. prov' \in Provs
    BY <1>f DEF Tells, Provs, Acted, Tested, ShortCircuits
  <2>4. mode' = mode /\ watch' \in Seq(Unwinds)
    BY <1>f DEF Types, Step, ShortCircuits
  <2> QED BY <1>f, <1>g, <2>1, <2>2, <2>3, <2>4 DEF Types
<1>2. StackKnown' /\ Depth' = Depth /\ Top' = Top
  BY <1>f, <1>g, StayKnows
<1>3. PointKnown'
  BY <1>f, <1>2 DEF PointKnown, IInv, Running, Point, Step, ShortCircuits
<1>4. TestsKnown'
  BY <1>f DEF TestsKnown, IInv, Running, Point, Step, Acted, Tested, Tells, Fields,
     ShortCircuits
<1>5. watch' # <<>> => UnderWay(watch[1])'
  <2>1. ASSUME watch' # <<>> PROVE UnderWay(watch[1])'
    <3>1. PICK w \in Unwinds :
           /\ w = watch[1] /\ w = watch'[1] /\ UnderWay(w) /\ Stands(w) /\ Brings(w)
           /\ w.goal \in 1..Depth
           /\ w.how \in {"exit", "return", "break", "continue", "interrupt"}
           /\ at.pc \notin {"finish", "unit", "left"} => Unwinding
      BY <2>1, WatchStays DEF Follows, ShortCircuits
    <3>2. OnItsWay(w)'
      BY <1>g, <3>1, WayStays DEF UnderWay
    <3>3. Stands(w)' /\ at'.pc \notin Running \cup {"ready", "gone"}
      BY <1>f, <1>g, <1>2, <3>1, StandsStays DEF Tells, Fields, Step, Point, Back, Running,
         ShortCircuits
    <3>4. Brings(w)'
      BY <1>f, <3>1 DEF Brings, Tells, Fields, Step, Point, Back, Left, ShortCircuits
    <3>5. UnderWay(w)'
      BY <3>2, <3>3, <3>4 DEF UnderWay
    <3> QED BY <3>1, <3>5
  <2> QED BY <2>1
<1> QED BY <1>1, <1>2, <1>3, <1>4, <1>5 DEF IInv

LEMMA InterruptAnsweredKeeps ==
  ASSUME IInv, at.pc = "caught", Step(stack, "tests", 0),
         sh' = [sh EXCEPT !.flow = "interrupted", !.last = Interrupted],
         Goes("interrupt", 1, Interrupted), UNCHANGED prov
  PROVE  IInv'
<1>f. Types /\ StackKnown /\ Tells
  BY IInvTells DEF IInv
<1>g. UNCHANGED stack /\ sh'.trap_ran = sh.trap_ran
  BY <1>f DEF Interrupted, Step, Tells, Fields
<1>w. /\ watch' \in Seq(Unwinds)
      /\ watch' # <<>> =>
           OnItsWay(watch[1])' /\ watch'[1].how = "interrupt" /\ watch'[1].want = <<>>
  <2>1. 1 \in 1..Depth /\ stack[1].kind \in Goals("interrupt")
    BY <1>f, StackTells DEF StackKnown, Goals
  <2>2. \A i \in (1 + 1)..Depth : stack[i].kind \notin Processes
    <3>1. \A j \in 1..Depth : stack[j].kind # "subshell"
      BY DEF IInv, PointKnown
    <3>2. ASSUME NEW i \in (1 + 1)..Depth PROVE i \in 1..Depth /\ i # 1
      BY <1>f DEF Tells
    <3> QED BY <1>f, <3>1, <3>2 DEF StackKnown, FramesStand, Processes
  <2> QED BY <1>f, <1>g, <2>1, <2>2, GoesBegins DEF Interrupted
<1>1. Types'
  <2>1. sh' \in Fields
    <3>1. sh' = [sh EXCEPT !.flow = "interrupted", !.last = 130] /\ sh \in Fields
      BY <1>f DEF Interrupted, Tells
    <3>2. "interrupted" \in Flows /\ 130 \in Nat
      BY DEF Flows
    <3>3. [sh EXCEPT !.flow = "interrupted"] \in Fields
      BY <3>1, <3>2 DEF Fields
    <3>4. sh' = [[sh EXCEPT !.flow = "interrupted"] EXCEPT !.last = 130]
      BY <3>1
    <3> QED BY <3>2, <3>3, <3>4 DEF Fields
  <2>2. at' \in [pc : Pcs, ret : Nat]
    BY <1>f DEF Tells, Fields, Pcs, Status, Step, Point, Interrupted
  <2>3. prov' \in Provs
    BY <1>f DEF Tells, Provs, Acted, Tested, Interrupted
  <2>4. mode' = mode /\ watch' \in Seq(Unwinds)
    BY <1>f, <1>w DEF Types, Step, Interrupted
  <2> QED BY <1>f, <1>g, <2>1, <2>2, <2>3, <2>4 DEF Types
<1>2. StackKnown' /\ Depth' = Depth /\ Top' = Top
  BY <1>f, <1>g, StayKnows
<1>3. PointKnown'
  BY <1>f, <1>2 DEF PointKnown, IInv, Running, Point, Step, Interrupted
<1>4. TestsKnown'
  BY <1>f DEF TestsKnown, IInv, Running, Point, Step, Acted, Tested, Tells, Fields, Interrupted
<1>5. watch' # <<>> => UnderWay(watch[1])'
  <2>1. at'.pc = "tests" /\ sh'.flow = "interrupted"
    BY <1>f DEF Tells, Fields, Step, Point
  <2>2. ASSUME watch' # <<>> PROVE Stands(watch[1])' /\ Brings(watch[1])'
    BY <1>2, <1>w, <2>1, <2>2 DEF Stands, Brings
  <2> QED BY <1>w, <2>1, <2>2 DEF UnderWay, Running
<1> QED BY <1>1, <1>2, <1>3, <1>4, <1>5 DEF IInv

LEMMA NoMoreSignalsKeeps ==
  ASSUME IInv, NoMoreSignals
  PROVE  IInv'
  BY NoSignalLeftKeeps, InterruptAnsweredKeeps DEF NoMoreSignals

LEMMA ListUnwindsKeeps ==
  ASSUME IInv, ListUnwinds
  PROVE  IInv'
<1>f. Types /\ StackKnown /\ Tells
  BY IInvTells DEF IInv
<1>g. UNCHANGED stack /\ sh'.trap_ran = sh.trap_ran
  BY <1>f DEF ListUnwinds, Stops, Step, Tells, Fields
<1>1. Types'
  <2>1. sh' \in Fields
    BY <1>f DEF Tells, Fields, Flows, ListUnwinds, Stops
  <2>2. at' \in [pc : Pcs, ret : Nat]
    BY <1>f DEF Tells, Fields, Pcs, Status, Step, Point, ListUnwinds, Stops
  <2>3. prov' \in Provs
    BY <1>f DEF Tells, Provs, Acted, Tested, ListUnwinds, Stops
  <2>4. mode' = mode /\ watch' \in Seq(Unwinds)
    BY <1>f DEF Types, Step, ListUnwinds, Stops
  <2> QED BY <1>f, <1>g, <2>1, <2>2, <2>3, <2>4 DEF Types
<1>2. StackKnown' /\ Depth' = Depth /\ Top' = Top
  BY <1>f, <1>g, StayKnows
<1>3. PointKnown'
  BY <1>f, <1>2 DEF PointKnown, IInv, Step, Point, ListUnwinds, Stops, Tells
<1>4. TestsKnown'
  BY <1>f DEF TestsKnown, IInv, Running, Point, Step, Acted, Tested, Tells, Fields,
     ListUnwinds, Stops
<1>5. watch' # <<>> => UnderWay(watch[1])'
  <2>1. ASSUME watch' # <<>> PROVE UnderWay(watch[1])'
    <3>1. PICK w \in Unwinds :
           /\ w = watch[1] /\ w = watch'[1] /\ UnderWay(w) /\ Stands(w) /\ Brings(w)
           /\ w.goal \in 1..Depth
           /\ w.how \in {"exit", "return", "break", "continue", "interrupt"}
           /\ at.pc \notin {"finish", "unit", "left"} => Unwinding
      BY <2>1, WatchStays DEF Follows, ListUnwinds, Stops
    <3>2. OnItsWay(w)'
      BY <1>g, <3>1, WayStays DEF UnderWay
    <3>3. Stands(w)' /\ at'.pc \notin Running \cup {"ready", "gone"}
      <4>1. CASE Depth # 1
        <5>1. at'.pc = "left" /\ sh' = sh
          BY <1>f, <4>1 DEF ListUnwinds, Stops, Step, Point, Tells
        <5> QED BY <1>f, <1>g, <1>2, <3>1, <4>1, <5>1, StandsStays DEF Running, ListUnwinds
      <4>2. CASE Depth = 1
        <5>1. at'.pc = "unit" /\ at.pc = "tests" /\ Top.kind = "input"
          BY <1>f, <4>2 DEF ListUnwinds, Stops, Step, Point, Tells
        <5>2. w.goal = 1 /\ stack[1].kind = "input"
          BY <1>f, <3>1, <4>2, <5>1 DEF Top
        <5>3. w.how \in {"exit", "return", "interrupt"}
          BY <3>1, <5>2 DEF UnderWay, OnItsWay, Goals, Loops
        <5>4. CASE w.how \in {"exit", "interrupt"}
          <6>1. sh' = sh
            BY <3>1, <4>2, <5>1, <5>4 DEF Stands, ListUnwinds, Stops
          <6> QED BY <1>2, <3>1, <4>2, <5>1, <5>4, <6>1 DEF Stands, Running
        <5>5. CASE w.how = "return"
          <6>1. sh.flow = "return" /\ ~sh.exit
            BY <3>1, <4>2, <5>1, <5>5 DEF Stands
          <6>2. sh' = [sh EXCEPT !.flow = "normal", !.ended = TRUE]
            BY <5>1, <6>1 DEF ListUnwinds, Stops
          <6>3. sh'.flow = "normal" /\ sh'.ended /\ ~sh'.exit
            BY <1>f, <6>1, <6>2 DEF Tells, Fields
          <6> QED BY <1>2, <4>2, <5>1, <5>5, <6>3 DEF Stands, Running
        <5> QED BY <5>3, <5>4, <5>5
      <4> QED BY <4>1, <4>2
    <3>4. Brings(w)'
      BY <1>f, <3>1 DEF Brings, Tells, Step, Point, ListUnwinds, Stops
    <3>5. UnderWay(w)'
      BY <3>2, <3>3, <3>4 DEF UnderWay
    <3> QED BY <3>1, <3>5
  <2> QED BY <2>1
<1> QED BY <1>1, <1>2, <1>3, <1>4, <1>5 DEF IInv

LEMMA ListFailsKeeps ==
  ASSUME IInv, ListFails
  PROVE  IInv'
<1>f. Types /\ StackKnown /\ Tells
  BY IInvTells DEF IInv
<1>g. UNCHANGED stack /\ sh'.trap_ran = sh.trap_ran
  BY <1>f DEF ListFails, Stops, Step, Tells, Fields
<1>w. /\ watch' \in Seq(Unwinds)
      /\ watch' # <<>> =>
           /\ OnItsWay(watch[1])' /\ watch'[1].how = "exit" /\ ~Unwinding
           /\ watch'[1].want # <<>> => watch'[1].want[1] = at'.ret
  <2>1. Goes("exit", Process, sh.last) /\ at'.ret = sh.last /\ sh.last \in Nat /\ ~Unwinding
    BY <1>f DEF ListFails, Stops, Step, Point, Tells, Fields
  <2>2. stack[Process].kind \in Goals("exit")
    BY <1>f, ProcessTells DEF StackKnown, Goals
  <2> QED BY <1>f, <1>g, <2>1, <2>2, ProcessTells, GoesBegins DEF StackKnown
<1>1. Types'
  <2>1. sh' \in Fields
    BY <1>f DEF Tells, Fields, Flows, ListFails, Stops
  <2>2. at' \in [pc : Pcs, ret : Nat]
    BY <1>f DEF Tells, Fields, Pcs, Status, Step, Point, ListFails, Stops
  <2>3. prov' \in Provs
    BY <1>f DEF Tells, Provs, Acted, Tested, ListFails, Stops
  <2>4. mode' = mode /\ watch' \in Seq(Unwinds)
    BY <1>f, <1>w DEF Types, Step, ListFails, Stops
  <2> QED BY <1>f, <1>g, <2>1, <2>2, <2>3, <2>4 DEF Types
<1>2. StackKnown' /\ Depth' = Depth /\ Top' = Top
  BY <1>f, <1>g, StayKnows
<1>3. PointKnown'
  BY <1>f, <1>2 DEF PointKnown, IInv, Step, Point, ListFails, Stops, Tells
<1>4. TestsKnown'
  BY <1>f DEF TestsKnown, IInv, Running, Point, Step, Acted, Tested, Tells, Fields,
     ListFails, Stops
<1>5. watch' # <<>> => UnderWay(watch[1])'
  <2>1. at'.pc \in {"unit", "left"} /\ sh'.exit /\ sh'.flow = sh.flow
    BY <1>f DEF Tells, Fields, Step, Point, ListFails, Stops
  <2>2. watch' # <<>> => Stands(watch[1])' /\ Brings(watch[1])'
    BY <1>w, <2>1 DEF Stands, Brings, Unwinding
  <2> QED BY <1>w, <2>1, <2>2 DEF UnderWay, Running
<1> QED BY <1>1, <1>2, <1>3, <1>4, <1>5 DEF IInv

LEMMA ListGoesOnKeeps ==
  ASSUME IInv, ListGoesOn
  PROVE  IInv'
<1>f. Types /\ StackKnown /\ Tells
  BY IInvTells DEF IInv
<1>g. UNCHANGED stack /\ sh'.trap_ran = sh.trap_ran
  BY <1>f DEF ListGoesOn, Stops, Step, Tells, Fields
<1>1. Types'
  <2>1. sh' \in Fields
    BY <1>f DEF Tells, Fields, Flows, ListGoesOn, Stops
  <2>2. at' \in [pc : Pcs, ret : Nat]
    BY <1>f DEF Tells, Fields, Pcs, Status, Step, Point, ListGoesOn, Stops
  <2>3. prov' \in Provs
    BY <1>f DEF Tells, Provs, Acted, Tested, ListGoesOn, Stops
  <2>4. mode' = mode /\ watch' \in Seq(Unwinds)
    BY <1>f DEF Types, Step, ListGoesOn, Stops
  <2> QED BY <1>f, <1>g, <2>1, <2>2, <2>3, <2>4 DEF Types
<1>2. StackKnown' /\ Depth' = Depth /\ Top' = Top
  BY <1>f, <1>g, StayKnows
<1>3. PointKnown'
  BY <1>f, <1>2 DEF PointKnown, IInv, Step, Point, ListGoesOn, Stops, Tells
<1>4. TestsKnown'
  BY <1>f DEF TestsKnown, IInv, Running, Point, Step, Acted, Tested, Tells, Fields,
     ListGoesOn, Stops
<1>5. watch' # <<>> => UnderWay(watch[1])'
  <2>1. ASSUME watch' # <<>> PROVE UnderWay(watch[1])'
    <3>1. PICK w \in Unwinds :
           /\ w = watch[1] /\ w = watch'[1] /\ UnderWay(w) /\ Stands(w) /\ Brings(w)
           /\ w.goal \in 1..Depth
           /\ w.how \in {"exit", "return", "break", "continue", "interrupt"}
           /\ at.pc \notin {"finish", "unit", "left"} => Unwinding
      BY <2>1, WatchStays DEF Follows, ListGoesOn, Stops
    <3>2. OnItsWay(w)'
      BY <1>g, <3>1, WayStays DEF UnderWay
    <3>3. Stands(w)' /\ at'.pc \notin Running \cup {"ready", "gone"}
      BY <3>1 DEF ListGoesOn
    <3>4. Brings(w)'
      BY <3>1 DEF ListGoesOn
    <3>5. UnderWay(w)'
      BY <3>2, <3>3, <3>4 DEF UnderWay
    <3> QED BY <3>1, <3>5
  <2> QED BY <2>1
<1> QED BY <1>1, <1>2, <1>3, <1>4, <1>5 DEF IInv

(* Where a construct, an input or a process ends. *)
LEMMA FallThroughKeeps ==
  ASSUME IInv, FallThrough
  PROVE  IInv'
<1>f. Types /\ StackKnown /\ Tells
  BY IInvTells DEF IInv
<1>g. UNCHANGED stack /\ sh'.trap_ran = sh.trap_ran
  BY <1>f DEF FallThrough, Left, Step, Tells, Fields
<1>1. Types'
  <2>1. sh' \in Fields
    BY <1>f DEF Tells, Fields, Flows, FallThrough, Left
  <2>2. at' \in [pc : Pcs, ret : Nat]
    BY <1>f DEF Tells, Fields, Pcs, Status, Step, Point, FallThrough, Left
  <2>3. prov' \in Provs
    BY <1>f DEF Tells, Provs, Acted, Tested, FallThrough, Left
  <2>4. mode' = mode /\ watch' \in Seq(Unwinds)
    BY <1>f DEF Types, Step, FallThrough, Left
  <2> QED BY <1>f, <1>g, <2>1, <2>2, <2>3, <2>4 DEF Types
<1>2. StackKnown' /\ Depth' = Depth /\ Top' = Top
  BY <1>f, <1>g, StayKnows
<1>3. PointKnown'
  BY <1>f, <1>2 DEF PointKnown, IInv, Running, Point, Step, FallThrough, Left
<1>4. TestsKnown'
  BY <1>f DEF TestsKnown, IInv, Running, Point, Step, Acted, Tested, Tells, Fields,
     FallThrough, Left
<1>5. watch' # <<>> => UnderWay(watch[1])'
  BY DEF FallThrough
<1> QED BY <1>1, <1>2, <1>3, <1>4, <1>5 DEF IInv

LEMMA UnitDoneKeeps ==
  ASSUME IInv, UnitDone
  PROVE  IInv'
<1>f. Types /\ StackKnown /\ Tells
  BY IInvTells DEF IInv
<1>g. UNCHANGED stack /\ sh'.trap_ran = sh.trap_ran
  BY <1>f DEF UnitDone, Step, Tells, Fields
<1>1. Types'
  <2>1. at' \in [pc : Pcs, ret : Nat]
    BY <1>f DEF Tells, Pcs, Step, Point, UnitDone
  <2>2. sh' \in Fields /\ prov' = prov /\ mode' = mode
    BY <1>f DEF Tells, Fields, Flows, Step, UnitDone
  <2>3. watch' \in {watch, <<>>}
    BY DEF UnitDone, Follows
  <2>4. watch' \in Seq(Unwinds)
    BY <1>f, <2>3, EmptySeq DEF Types
  <2> QED BY <1>f, <1>g, <2>1, <2>2, <2>4 DEF Types, Tells
<1>2. StackKnown' /\ Depth' = Depth /\ Top' = Top
  BY <1>f, <1>g, StayKnows
<1>3. PointKnown'
  BY <1>f, <1>2 DEF PointKnown, IInv, Step, Point, UnitDone, Tells, Lists
<1>4. TestsKnown'
  BY <1>f DEF TestsKnown, IInv, Running, Point, Step, Acted, Tested, Tells, Fields, UnitDone
<1>5. watch' # <<>> => UnderWay(watch[1])'
  <2>0. watch' # <<>> => watch' = watch
    BY DEF UnitDone, Follows
  <2>1. ASSUME watch' # <<>> PROVE UnderWay(watch[1])'
    <3>1. PICK w \in Unwinds :
           /\ w = watch[1] /\ w = watch'[1] /\ UnderWay(w) /\ Stands(w) /\ Brings(w)
           /\ w.goal \in 1..Depth
           /\ w.how \in {"exit", "return", "break", "continue", "interrupt"}
           /\ at.pc \notin {"finish", "unit", "left"} => Unwinding
      BY <2>1, <2>0, WatchStays
    <3>2. OnItsWay(w)'
      BY <1>g, <3>1, WayStays DEF UnderWay
    <3>3. Stands(w)' /\ at'.pc \notin Running \cup {"ready", "gone"}
      <4>0. at.pc = "unit" /\ Depth = 1
        BY DEF UnitDone, IInv, PointKnown
      <4>1. w.goal = 1 /\ stack[1].kind = "input"
        BY <1>f, <3>1, <4>0 DEF Top, Tells
      <4>2. w.how \in {"exit", "return", "interrupt"}
        BY <3>1, <4>1 DEF UnderWay, OnItsWay, Goals, Loops
      <4>3. at'.pc \in {"left", "node"} /\ (at'.pc = "node" => Arrived(Depth, "node"))
        <5>1. Depth = w.goal /\ watch # <<>>
          BY <2>0, <2>1, <4>0, <4>1
        <5> QED BY <3>1, <5>1 DEF UnitDone, Step, Point, Arrived, Running
      <4>4. at'.pc = "left"
        <5>1. at'.pc = "node" => Follows(Depth, "node")
          BY DEF UnitDone, Step, Point
        <5> QED BY <2>1, <4>3, <5>1 DEF Follows
      <4>5. sh'.flow = (IF sh.flow = "interrupted" THEN "normal" ELSE sh.flow)
            /\ sh'.exit = sh.exit /\ sh'.ended = sh.ended
        BY <1>f DEF Tells, Fields, UnitDone
      <4> QED BY <1>2, <3>1, <4>0, <4>2, <4>4, <4>5 DEF Stands, Running
    <3>4. Brings(w)'
      <4>1. at.pc = "unit" /\ (at'.pc = "left" => at'.ret = at.ret) /\ at'.pc \in {"left", "node"}
        BY DEF UnitDone, Step, Point
      <4> QED BY <3>1, <4>1 DEF Brings
    <3>5. UnderWay(w)'
      BY <3>2, <3>3, <3>4 DEF UnderWay
    <3> QED BY <3>1, <3>5
  <2> QED BY <2>1
<1> QED BY <1>1, <1>2, <1>3, <1>4, <1>5 DEF IInv

LEMMA InputDoneKeeps ==
  ASSUME IInv, InputDone
  PROVE  IInv'
<1>f. Types /\ StackKnown /\ Tells
  BY IInvTells DEF IInv
<1>g. UNCHANGED stack /\ sh'.trap_ran = sh.trap_ran
  BY <1>f DEF InputDone, Step, Tells, Fields
<1>1. Types'
  <2>1. at' \in [pc : Pcs, ret : Nat]
    BY <1>f DEF Tells, Pcs, Step, Point, InputDone
  <2>2. sh' \in Fields /\ prov' = prov /\ mode' = mode
    BY <1>f DEF Tells, Step, InputDone
  <2>3. watch' \in {watch, <<>>}
    BY DEF InputDone, Follows
  <2>4. watch' \in Seq(Unwinds)
    BY <1>f, <2>3, EmptySeq DEF Types
  <2> QED BY <1>f, <1>g, <2>1, <2>2, <2>4 DEF Types, Tells
<1>2. StackKnown' /\ Depth' = Depth /\ Top' = Top
  BY <1>f, <1>g, StayKnows
<1>3. PointKnown'
  BY <1>f, <1>2 DEF PointKnown, IInv, Step, Point, InputDone, Tells, Left, Processes
<1>4. TestsKnown'
  BY <1>f DEF TestsKnown, IInv, Running, InputDone, Left
<1>5. watch' # <<>> => UnderWay(watch[1])'
  <2>0. watch' # <<>> => watch' = watch
    BY DEF InputDone, Follows
  <2>1. ASSUME watch' # <<>> PROVE UnderWay(watch[1])'
    <3>1. PICK w \in Unwinds :
           /\ w = watch[1] /\ w = watch'[1] /\ UnderWay(w) /\ Stands(w) /\ Brings(w)
           /\ w.goal \in 1..Depth
           /\ w.how \in {"exit", "return", "break", "continue", "interrupt"}
           /\ at.pc \notin {"finish", "unit", "left"} => Unwinding
      BY <2>1, <2>0, WatchStays
    <3>2. OnItsWay(w)'
      BY <1>g, <3>1, WayStays DEF UnderWay
    <3>3. Stands(w)' /\ at'.pc \notin Running \cup {"ready", "gone"}
      <4>0. at.pc = "left" /\ Depth = 1
        BY <1>f DEF InputDone, Left, Tells
      <4>1. w.goal = 1 /\ stack[1].kind = "input"
        BY <1>f, <3>1, <4>0 DEF Top, Tells
      <4>2. w.how \in {"exit", "return", "interrupt"}
        BY <3>1, <4>1 DEF UnderWay, OnItsWay, Goals, Loops
      <4>3. ~mode.interactive
        BY <2>1 DEF InputDone, Follows, Arrived
      <4>4. at'.pc = "finish" /\ sh' = sh
        BY <4>3 DEF InputDone, Step, Point
      <4>5. sh.flow = "normal"
        BY <3>1, <4>0, <4>2 DEF Stands
      <4> QED BY <4>4, <4>5 DEF Stands, Running
    <3>4. Brings(w)'
      <4>1. at'.pc \in {"ready", "finish"}
        BY DEF InputDone, Step, Point
      <4> QED BY <3>1, <4>1 DEF Brings
    <3>5. UnderWay(w)'
      BY <3>2, <3>3, <3>4 DEF UnderWay
    <3> QED BY <3>1, <3>5
  <2> QED BY <2>1
<1> QED BY <1>1, <1>2, <1>3, <1>4, <1>5 DEF IInv

LEMMA SubshellDoneKeeps ==
  ASSUME IInv, SubshellDone
  PROVE  IInv'
<1>f. Types /\ StackKnown /\ Tells
  BY IInvTells DEF IInv
<1>g. UNCHANGED stack /\ sh'.trap_ran = sh.trap_ran
  BY <1>f DEF SubshellDone, Left, Step, Tells, Fields
<1>1. Types'
  <2>1. sh' \in Fields
    BY <1>f DEF Tells, Fields, Flows, SubshellDone, Left
  <2>2. at' \in [pc : Pcs, ret : Nat]
    BY <1>f DEF Tells, Fields, Pcs, Status, Step, Point, SubshellDone, Left
  <2>3. prov' \in Provs
    BY <1>f DEF Tells, Provs, Acted, Tested, SubshellDone, Left
  <2>4. mode' = mode /\ watch' \in Seq(Unwinds)
    BY <1>f DEF Types, Step, SubshellDone, Left
  <2> QED BY <1>f, <1>g, <2>1, <2>2, <2>3, <2>4 DEF Types
<1>2. StackKnown' /\ Depth' = Depth /\ Top' = Top
  BY <1>f, <1>g, StayKnows
<1>3. PointKnown'
  BY <1>f, <1>2 DEF PointKnown, IInv, Step, Point, SubshellDone, Left, Processes
<1>4. TestsKnown'
  BY <1>f DEF TestsKnown, IInv, Running, SubshellDone, Left
<1>5. watch' # <<>> => UnderWay(watch[1])'
  <2>1. ASSUME watch' # <<>> PROVE UnderWay(watch[1])'
    <3>1. PICK w \in Unwinds :
           /\ w = watch[1] /\ w = watch'[1] /\ UnderWay(w) /\ Stands(w) /\ Brings(w)
           /\ w.goal \in 1..Depth
           /\ w.how \in {"exit", "return", "break", "continue", "interrupt"}
           /\ at.pc \notin {"finish", "unit", "left"} => Unwinding
      BY <2>1, WatchStays DEF Follows, SubshellDone, Left
    <3>2. OnItsWay(w)'
      BY <1>g, <3>1, WayStays DEF UnderWay
    <3>3. Stands(w)' /\ at'.pc \notin Running \cup {"ready", "gone"}
      <4>1. at'.pc = "finish" /\ Depth # 1
        BY <1>f DEF SubshellDone, Left, Step, Point, Tells
      <4> QED BY <1>2, <4>1 DEF Stands, Running
    <3>4. Brings(w)'
      <4>1. at'.pc = "finish"
        BY DEF SubshellDone, Step, Point
      <4> QED BY <3>1, <4>1 DEF Brings
    <3>5. UnderWay(w)'
      BY <3>2, <3>3, <3>4 DEF UnderWay
    <3> QED BY <3>1, <3>5
  <2> QED BY <2>1
<1> QED BY <1>1, <1>2, <1>3, <1>4, <1>5 DEF IInv

LEMMA ReadInputKeeps ==
  ASSUME IInv, ReadInput
  PROVE  IInv'
<1>f. Types /\ StackKnown /\ Tells
  BY IInvTells DEF IInv
<1>g. UNCHANGED stack /\ sh'.trap_ran = sh.trap_ran
  BY <1>f DEF ReadInput, Step, Tells, Fields
<1>1. Types'
  <2>1. sh' \in Fields
    BY <1>f DEF Tells, Fields, Flows, ReadInput
  <2>2. at' \in [pc : Pcs, ret : Nat]
    BY <1>f DEF Tells, Fields, Pcs, Status, Step, Point, ReadInput
  <2>3. prov' \in Provs
    BY <1>f DEF Tells, Provs, Acted, Tested, ReadInput
  <2>4. mode' = mode /\ watch' \in Seq(Unwinds)
    BY <1>f DEF Types, Step, ReadInput
  <2> QED BY <1>f, <1>g, <2>1, <2>2, <2>3, <2>4 DEF Types
<1>2. StackKnown' /\ Depth' = Depth /\ Top' = Top
  BY <1>f, <1>g, StayKnows
<1>3. PointKnown'
  BY <1>f, <1>2 DEF PointKnown, IInv, Running, Point, Step, ReadInput
<1>4. TestsKnown'
  BY <1>f DEF TestsKnown, IInv, Running, Point, Step, Acted, Tested, Tells, Fields, ReadInput
<1>5. watch' # <<>> => UnderWay(watch[1])'
  BY StartsUnwatched DEF ReadInput
<1> QED BY <1>1, <1>2, <1>3, <1>4, <1>5 DEF IInv

LEMMA FinishSessionKeeps ==
  ASSUME IInv, FinishSession
  PROVE  IInv'
<1>f. Types /\ StackKnown /\ Tells
  BY IInvTells DEF IInv
<1>g. UNCHANGED stack /\ sh'.trap_ran = sh.trap_ran
  BY <1>f DEF FinishSession, Step, Tells, Fields
<1>1. Types'
  <2>1. sh' \in Fields
    BY <1>f DEF Tells, Fields, Flows, FinishSession
  <2>2. at' \in [pc : Pcs, ret : Nat]
    BY <1>f DEF Tells, Fields, Pcs, Status, Step, Point, FinishSession
  <2>3. prov' \in Provs
    BY <1>f DEF Tells, Provs, Acted, Tested, FinishSession
  <2>4. mode' = mode /\ watch' \in Seq(Unwinds)
    BY <1>f DEF Types, Step, FinishSession
  <2> QED BY <1>f, <1>g, <2>1, <2>2, <2>3, <2>4 DEF Types
<1>2. StackKnown' /\ Depth' = Depth /\ Top' = Top
  BY <1>f, <1>g, StayKnows
<1>3. PointKnown'
  <2>1. Top.kind = "input" /\ at'.pc = "finish"
    BY <1>f DEF IInv, PointKnown, FinishSession, Step, Point, Tells
  <2> QED BY <1>2, <2>1 DEF PointKnown, Processes
<1>4. TestsKnown'
  BY <1>f DEF TestsKnown, IInv, Running, Point, Step, Acted, Tested, Tells, Fields,
     FinishSession
<1>5. watch' # <<>> => UnderWay(watch[1])'
  BY StartsUnwatched DEF FinishSession
<1> QED BY <1>1, <1>2, <1>3, <1>4, <1>5 DEF IInv

(* A trap's body, and the EXIT trap's. *)
LEMMA TakeTrapKeeps ==
  ASSUME IInv, TakeTrap
  PROVE  IInv'
<1>f. Types /\ StackKnown /\ Tells
  BY IInvTells DEF IInv
<1>g. PICK f \in Frames :
        /\ Pushes(f) /\ f.kind \notin {"input"}
        /\ f.kind = "trap" /\ f.outer # <<>> /\ Top.kind \in Lists
        /\ f.keep # 0 => \A j \in 1..Depth : stack[j].kind # "subshell"
  <2> DEFINE o == [Fresh EXCEPT !.last = sh.last, !.entry = sh.entry]
             f == [Frame("trap") EXCEPT !.keep = IF at.pc = "caught" THEN Interrupted ELSE 0,
                                        !.outer = <<o>>, !.prov = prov]
  <2>1. o \in Fields
    BY <1>f, EmptySeq DEF Tells, Fields, Flows, Fresh
  <2>2. <<o>> \in Seq(Fields) /\ <<o>> # <<>>
    BY <2>1
  <2> HIDE DEF o
  <2>3. Frame("trap") \in Frames /\ Frame("trap").kind = "trap"
    BY PlainFrame DEF Kinds, Lists
  <2>4. f \in Frames /\ f.kind = "trap" /\ f.outer = <<o>>
        /\ f.keep = IF at.pc = "caught" THEN Interrupted ELSE 0
    BY <1>f, <2>2, <2>3 DEF Frames, Tells, Interrupted
  <2>5. Pushes(f)
    BY DEF TakeTrap, Step, Pushes, o
  <2>6. Top.kind \in Lists /\ (at.pc = "caught" => \A j \in 1..Depth : stack[j].kind # "subshell")
    BY DEF TakeTrap, IInv, PointKnown
  <2> HIDE DEF f
  <2> QED BY <2>2, <2>4, <2>5, <2>6
<1>s. Types' /\ sh'.trap_ran = sh.trap_ran /\ at'.pc \in Running /\ watch' = <<>>
  <2>0. <<sh.last>> \in Seq(Nat)
    <3>1. sh.last \in Nat
      BY <1>f DEF Tells, Fields
    <3> QED BY <3>1
  <2>1. sh' \in Fields /\ sh'.trap_ran = sh.trap_ran
    BY <1>f, <1>g, <2>0, EmptySeq DEF Tells, Fields, Flows, Enters, TakeTrap
  <2>2. at' \in [pc : Pcs, ret : Nat] /\ at'.pc \in Running
    BY <1>f DEF Tells, Pcs, Running, Step, Point, Enters, TakeTrap
  <2>3. prov' = prov /\ mode' = mode
    BY DEF Enters, Step, TakeTrap
  <2>4. watch' = <<>>
    BY DEF TakeTrap
  <2>5. stack' \in Seq(Frames)
    BY <1>f, <1>g, PushTells DEF StackKnown
  <2> QED BY <1>f, <2>1, <2>2, <2>3, <2>4, <2>5, EmptySeq DEF Types, Tells
<1>1. Types'
  BY <1>s
<1>2. StackKnown'
  BY <1>f, <1>g, <1>s, PushKnows
<1>3. PointKnown'
  BY <1>s DEF PointKnown, Running
<1>4. TestsKnown'
  BY <1>s DEF TestsKnown
<1>5. watch' # <<>> => UnderWay(watch[1])'
  BY <1>s
<1> QED BY <1>1, <1>2, <1>3, <1>4, <1>5 DEF IInv

LEMMA RunExitTrapKeeps ==
  ASSUME IInv, RunExitTrap
  PROVE  IInv'
<1>f. Types /\ StackKnown /\ Tells
  BY IInvTells DEF IInv
<1>g. PICK f \in Frames :
        /\ Pushes(f) /\ f.kind \notin {"input"}
        /\ f.kind = "exit_trap" /\ f.outer # <<>> /\ Top.kind \in Processes
  <2> DEFINE o == [Fresh EXCEPT !.exit = sh.exit, !.entry = sh.entry]
             f == [Frame("exit_trap") EXCEPT !.keep = at.ret, !.outer = <<o>>]
  <2>1. o \in Fields
    BY <1>f, EmptySeq DEF Tells, Fields, Flows, Fresh
  <2>2. <<o>> \in Seq(Fields) /\ <<o>> # <<>>
    BY <2>1
  <2> HIDE DEF o
  <2>3. Frame("exit_trap") \in Frames /\ Frame("exit_trap").kind = "exit_trap"
    BY PlainFrame DEF Kinds, Lists
  <2>4. f \in Frames /\ f.kind = "exit_trap" /\ f.outer = <<o>>
    BY <1>f, <2>2, <2>3 DEF Frames, Tells
  <2>5. Pushes(f)
    BY DEF RunExitTrap, Step, Pushes, o
  <2>6. Top.kind \in Processes
    BY DEF RunExitTrap, IInv, PointKnown
  <2> HIDE DEF f
  <2> QED BY <2>2, <2>4, <2>5, <2>6
<1>s. Types' /\ sh'.trap_ran = TRUE /\ at'.pc \in Running /\ watch' = <<>>
  <2>0. <<sh.last>> \in Seq(Nat)
    <3>1. sh.last \in Nat
      BY <1>f DEF Tells, Fields
    <3> QED BY <3>1
  <2>1. sh' \in Fields /\ sh'.trap_ran = TRUE
    BY <1>f, <1>g, <2>0, EmptySeq DEF Tells, Fields, Flows, Enters, RunExitTrap
  <2>2. at' \in [pc : Pcs, ret : Nat] /\ at'.pc \in Running
    BY <1>f DEF Tells, Pcs, Running, Step, Point, Enters, RunExitTrap
  <2>3. prov' = prov /\ mode' = mode
    BY DEF Enters, Step, RunExitTrap
  <2>4. watch' = <<>>
    BY DEF RunExitTrap
  <2>5. stack' \in Seq(Frames)
    BY <1>f, <1>g, PushTells DEF StackKnown
  <2> QED BY <1>f, <2>1, <2>2, <2>3, <2>4, <2>5, EmptySeq DEF Types, Tells
<1>1. Types'
  BY <1>s
<1>2. StackKnown'
  BY <1>f, <1>g, <1>s, PushKnows
<1>3. PointKnown'
  BY <1>s DEF PointKnown, Running
<1>4. TestsKnown'
  BY <1>s DEF TestsKnown
<1>5. watch' # <<>> => UnderWay(watch[1])'
  BY <1>s
<1> QED BY <1>1, <1>2, <1>3, <1>4, <1>5 DEF IInv

LEMMA TrapDoneKeeps ==
  ASSUME IInv, TrapDone
  PROVE  IInv'
<1>f. Types /\ StackKnown /\ Tells
  BY IInvTells DEF IInv
<1>a. Top.outer[1] \in Fields /\ Top.outer[1].entry \in Seq(Nat) /\ Top.outer[1].last \in Nat
  BY <1>f DEF Tells, TrapDone, Fields
<1>g. /\ stack' = Popped /\ Top.kind \in {"trap"} /\ Top.kind # "input"
      /\ sh'.trap_ran = IF Top.kind = "subshell" THEN Top.outer[1].trap_ran ELSE sh.trap_ran
      /\ at'.pc = (IF Top.keep = 0 THEN "traps" ELSE "caught") /\ at.pc \in {"back", "left"}
           /\ Follows(Depth - 1, "traps")
  <2>1. stack' = Popped /\ at'.pc = (IF Top.keep = 0 THEN "traps" ELSE "caught")
          /\ at.pc \in {"back", "left"} /\ Follows(Depth - 1, "traps")
        /\ Top.kind \in {"trap"}
    BY <1>f DEF Returns, Step, Point, Tells, Left, Back, TrapDone
  <2>2. sh'.trap_ran = sh.trap_ran
    BY <1>f DEF Tells, Fields, Returns, consume_loop_flow, TrapDone
  <2> QED BY <2>1, <2>2 DEF Loops, Conditions
<1>1. Types'
  <2>1. sh' \in Fields
    BY <1>f, <1>a DEF Tells, Fields, Flows, TrapDone
  <2>2. at' \in [pc : Pcs, ret : Nat]
    BY <1>f DEF Tells, Fields, Pcs, Step, Point, Returns, TrapDone
  <2>3. prov' \in Provs
    BY <1>f DEF Tells, Provs, TrapDone
  <2>4. mode' = mode /\ watch' \in Seq(Unwinds)
    BY <1>f, <1>g, EmptySeq DEF Types, Step, Returns, Follows, TrapDone
  <2>5. stack' \in Seq(Frames)
    BY <1>f, <1>g, PopTells DEF StackKnown
  <2> QED BY <1>f, <2>1, <2>2, <2>3, <2>4, <2>5 DEF Types
<1>2. StackKnown' /\ Depth' = Depth - 1 /\ Depth > 1 /\ Top' = stack[Depth - 1]
  BY <1>f, <1>g, PopKnows
<1>3. PointKnown'
  <2>1. Depth \in 1..Depth /\ stack[Depth].kind = "trap" /\ stack[Depth] = Top
    BY <1>f, <1>g DEF Top, Tells
  <2>2. stack[Depth - 1].kind \in Lists
    BY <1>f, <2>1 DEF StackKnown, FramesStand
  <2>3. at'.pc = "caught" => \A j \in 1..Depth' : stack'[j].kind # "subshell"
    <3>1. ASSUME Top.keep # 0, NEW j \in 1..Depth' PROVE stack'[j].kind # "subshell"
      <4>1. j \in 1..Depth /\ j < Depth /\ stack'[j] = stack[j]
        BY <1>f, <1>g, <1>2, PopTells DEF StackKnown, Tells
      <4> QED BY <1>f, <2>1, <3>1, <4>1 DEF StackKnown, InterruptsKnown
    <3> QED BY <1>g, <3>1
  <2> QED BY <1>g, <1>2, <2>2, <2>3 DEF PointKnown
<1>4. TestsKnown'
  <2>1. prov'.blurred
    BY <1>f DEF Tells, Provs, TrapDone
  <2> QED BY <2>1 DEF TestsKnown
<1>5. ASSUME watch' # <<>> PROVE UnderWay(watch[1])'
  <2>1. PICK w \in Unwinds :
           /\ watch' = watch /\ w = watch[1]
           /\ UnderWay(w) /\ OnItsWay(w)' /\ w.goal \in 1..(Depth - 1)
           /\ Top.kind \notin Barred(w) /\ Unwinding
    BY <1>g, <1>2, <1>5, PopCarries
  <2>h. w.how \in {"exit", "return", "break", "continue", "interrupt"} /\ Stands(w) /\ Brings(w)
    BY <2>1 DEF Unwinds, UnderWay
  <2>2. Stands(w)'
    <3>1. sh'.flow = sh.flow /\ sh'.exit = sh.exit
          /\ (w.how \in {"break", "continue"} => sh'.level = sh.level) /\ Top.kind \notin Loops
      BY <1>f, <1>g DEF Tells, Fields, Loops, TrapDone
    <3> QED BY <1>f, <1>g, <1>2, <2>1, <3>1, StandsPops
  <2>3. Brings(w)'
    BY <1>g, <2>1 DEF Brings, Barred
  <2>4. UnderWay(w)'
    BY <1>g, <2>1, <2>2, <2>3 DEF UnderWay, Running
  <2> QED BY <2>1, <2>4
<1> QED BY <1>1, <1>2, <1>3, <1>4, <1>5 DEF IInv

LEMMA ExitTrapDoneKeeps ==
  ASSUME IInv, ExitTrapDone
  PROVE  IInv'
<1>f. Types /\ StackKnown /\ Tells
  BY IInvTells DEF IInv
<1>a. Top.outer[1] \in Fields /\ Top.outer[1].entry \in Seq(Nat) /\ Top.outer[1].exit \in BOOLEAN
  BY <1>f DEF Tells, ExitTrapDone, Left, Fields
<1>g. /\ stack' = Popped /\ Top.kind \in {"exit_trap"} /\ Top.kind # "input"
      /\ sh'.trap_ran = IF Top.kind = "subshell" THEN Top.outer[1].trap_ran ELSE sh.trap_ran
      /\ at'.pc = "finish" /\ at.pc \in {"back", "left"} /\ Follows(Depth - 1, "finish")
  <2>1. stack' = Popped /\ at'.pc = "finish" /\ at.pc \in {"back", "left"}
          /\ Follows(Depth - 1, "finish")
        /\ Top.kind \in {"exit_trap"}
    BY <1>f DEF Returns, Step, Point, Tells, Left, Back, ExitTrapDone
  <2>2. sh'.trap_ran = sh.trap_ran
    BY <1>f DEF Tells, Fields, Returns, consume_loop_flow, ExitTrapDone
  <2> QED BY <2>1, <2>2 DEF Loops, Conditions
<1>1. Types'
  <2>1. sh' \in Fields
    BY <1>f, <1>a DEF Tells, Fields, Flows, ExitTrapDone
  <2>2. at' \in [pc : Pcs, ret : Nat]
    BY <1>f DEF Tells, Fields, Pcs, Step, Point, Returns, ExitTrapDone
  <2>3. prov' \in Provs
    BY <1>f DEF Tells, ExitTrapDone
  <2>4. mode' = mode /\ watch' \in Seq(Unwinds)
    BY <1>f, <1>g, EmptySeq DEF Types, Step, Returns, Follows, ExitTrapDone
  <2>5. stack' \in Seq(Frames)
    BY <1>f, <1>g, PopTells DEF StackKnown
  <2> QED BY <1>f, <2>1, <2>2, <2>3, <2>4, <2>5 DEF Types
<1>2. StackKnown' /\ Depth' = Depth - 1 /\ Depth > 1 /\ Top' = stack[Depth - 1]
  BY <1>f, <1>g, PopKnows
<1>3. PointKnown'
  <2>1. Depth \in 1..Depth /\ stack[Depth].kind = "exit_trap"
    BY <1>f, <1>g DEF Top, Tells
  <2>2. stack[Depth - 1].kind \in Processes
    BY <1>f, <2>1 DEF StackKnown, FramesStand
  <2> QED BY <1>g, <1>2, <2>2 DEF PointKnown
<1>4. TestsKnown'
  BY <1>f DEF TestsKnown, IInv, Running, Tells, Fields, ExitTrapDone, Left
<1>5. ASSUME watch' # <<>> PROVE UnderWay(watch[1])'
  <2>1. PICK w \in Unwinds :
           /\ watch' = watch /\ w = watch[1]
           /\ UnderWay(w) /\ OnItsWay(w)' /\ w.goal \in 1..(Depth - 1)
           /\ Top.kind \notin Barred(w) /\ Unwinding
    BY <1>g, <1>2, <1>5, PopCarries
  <2>h. w.how \in {"exit", "return", "break", "continue", "interrupt"} /\ Stands(w) /\ Brings(w)
    BY <2>1 DEF Unwinds, UnderWay
  <2>2. Stands(w)'
    <3>1. sh.trap_ran /\ sh'.trap_ran = sh.trap_ran
      <4>1. Depth \in 1..Depth /\ stack[Depth].kind = "exit_trap"
        BY <1>f, <1>g DEF Top, Tells
      <4>2. \A j \in Depth..Depth : stack[j].kind # "subshell"
        BY <1>f, <4>1 DEF Tells
      <4>3. sh.trap_ran
        BY <1>f, <4>1, <4>2 DEF StackKnown, TrapsRemembered
      <4> QED BY <1>g, <4>1, <4>3
    <3> QED BY <1>g, <3>1 DEF Stands
  <2>3. Brings(w)'
    BY <1>g, <2>h DEF Brings
  <2>4. UnderWay(w)'
    BY <1>g, <2>1, <2>2, <2>3 DEF UnderWay, Running
  <2> QED BY <2>1, <2>4
<1> QED BY <1>1, <1>2, <1>3, <1>4, <1>5 DEF IInv

LEMMA SubshellEndsKeeps ==
  ASSUME IInv, at.pc = "finish", Top.kind = "subshell", Returns(at.ret),
         sh' = Top.outer[1], prov' = Acted
  PROVE  IInv'
<1>f. Types /\ StackKnown /\ Tells
  BY IInvTells DEF IInv
<1>g. /\ stack' = Popped /\ Top.outer[1] \in Fields /\ at' = Point("back", at.ret)
      /\ mode' = mode /\ Follows(Depth - 1, "back") /\ Top.kind # "input"
  BY <1>f DEF Returns, Step, Tells
<1>5. watch' = <<>>
  <2>1. ASSUME watch' # <<>> PROVE FALSE
    <3>1. \E w \in Unwinds : Top.kind \notin Barred(w)
      BY <1>g, <2>1, PopCarries
    <3> QED BY <3>1 DEF Barred, Processes
  <2> QED BY <2>1
<1>1. Types'
  <2>1. stack' \in Seq(Frames)
    BY <1>f, <1>g, PopTells DEF StackKnown
  <2>2. at' \in [pc : Pcs, ret : Nat] /\ prov' \in Provs
    BY <1>f, <1>g DEF Tells, Point, Pcs, Acted, Provs
  <2> QED BY <1>f, <1>g, <1>5, <2>1, <2>2, EmptySeq DEF Types
<1>2. StackKnown'
  BY <1>f, <1>g, PopKnows
<1>3. PointKnown'
  BY <1>g DEF PointKnown, Point
<1>4. TestsKnown'
  <2>1. Depth \in 1..Depth /\ stack[Depth] = Top
    BY <1>f DEF Tells, Top
  <2>2. ~sh'.tested
    BY <1>f, <2>1 DEF StackKnown, FramesStand
  <2>3. sh'.tested \in BOOLEAN
    BY <1>g DEF Fields
  <2> QED BY <2>2, <2>3 DEF TestsKnown, Acted
<1> QED BY <1>1, <1>2, <1>3, <1>4, <1>5 DEF IInv

LEMMA ShellEndsKeeps ==
  ASSUME IInv, at.pc = "finish", Top.kind = "input", Step(stack, "gone", at.ret),
         sh' = Fresh, prov' = Acted, Follows(Depth, "gone")
  PROVE  IInv'
<1>f. Types /\ StackKnown /\ Tells
  BY IInvTells DEF IInv
<1>g. stack' = stack /\ at' = Point("gone", at.ret) /\ mode' = mode
  BY DEF Step
<1>5. watch' = <<>>
  BY DEF Follows, Arrived
<1>1. Types'
  <2>1. at' \in [pc : Pcs, ret : Nat] /\ prov' \in Provs
    BY <1>f, <1>g DEF Tells, Point, Pcs, Acted, Provs
  <2>2. sh' \in Fields
    BY EmptySeq DEF Fields, Fresh, Flows
  <2> QED BY <1>f, <1>g, <1>5, <2>1, <2>2, EmptySeq DEF Types
<1>d. Depth = 1 /\ Depth' = 1
  <2>1. Depth' = Depth
    BY <1>g DEF Depth
  <2> QED BY <1>f, <2>1 DEF Tells
<1>2. StackKnown'
  <2>1. FramesStand'
    BY <1>f, <1>g, <1>d DEF StackKnown, FramesStand
  <2>2. InterruptsKnown'
    BY <1>f, <1>g, <1>d DEF StackKnown, InterruptsKnown
  <2>3. TrapsRemembered'
    <3>1. \A i \in 1..Depth' : stack'[i].kind = "input"
      BY <1>d, <2>1 DEF FramesStand
    <3> QED BY <3>1 DEF TrapsRemembered
  <2> QED BY <2>1, <2>2, <2>3 DEF StackKnown
<1>3. PointKnown'
  BY <1>g, <1>d DEF PointKnown, Point
<1>4. TestsKnown'
  BY DEF TestsKnown, Acted, Fresh
<1> QED BY <1>1, <1>2, <1>3, <1>4, <1>5 DEF IInv

LEMMA ProcessEndsKeeps ==
  ASSUME IInv, ProcessEnds
  PROVE  IInv'
  BY SubshellEndsKeeps, ShellEndsKeeps DEF ProcessEnds

LEMMA run_and_orKeeps ==
  ASSUME IInv, run_and_or
  PROVE  IInv'
<1>1. (Unwinding \/ ShortCircuits) \/ (~Unwinding /\ ~ShortCircuits)
  OBVIOUS
<1> QED BY <1>1, run_and_orPassesKeeps, run_and_orGoesOnKeeps

-----------------------------------------------------------------------------
(* The theorems *)

LEMMA Begins ==
  ASSUME Init
  PROVE  IInv
<1>1. /\ stack = <<Frame("input")>> /\ Frame("input") \in Frames
      /\ Frame("input").kind = "input"
  BY PlainFrame DEF Init, Kinds, Lists
<1>2. stack \in Seq(Frames) /\ Depth = 1 /\ stack[1] = Frame("input")
  BY <1>1 DEF Depth
<1>3. Types
  <2>1. sh \in Fields
    BY EmptySeq DEF Init, Fields, Fresh, Flows
  <2>2. at \in [pc : Pcs, ret : Nat] /\ prov \in Provs
    BY DEF Init, Point, Pcs, Acted, Provs
  <2>3. watch \in Seq(Unwinds)
          /\ mode \in [interactive : BOOLEAN, errexit : BOOLEAN, world : Worlds]
    BY EmptySeq DEF Init
  <2> QED BY <1>2, <2>1, <2>2, <2>3 DEF Types
<1>4. StackKnown
  <2>1. \A i \in 1..Depth : i = 1 /\ stack[i].kind = "input"
    BY <1>1, <1>2
  <2>2. FramesStand
    BY <1>2, <2>1 DEF FramesStand
  <2>3. InterruptsKnown /\ TrapsRemembered
    BY <2>1 DEF InterruptsKnown, TrapsRemembered
  <2> QED BY <2>2, <2>3 DEF StackKnown
<1>5. PointKnown /\ TestsKnown /\ watch = <<>>
  BY DEF Init, PointKnown, TestsKnown, Running, Point
<1> QED BY <1>3, <1>4, <1>5 DEF IInv

LEMMA StutterKeeps ==
  ASSUME IInv, UNCHANGED vars
  PROVE  IInv'
<1>1. /\ stack' = stack /\ sh' = sh /\ at' = at /\ mode' = mode /\ watch' = watch
      /\ prov' = prov /\ Depth' = Depth /\ Top' = Top
  BY DEF vars, Depth, Top
<1>2. Types' /\ PointKnown' /\ TestsKnown'
  BY <1>1 DEF IInv, Types, PointKnown, TestsKnown
<1>3. StackKnown'
  BY <1>1, StayKnows DEF IInv
<1>4. watch' # <<>> => UnderWay(watch[1])'
  BY <1>1 DEF IInv, UnderWay, OnItsWay, Stands, Brings, LevelsLeft, LoopsAbove, Above,
       loop_depth, Call, Highest, Goals, Barred
<1> QED BY <1>2, <1>3, <1>4 DEF IInv

LEMMA NextKeeps ==
  ASSUME IInv, [Next]_vars
  PROVE  IInv'
  BY SimpleCommandKeeps, SetTrapKeeps, ExitKeeps, ReturnKeeps, BreakKeeps,
     EnterConstructKeeps, EmptyConstructKeeps, EnterSubshellKeeps, EnterOperatorKeeps,
     run_negationKeeps, run_and_orKeeps, CommandDoneKeeps, TakeTrapKeeps,
     TakeInterruptKeeps, NoMoreSignalsKeeps, TrapDoneKeeps, ListUnwindsKeeps,
     ListFailsKeeps, ListGoesOnKeeps, UnitDoneKeeps, LeaveListKeeps, LeaveFunctionKeeps,
     LeaveDotKeeps, run_ifKeeps, LoopConditionKeeps, LoopBodyKeeps, LeaveItemKeeps,
     FallThroughKeeps, InputDoneKeeps, SubshellDoneKeeps, ReadInputKeeps,
     FinishSessionKeeps, RunExitTrapKeeps, ExitTrapDoneKeeps, ProcessEndsKeeps,
     StutterKeeps
  DEF Next

(* The invariant above holds of every run, however deep its constructs nest *)
(* and whichever a program is made of.                                      *)
THEOREM ExecutorInvariant == Spec => []IInv
<1>1. Init => IInv
  BY Begins
<1>2. IInv /\ [Next]_vars => IInv'
  BY NextKeeps
<1> QED BY <1>1, <1>2, PTL DEF Spec

(* Control goes where an unwind, or a status, sends it and nowhere else:    *)
(* `exit', `return', `break', `continue' and an interrupt reach their goals *)
(* with nothing run on the way, and `set -e' judges a status by where it    *)
(* arose (run_command_list, consume_loop_flow, try_run_function).           *)
THEOREM ControlKept == Spec => []ControlIsExact
<1>1. IInv => UnwindIsExact
  <2> SUFFICES ASSUME IInv, watch # <<>>
               PROVE  /\ at.pc \notin Running
                      /\ Depth > watch[1].goal => Unwinding
                      /\ (at.pc = "left" /\ Depth = watch[1].goal /\ watch[1].want # <<>>) =>
                            at.ret = watch[1].want[1]
    BY DEF UnwindIsExact
  <2>1. PICK w : w = watch[1]
    OBVIOUS
  <2>2. /\ w \in Unwinds /\ UnderWay(w)
        /\ at.pc \notin {"finish", "unit", "left"} => Unwinding
        /\ at.pc = "left" /\ Depth > 1 => Unwinding
    BY <2>1, UnwindTells
  <2>3. Depth \in Nat /\ w.goal \in 1..Depth
    BY <2>2, IInvTells DEF Tells, UnderWay, OnItsWay
  <2>4. ASSUME Depth > w.goal PROVE Unwinding
    <3>1. at.pc # "unit" /\ Depth > 1
      BY <2>3, <2>4 DEF IInv, PointKnown
    <3>2. at.pc # "finish"
      <4>1. Depth \in (w.goal + 1)..Depth
        BY <2>3, <2>4
      <4>2. Top.kind \notin Processes
        BY <2>2, <4>1 DEF UnderWay, OnItsWay, Barred, Top
      <4> QED BY <4>2 DEF IInv, PointKnown
    <3> QED BY <2>2, <3>1, <3>2
  <2> QED BY <2>1, <2>2, <2>4 DEF UnderWay, Brings
<1>2. IInv => ErrexitIsExact
  <2> SUFFICES ASSUME IInv, Judged, ~prov.blurred
               PROVE  errexit_fires <=> ~prov.tested
    BY DEF ErrexitIsExact
  <2>1. sh.tested = prov.tested
    BY DEF IInv, TestsKnown, Judged, Running
  <2> QED BY <2>1 DEF Judged, errexit_fires
<1> QED BY <1>1, <1>2, ExecutorInvariant, PTL DEF ControlIsExact

-----------------------------------------------------------------------------
(* Where an unwind ends *)

(* What a step leaves of an unwind it ends. *)
EndsClean ==
  Arrived(Depth', at'.pc) =>
    /\ (~sh'.exit /\ stack[watch[1].goal].kind # "subshell") => sh'.flow = "normal"
    /\ (watch[1].how = "continue" /\ Depth' < watch[1].goal) =>
          stack[watch[1].goal].kind \in {"subshell", "for"} \cup Conditions
Unwatched == at.pc \in Running \cup {"ready", "gone"}

LEMMA ArrivedTells ==
  ASSUME IInv, NEW d, NEW pc, Arrived(d, pc)
  PROVE  \E w \in Unwinds :
           /\ w = watch[1] /\ UnderWay(w) /\ Stands(w) /\ ~Unwatched
           /\ w.goal \in 1..Depth /\ Depth \in Nat
           /\ stack[w.goal].kind \in Goals(w.how)
           /\ stack[w.goal].kind \in Processes \cup {"function", "dot"} \cup Loops
           /\ w.how \in {"exit", "return", "break", "continue", "interrupt"}
           /\ at.pc \notin {"finish", "unit", "left"} => Unwinding
           /\ at.pc = "left" /\ Depth > 1 => Unwinding
           /\ d < w.goal \/ (d = w.goal /\ pc \in Running) \/ pc \in {"ready", "gone"}
<1>1. PICK w : w = watch[1]
  OBVIOUS
<1>2. watch # <<>> /\ (d < w.goal \/ (d = w.goal /\ pc \in Running) \/ pc \in {"ready", "gone"})
  BY <1>1 DEF Arrived
<1>3. /\ w \in Unwinds /\ UnderWay(w)
      /\ at.pc \notin {"finish", "unit", "left"} => Unwinding
      /\ at.pc = "left" /\ Depth > 1 => Unwinding
  BY <1>1, <1>2, UnwindTells
<1>4. /\ Stands(w) /\ ~Unwatched /\ w.goal \in 1..Depth /\ Depth \in Nat
      /\ stack[w.goal].kind \in Goals(w.how)
      /\ w.how \in {"exit", "return", "break", "continue", "interrupt"}
  BY <1>3, IInvTells DEF UnderWay, OnItsWay, Unwinds, Tells, Unwatched
<1>5. stack[w.goal].kind \in Processes \cup {"function", "dot"} \cup Loops
  BY <1>4 DEF Goals, Processes
<1> QED BY <1>1, <1>2, <1>3, <1>4, <1>5

(* Only an EXIT trap's own frame starts one. *)
LEMMA PopStarts ==
  ASSUME IInv, stack' = Popped
  PROVE  ~StartsExitTrap
<1>1. Depth' = Depth - 1 /\ Depth \in Nat
  BY PopTells, IInvTells DEF IInv, StackKnown, Tells
<1> QED BY <1>1 DEF StartsExitTrap, Depth

LEMMA BecomesStarts ==
  ASSUME IInv, NEW f \in Frames, stack' = Becomes(f)
  PROVE  ~StartsExitTrap /\ Depth' = Depth
<1>1. Depth' = Depth /\ Depth \in Nat
  BY BecomesTells, IInvTells DEF IInv, StackKnown, Tells
<1> QED BY <1>1 DEF StartsExitTrap, Depth

LEMMA PushStarts ==
  ASSUME IInv, NEW f, Pushes(f), f.kind # "exit_trap"
  PROVE  ~StartsExitTrap
<1>1. stack'[Len(stack) + 1] = f
  <2>1. stack \in Seq(Frames) /\ Len(stack) \in Nat
    BY IInvTells, LenProperties DEF IInv, Types
  <2> QED BY <2>1 DEF Pushes
<1> QED BY <1>1 DEF StartsExitTrap, Depth

LEMMA StayStarts ==
  ASSUME IInv, stack' = stack
  PROVE  ~StartsExitTrap /\ Depth' = Depth
<1>1. Depth' = Depth /\ Depth \in Nat
  BY IInvTells DEF Depth, Tells
<1> QED BY <1>1 DEF StartsExitTrap, Depth

LEMMA StayEnds ==
  ASSUME IInv, stack' = stack, at'.pc \notin Running \cup {"ready", "gone"} \/ Unwatched
  PROVE  EndsClean /\ ~StartsExitTrap
<1>1. Depth' = Depth /\ Depth \in Nat
  BY IInvTells DEF Depth, Tells
<1>2. ~Arrived(Depth', at'.pc)
  <2>1. ASSUME Arrived(Depth', at'.pc) PROVE FALSE
    BY <1>1, <2>1, ArrivedTells
  <2> QED BY <2>1
<1> QED BY <1>1, <1>2 DEF EndsClean, StartsExitTrap, Depth

LEMMA BeginEnds ==
  ASSUME IInv, Unwatched
  PROVE  EndsClean
<1>1. watch = <<>>
  BY StartsUnwatched DEF Unwatched
<1> QED BY <1>1 DEF EndsClean, Arrived

LEMMA PopEnds ==
  ASSUME IInv, stack' = Popped, at'.pc \notin {"ready", "gone"},
         Top.kind \notin Processes \cup {"function", "dot"} \cup Loops,
         at'.pc \notin Running \/ (at.pc = "back" /\ ~Unwinding)
  PROVE  EndsClean /\ ~StartsExitTrap
<1>1. Depth' = Depth - 1 /\ Depth \in Nat
  BY PopTells, IInvTells DEF IInv, StackKnown, Tells
<1>2. ~Arrived(Depth', at'.pc)
  <2>1. ASSUME Arrived(Depth', at'.pc) PROVE FALSE
    <3>1. PICK w \in Unwinds :
             /\ w.goal \in 1..Depth
             /\ stack[w.goal].kind \in Processes \cup {"function", "dot"} \cup Loops
             /\ at.pc \notin {"finish", "unit", "left"} => Unwinding
             /\ Depth' < w.goal \/ (Depth' = w.goal /\ at'.pc \in Running)
                  \/ at'.pc \in {"ready", "gone"}
      BY <2>1, ArrivedTells
    <3>2. at'.pc \notin Running
      BY <3>1
    <3>3. w.goal = Depth
      BY <1>1, <3>1, <3>2
    <3> QED BY <3>1, <3>3 DEF Top
  <2> QED BY <2>1
<1> QED BY <1>2, PopStarts DEF EndsClean

LEMMA SimpleCommandEnds ==
  ASSUME IInv, SimpleCommand
  PROVE  EndsClean /\ ~StartsExitTrap
<1>1. stack' = stack /\ Unwatched
  BY DEF SimpleCommand, Step, Unwatched, Running
<1> QED BY <1>1, StayEnds

LEMMA SetTrapEnds ==
  ASSUME IInv, SetTrap
  PROVE  EndsClean /\ ~StartsExitTrap
<1>1. stack' = stack /\ Unwatched
  BY DEF SetTrap, Step, Unwatched, Running
<1> QED BY <1>1, StayEnds

LEMMA ExitEnds ==
  ASSUME IInv, Exit
  PROVE  EndsClean /\ ~StartsExitTrap
<1>1. stack' = stack /\ Unwatched
  BY DEF Exit, Step, Unwatched, Running, Offers
<1> QED BY <1>1, StayEnds

LEMMA ReturnEnds ==
  ASSUME IInv, Return
  PROVE  EndsClean /\ ~StartsExitTrap
<1>1. stack' = stack /\ Unwatched
  BY DEF Return, Step, Unwatched, Running, Offers
<1> QED BY <1>1, StayEnds

LEMMA BreakEnds ==
  ASSUME IInv, Break
  PROVE  EndsClean /\ ~StartsExitTrap
<1>1. stack' = stack /\ Unwatched
  BY DEF Break, Step, Unwatched, Running, Offers
<1> QED BY <1>1, StayEnds

LEMMA EmptyConstructEnds ==
  ASSUME IInv, EmptyConstruct
  PROVE  EndsClean /\ ~StartsExitTrap
<1>1. stack' = stack /\ Unwatched
  BY DEF EmptyConstruct, Step, Unwatched, Running
<1> QED BY <1>1, StayEnds

LEMMA ReadInputEnds ==
  ASSUME IInv, ReadInput
  PROVE  EndsClean /\ ~StartsExitTrap
<1>1. stack' = stack /\ Unwatched
  BY DEF ReadInput, Step, Unwatched, Running
<1> QED BY <1>1, StayEnds

LEMMA FinishSessionEnds ==
  ASSUME IInv, FinishSession
  PROVE  EndsClean /\ ~StartsExitTrap
<1>1. stack' = stack /\ Unwatched
  BY DEF FinishSession, Step, Unwatched, Running
<1> QED BY <1>1, StayEnds

LEMMA EnterConstructEnds ==
  ASSUME IInv, EnterConstruct
  PROVE  EndsClean /\ ~StartsExitTrap
<1>1. Unwatched
  BY DEF EnterConstruct, Unwatched, Running
<1>2. PICK kind \in {"brace", "function", "eval", "dot", "if", "while", "until", "for", "case"}
        : Pushes(Frame(kind))
  BY DEF EnterConstruct, Enters, Step, Pushes
<1>3. Frame(kind).kind # "exit_trap"
  BY DEF Frame
<1> QED BY <1>1, <1>2, <1>3, BeginEnds, PushStarts

LEMMA EnterOperatorEnds ==
  ASSUME IInv, EnterOperator
  PROVE  EndsClean /\ ~StartsExitTrap
<1>1. Unwatched
  BY DEF EnterOperator, Unwatched, Running
<1>2. PICK kind \in {"and", "or", "not"} : Pushes(Frame(kind))
  BY DEF EnterOperator, Enters, Step, Pushes
<1>3. Frame(kind).kind # "exit_trap"
  BY DEF Frame
<1> QED BY <1>1, <1>2, <1>3, BeginEnds, PushStarts

LEMMA EnterSubshellEnds ==
  ASSUME IInv, EnterSubshell
  PROVE  EndsClean /\ ~StartsExitTrap
<1>1. Unwatched
  BY DEF EnterSubshell, Offers, Unwatched, Running
<1>2. PICK f : Pushes(f) /\ f.kind = "subshell"
  BY DEF EnterSubshell, Enters, Step, Pushes, Frame
<1> QED BY <1>1, <1>2, BeginEnds, PushStarts

LEMMA CommandDoneEnds ==
  ASSUME IInv, CommandDone
  PROVE  EndsClean /\ ~StartsExitTrap
<1>1. stack' = stack /\ at'.pc \notin Running \cup {"ready", "gone"}
  BY DEF CommandDone, Step, Point, Running
<1> QED BY <1>1, StayEnds

LEMMA TakeInterruptEnds ==
  ASSUME IInv, TakeInterrupt
  PROVE  EndsClean /\ ~StartsExitTrap
<1>1. stack' = stack /\ at'.pc \notin Running \cup {"ready", "gone"}
  BY DEF TakeInterrupt, Step, Point, Running
<1> QED BY <1>1, StayEnds

LEMMA NoMoreSignalsEnds ==
  ASSUME IInv, NoMoreSignals
  PROVE  EndsClean /\ ~StartsExitTrap
<1>1. stack' = stack /\ at'.pc \notin Running \cup {"ready", "gone"}
  BY DEF NoMoreSignals, Step, Point, Running
<1> QED BY <1>1, StayEnds

LEMMA ListUnwindsEnds ==
  ASSUME IInv, ListUnwinds
  PROVE  EndsClean /\ ~StartsExitTrap
<1>1. stack' = stack /\ at'.pc \notin Running \cup {"ready", "gone"}
  BY DEF ListUnwinds, Step, Point, Running, Stops
<1> QED BY <1>1, StayEnds

LEMMA ListFailsEnds ==
  ASSUME IInv, ListFails
  PROVE  EndsClean /\ ~StartsExitTrap
<1>1. stack' = stack /\ at'.pc \notin Running \cup {"ready", "gone"}
  BY DEF ListFails, Step, Point, Running, Stops
<1> QED BY <1>1, StayEnds

LEMMA SubshellDoneEnds ==
  ASSUME IInv, SubshellDone
  PROVE  EndsClean /\ ~StartsExitTrap
<1>1. stack' = stack /\ at'.pc \notin Running \cup {"ready", "gone"}
  BY DEF SubshellDone, Step, Point, Running
<1> QED BY <1>1, StayEnds

LEMMA TakeTrapEnds ==
  ASSUME IInv, TakeTrap
  PROVE  EndsClean /\ ~StartsExitTrap
<1> DEFINE o == [Fresh EXCEPT !.last = sh.last, !.entry = sh.entry]
           g == [Frame("trap") EXCEPT !.keep = IF at.pc = "caught" THEN Interrupted ELSE 0,
                                      !.outer = <<o>>, !.prov = prov]
<1>g. Pushes(g) /\ g.kind = "trap"
  BY DEF TakeTrap, Step, Pushes, Frame
<1> HIDE DEF g
<1>1. PICK f : Pushes(f) /\ f.kind = "trap"
  BY <1>g
<1>2. Depth' = Depth + 1 /\ Depth \in Nat /\ at'.pc = "node"
  <2>1. stack \in Seq(Frames) /\ Depth \in Nat
    BY IInvTells DEF IInv, Types, Tells
  <2>2. Len(stack') = Len(stack) + 1
    BY <1>1, <2>1 DEF Pushes
  <2> QED BY <2>1, <2>2 DEF Depth, TakeTrap, Step, Point
<1>3. ~Arrived(Depth', at'.pc)
  <2>1. ASSUME Arrived(Depth', at'.pc) PROVE FALSE
    BY <1>2, <2>1, ArrivedTells
  <2> QED BY <2>1
<1> QED BY <1>1, <1>3, PushStarts DEF EndsClean

LEMMA RunExitTrapEnds ==
  ASSUME IInv, RunExitTrap
  PROVE  EndsClean /\ (Top.kind = "input" /\ (watch # <<>> \/ ~Unwinding) =>
                         sh'.flow = "normal" /\ ~sh'.exit)
<1>1. Tells /\ sh \in Fields
  BY IInvTells DEF Tells
<1>2. Depth' = Depth + 1 /\ Depth \in Nat /\ at'.pc = "node"
  <2>1. stack \in Seq(Frames) /\ Depth \in Nat
    BY <1>1 DEF IInv, Types, Tells
  <2>2. Len(stack') = Len(stack) + 1
    BY <2>1 DEF RunExitTrap, Step
  <2> QED BY <2>1, <2>2 DEF Depth, RunExitTrap, Step, Point
<1>3. ~Arrived(Depth', at'.pc)
  <2>1. ASSUME Arrived(Depth', at'.pc) PROVE FALSE
    BY <1>2, <2>1, ArrivedTells
  <2> QED BY <2>1
<1>4. sh'.flow = sh.flow /\ sh'.exit = FALSE /\ ~sh.trap_ran /\ at.pc = "finish"
  BY <1>1 DEF RunExitTrap, Fields
<1>5. ASSUME Top.kind = "input", watch # <<>> PROVE sh.flow = "normal"
  <2>1. UnderWay(watch[1]) /\ Depth = 1
    BY <1>1, <1>5 DEF IInv, Tells
  <2> QED BY <1>4, <2>1 DEF UnderWay, Stands
<1>6. ASSUME ~Unwinding PROVE sh.flow = "normal"
  BY <1>6 DEF Unwinding
<1> QED BY <1>3, <1>4, <1>5, <1>6 DEF EndsClean

LEMMA ListGoesOnEnds ==
  ASSUME IInv, ListGoesOn
  PROVE  EndsClean /\ ~StartsExitTrap
<1>a. stack' = stack /\ Depth' = Depth /\ ~StartsExitTrap
  <2>1. stack' = stack
    BY DEF ListGoesOn, Stops, Step
  <2> QED BY <2>1, StayStarts
<1>b. ASSUME Arrived(Depth', at'.pc)
      PROVE  /\ (~sh'.exit /\ stack[watch[1].goal].kind # "subshell") => sh'.flow = "normal"
             /\ (watch[1].how = "continue" /\ Depth' < watch[1].goal) =>
                   stack[watch[1].goal].kind \in {"subshell", "for"} \cup Conditions
  <2>1. PICK w \in Unwinds :
           /\ w = watch[1] /\ UnderWay(w) /\ Stands(w) /\ ~Unwatched
           /\ w.goal \in 1..Depth /\ Depth \in Nat
           /\ stack[w.goal].kind \in Goals(w.how)
           /\ stack[w.goal].kind \in Processes \cup {"function", "dot"} \cup Loops
           /\ w.how \in {"exit", "return", "break", "continue", "interrupt"}
           /\ at.pc \notin {"finish", "unit", "left"} => Unwinding
           /\ at.pc = "left" /\ Depth > 1 => Unwinding
           /\ Depth' < w.goal \/ (Depth' = w.goal /\ at'.pc \in Running)
                \/ at'.pc \in {"ready", "gone"}
    BY <1>b, ArrivedTells
  <2> QED BY <2>1 DEF ListGoesOn
<1> QED BY <1>a, <1>b DEF EndsClean

LEMMA FallThroughEnds ==
  ASSUME IInv, FallThrough
  PROVE  EndsClean /\ ~StartsExitTrap
<1>a. stack' = stack /\ Depth' = Depth /\ ~StartsExitTrap
  <2>1. stack' = stack
    BY DEF FallThrough, Step
  <2> QED BY <2>1, StayStarts
<1>b. ASSUME Arrived(Depth', at'.pc)
      PROVE  /\ (~sh'.exit /\ stack[watch[1].goal].kind # "subshell") => sh'.flow = "normal"
             /\ (watch[1].how = "continue" /\ Depth' < watch[1].goal) =>
                   stack[watch[1].goal].kind \in {"subshell", "for"} \cup Conditions
  <2>1. PICK w \in Unwinds :
           /\ w = watch[1] /\ UnderWay(w) /\ Stands(w) /\ ~Unwatched
           /\ w.goal \in 1..Depth /\ Depth \in Nat
           /\ stack[w.goal].kind \in Goals(w.how)
           /\ stack[w.goal].kind \in Processes \cup {"function", "dot"} \cup Loops
           /\ w.how \in {"exit", "return", "break", "continue", "interrupt"}
           /\ at.pc \notin {"finish", "unit", "left"} => Unwinding
           /\ at.pc = "left" /\ Depth > 1 => Unwinding
           /\ Depth' < w.goal \/ (Depth' = w.goal /\ at'.pc \in Running)
                \/ at'.pc \in {"ready", "gone"}
    BY <1>b, ArrivedTells
  <2>2. at'.pc \in {"node", "left"} /\ Top.kind = "case"
    BY DEF FallThrough, Left, Step, Point
  <2>3. w.goal = Depth
    BY <1>a, <2>1, <2>2
  <2> QED BY <2>1, <2>2, <2>3 DEF Top, Processes, Loops
<1> QED BY <1>a, <1>b DEF EndsClean

LEMMA UnitDoneEnds ==
  ASSUME IInv, UnitDone
  PROVE  EndsClean /\ ~StartsExitTrap
<1>a. stack' = stack /\ Depth' = Depth /\ ~StartsExitTrap
  <2>1. stack' = stack
    BY DEF UnitDone, Step
  <2> QED BY <2>1, StayStarts
<1>b. ASSUME Arrived(Depth', at'.pc)
      PROVE  /\ (~sh'.exit /\ stack[watch[1].goal].kind # "subshell") => sh'.flow = "normal"
             /\ (watch[1].how = "continue" /\ Depth' < watch[1].goal) =>
                   stack[watch[1].goal].kind \in {"subshell", "for"} \cup Conditions
  <2>1. PICK w \in Unwinds :
           /\ w = watch[1] /\ UnderWay(w) /\ Stands(w) /\ ~Unwatched
           /\ w.goal \in 1..Depth /\ Depth \in Nat
           /\ stack[w.goal].kind \in Goals(w.how)
           /\ stack[w.goal].kind \in Processes \cup {"function", "dot"} \cup Loops
           /\ w.how \in {"exit", "return", "break", "continue", "interrupt"}
           /\ at.pc \notin {"finish", "unit", "left"} => Unwinding
           /\ at.pc = "left" /\ Depth > 1 => Unwinding
           /\ Depth' < w.goal \/ (Depth' = w.goal /\ at'.pc \in Running)
                \/ at'.pc \in {"ready", "gone"}
    BY <1>b, ArrivedTells
  <2>2. Depth = 1 /\ stack[w.goal].kind = "input" /\ w.goal = 1 /\ ~(Depth' < w.goal)
    <3>1. Depth = 1 /\ Top.kind = "input"
      BY IInvTells DEF UnitDone, IInv, PointKnown, Tells, Left
    <3> QED BY <1>a, <2>1, <3>1 DEF Top
  <2>3. w.how \in {"exit", "return", "interrupt"}
    BY <2>1, <2>2 DEF Goals, Loops
  <2>4. sh \in Fields
    BY IInvTells DEF Tells
  <2>5. ~sh.exit /\ ~sh.ended /\ at.pc = "unit"
    <3>1. at'.pc \in {"left", "node"} /\ (at'.pc = "node" => ~sh.exit /\ ~sh.ended)
      BY DEF UnitDone, Step, Point
    <3>2. at'.pc = "node"
      BY <2>1, <2>2, <3>1 DEF Running
    <3> QED BY <3>1, <3>2 DEF UnitDone
  <2>6. w.how = "interrupt" /\ sh.flow = "interrupted"
    BY <2>1, <2>2, <2>3, <2>5 DEF Stands
  <2>7. sh'.flow = "normal"
    BY <2>4, <2>6 DEF UnitDone, Fields
  <2> QED BY <2>1, <2>2, <2>7
<1> QED BY <1>a, <1>b DEF EndsClean

LEMMA InputDoneEnds ==
  ASSUME IInv, InputDone
  PROVE  EndsClean /\ ~StartsExitTrap
<1>a. stack' = stack /\ Depth' = Depth /\ ~StartsExitTrap
  <2>1. stack' = stack
    BY DEF InputDone, Step
  <2> QED BY <2>1, StayStarts
<1>b. ASSUME Arrived(Depth', at'.pc)
      PROVE  /\ (~sh'.exit /\ stack[watch[1].goal].kind # "subshell") => sh'.flow = "normal"
             /\ (watch[1].how = "continue" /\ Depth' < watch[1].goal) =>
                   stack[watch[1].goal].kind \in {"subshell", "for"} \cup Conditions
  <2>1. PICK w \in Unwinds :
           /\ w = watch[1] /\ UnderWay(w) /\ Stands(w) /\ ~Unwatched
           /\ w.goal \in 1..Depth /\ Depth \in Nat
           /\ stack[w.goal].kind \in Goals(w.how)
           /\ stack[w.goal].kind \in Processes \cup {"function", "dot"} \cup Loops
           /\ w.how \in {"exit", "return", "break", "continue", "interrupt"}
           /\ at.pc \notin {"finish", "unit", "left"} => Unwinding
           /\ at.pc = "left" /\ Depth > 1 => Unwinding
           /\ Depth' < w.goal \/ (Depth' = w.goal /\ at'.pc \in Running)
                \/ at'.pc \in {"ready", "gone"}
    BY <1>b, ArrivedTells
  <2>2. Depth = 1 /\ stack[w.goal].kind = "input" /\ w.goal = 1 /\ ~(Depth' < w.goal)
    <3>1. Depth = 1 /\ Top.kind = "input"
      BY IInvTells DEF InputDone, IInv, PointKnown, Tells, Left
    <3> QED BY <1>a, <2>1, <3>1 DEF Top
  <2>3. w.how \in {"exit", "return", "interrupt"}
    BY <2>1, <2>2 DEF Goals, Loops
  <2>4. sh \in Fields
    BY IInvTells DEF Tells
  <2>5. sh' = sh /\ at.pc = "left"
    BY DEF InputDone, Left
  <2>6. sh.flow = "normal"
    BY <2>1, <2>2, <2>3, <2>5 DEF Stands
  <2> QED BY <2>1, <2>2, <2>5, <2>6
<1> QED BY <1>a, <1>b DEF EndsClean

LEMMA run_negationEnds ==
  ASSUME IInv, run_negation
  PROVE  EndsClean /\ ~StartsExitTrap
<1>1. /\ stack' = Popped /\ at'.pc \notin Running \cup {"ready", "gone"}
      /\ Top.kind \in {"not", "brace", "eval", "case", "trap", "exit_trap"}
  BY DEF run_negation, Step, Point, Running, Returns, Back
<1>2. Top.kind \notin Processes \cup {"function", "dot"} \cup Loops
  BY <1>1 DEF Processes, Loops
<1> QED BY <1>1, <1>2, PopEnds

LEMMA LeaveListEnds ==
  ASSUME IInv, LeaveList
  PROVE  EndsClean /\ ~StartsExitTrap
<1>1. /\ stack' = Popped /\ at'.pc \notin Running \cup {"ready", "gone"}
      /\ Top.kind \in {"not", "brace", "eval", "case", "trap", "exit_trap"}
  BY DEF LeaveList, Step, Point, Running, Returns, Left
<1>2. Top.kind \notin Processes \cup {"function", "dot"} \cup Loops
  BY <1>1 DEF Processes, Loops
<1> QED BY <1>1, <1>2, PopEnds

LEMMA LeaveItemEnds ==
  ASSUME IInv, LeaveItem
  PROVE  EndsClean /\ ~StartsExitTrap
<1>1. /\ stack' = Popped /\ at'.pc \notin Running \cup {"ready", "gone"}
      /\ Top.kind \in {"not", "brace", "eval", "case", "trap", "exit_trap"}
  BY DEF LeaveItem, Step, Point, Running, Returns, Left
<1>2. Top.kind \notin Processes \cup {"function", "dot"} \cup Loops
  BY <1>1 DEF Processes, Loops
<1> QED BY <1>1, <1>2, PopEnds

LEMMA TrapDoneEnds ==
  ASSUME IInv, TrapDone
  PROVE  EndsClean /\ ~StartsExitTrap
<1>1. /\ stack' = Popped /\ at'.pc \notin Running \cup {"ready", "gone"}
      /\ Top.kind \in {"not", "brace", "eval", "case", "trap", "exit_trap"}
  BY DEF TrapDone, Step, Point, Running
<1>2. Top.kind \notin Processes \cup {"function", "dot"} \cup Loops
  BY <1>1 DEF Processes, Loops
<1> QED BY <1>1, <1>2, PopEnds

LEMMA ExitTrapDoneEnds ==
  ASSUME IInv, ExitTrapDone
  PROVE  EndsClean /\ ~StartsExitTrap
<1>1. /\ stack' = Popped /\ at'.pc \notin Running \cup {"ready", "gone"}
      /\ Top.kind \in {"not", "brace", "eval", "case", "trap", "exit_trap"}
  BY DEF ExitTrapDone, Step, Point, Running, Left
<1>2. Top.kind \notin Processes \cup {"function", "dot"} \cup Loops
  BY <1>1 DEF Processes, Loops
<1> QED BY <1>1, <1>2, PopEnds

LEMMA run_and_orEnds ==
  ASSUME IInv, run_and_or
  PROVE  EndsClean /\ ~StartsExitTrap
<1>1. /\ stack' = Popped /\ at'.pc \in {"back", "operand"}
      /\ at'.pc = "operand" => at.pc = "back" /\ ~Unwinding
      /\ Top.kind \in {"and", "or"}
  BY DEF run_and_or, Returns, Back, Step, Point
<1>2. Top.kind \notin Processes \cup {"function", "dot"} \cup Loops
  BY <1>1 DEF Processes, Loops
<1>3. at'.pc \notin Running \/ (at.pc = "back" /\ ~Unwinding)
  BY <1>1 DEF Running
<1> QED BY <1>1, <1>2, <1>3, PopEnds

LEMMA LeaveFunctionEnds ==
  ASSUME IInv, LeaveFunction
  PROVE  EndsClean /\ ~StartsExitTrap
<1>f. Types /\ StackKnown /\ Tells
  BY IInvTells DEF IInv
<1>a. stack' = Popped /\ Depth' = Depth - 1 /\ Depth \in Nat /\ ~StartsExitTrap
  <2>1. stack' = Popped
    BY DEF LeaveFunction, Returns, Step
  <2> QED BY <1>f, <2>1, PopStarts, PopTells DEF StackKnown, Tells
<1>b. ASSUME Arrived(Depth', at'.pc)
      PROVE  /\ (~sh'.exit /\ stack[watch[1].goal].kind # "subshell") => sh'.flow = "normal"
             /\ (watch[1].how = "continue" /\ Depth' < watch[1].goal) =>
                   stack[watch[1].goal].kind \in {"subshell", "for"} \cup Conditions
  <2>1. PICK w \in Unwinds :
           /\ w = watch[1] /\ UnderWay(w) /\ Stands(w) /\ ~Unwatched
           /\ w.goal \in 1..Depth /\ Depth \in Nat
           /\ stack[w.goal].kind \in Goals(w.how)
           /\ stack[w.goal].kind \in Processes \cup {"function", "dot"} \cup Loops
           /\ w.how \in {"exit", "return", "break", "continue", "interrupt"}
           /\ at.pc \notin {"finish", "unit", "left"} => Unwinding
           /\ at.pc = "left" /\ Depth > 1 => Unwinding
           /\ Depth' < w.goal \/ (Depth' = w.goal /\ at'.pc \in Running)
                \/ at'.pc \in {"ready", "gone"}
    BY <1>b, ArrivedTells
  <2>2. at'.pc = "back"
    BY DEF Point, LeaveFunction, Returns, Step
  <2>3. w.goal = Depth /\ stack[w.goal] = Top
    BY <1>a, <2>1, <2>2 DEF Running, Top
  <2>4. w.how = "return" /\ Top.kind = "function"
    BY <2>1, <2>3 DEF LeaveFunction, Left, Goals, Processes, Loops
  <2>5. sh.flow # "interrupted"
    BY <2>1, <2>4 DEF Stands, LeaveFunction, Left
  <2>6. sh'.flow = "normal"
    BY <1>f, <2>5 DEF LeaveFunction, Tells, Fields
  <2> QED BY <2>1, <2>4, <2>6
<1> QED BY <1>a, <1>b DEF EndsClean

LEMMA LeaveDotEnds ==
  ASSUME IInv, LeaveDot
  PROVE  EndsClean /\ ~StartsExitTrap
<1>f. Types /\ StackKnown /\ Tells
  BY IInvTells DEF IInv
<1>a. stack' = Popped /\ Depth' = Depth - 1 /\ Depth \in Nat /\ ~StartsExitTrap
  <2>1. stack' = Popped
    BY DEF LeaveDot, Returns, Step
  <2> QED BY <1>f, <2>1, PopStarts, PopTells DEF StackKnown, Tells
<1>b. ASSUME Arrived(Depth', at'.pc)
      PROVE  /\ (~sh'.exit /\ stack[watch[1].goal].kind # "subshell") => sh'.flow = "normal"
             /\ (watch[1].how = "continue" /\ Depth' < watch[1].goal) =>
                   stack[watch[1].goal].kind \in {"subshell", "for"} \cup Conditions
  <2>1. PICK w \in Unwinds :
           /\ w = watch[1] /\ UnderWay(w) /\ Stands(w) /\ ~Unwatched
           /\ w.goal \in 1..Depth /\ Depth \in Nat
           /\ stack[w.goal].kind \in Goals(w.how)
           /\ stack[w.goal].kind \in Processes \cup {"function", "dot"} \cup Loops
           /\ w.how \in {"exit", "return", "break", "continue", "interrupt"}
           /\ at.pc \notin {"finish", "unit", "left"} => Unwinding
           /\ at.pc = "left" /\ Depth > 1 => Unwinding
           /\ Depth' < w.goal \/ (Depth' = w.goal /\ at'.pc \in Running)
                \/ at'.pc \in {"ready", "gone"}
    BY <1>b, ArrivedTells
  <2>2. at'.pc = "back"
    BY DEF Point, LeaveDot, Returns, Step
  <2>3. w.goal = Depth /\ stack[w.goal] = Top
    BY <1>a, <2>1, <2>2 DEF Running, Top
  <2>4. w.how = "return" /\ Top.kind = "dot"
    BY <2>1, <2>3 DEF LeaveDot, Left, Goals, Processes, Loops
  <2>5. sh.flow \in {"return", "normal"}
    BY <2>1, <2>4 DEF Stands, LeaveDot, Left
  <2>6. sh'.flow = "normal"
    BY <1>f, <2>5 DEF LeaveDot, Tells, Fields
  <2> QED BY <2>1, <2>4, <2>6
<1> QED BY <1>a, <1>b DEF EndsClean

LEMMA LoopConditionReturnsEnds ==
  ASSUME IInv, Left(Conditions), Returns(Top.keep), Takes
  PROVE  EndsClean /\ ~StartsExitTrap
<1>f. Types /\ StackKnown /\ Tells
  BY IInvTells DEF IInv
<1>a. stack' = Popped /\ Depth' = Depth - 1 /\ Depth \in Nat /\ ~StartsExitTrap
  <2>1. stack' = Popped
    BY DEF Returns, Step
  <2> QED BY <1>f, <2>1, PopStarts, PopTells DEF StackKnown, Tells
<1>b. ASSUME Arrived(Depth', at'.pc)
      PROVE  /\ (~sh'.exit /\ stack[watch[1].goal].kind # "subshell") => sh'.flow = "normal"
             /\ (watch[1].how = "continue" /\ Depth' < watch[1].goal) =>
                   stack[watch[1].goal].kind \in {"subshell", "for"} \cup Conditions
  <2>1. PICK w \in Unwinds :
           /\ w = watch[1] /\ UnderWay(w) /\ Stands(w) /\ ~Unwatched
           /\ w.goal \in 1..Depth /\ Depth \in Nat
           /\ stack[w.goal].kind \in Goals(w.how)
           /\ stack[w.goal].kind \in Processes \cup {"function", "dot"} \cup Loops
           /\ w.how \in {"exit", "return", "break", "continue", "interrupt"}
           /\ at.pc \notin {"finish", "unit", "left"} => Unwinding
           /\ at.pc = "left" /\ Depth > 1 => Unwinding
           /\ Depth' < w.goal \/ (Depth' = w.goal /\ at'.pc \in Running)
                \/ at'.pc \in {"ready", "gone"}
    BY <1>b, ArrivedTells
  <2>2. at'.pc = "back"
    BY DEF Point, Returns, Step
  <2>3. w.goal = Depth /\ stack[w.goal] = Top
    BY <1>a, <2>1, <2>2 DEF Running, Top
  <2>4. w.how \in {"break", "continue"}
    BY <2>1, <2>3 DEF Left, Goals, Processes, Loops, Conditions
  <2>5. ~sh.exit /\ sh.flow = w.how /\ LevelsLeft(Depth)
    BY <2>1, <2>3, <2>4 DEF Stands, Left
  <2>6. Lasts
    BY <1>f, <2>5, LevelsEnd DEF Left, Loops, Conditions
  <2>7. sh'.flow = "normal"
    BY <1>f, <2>4, <2>5, <2>6 DEF Takes, consume_loop_flow, Breaks, Tells, Fields
  <2> QED BY <2>1, <2>3, <2>7 DEF Left
<1> QED BY <1>a, <1>b DEF EndsClean

LEMMA LoopBodyReturnsEnds ==
  ASSUME IInv, Left({"while_do", "until_do", "for"}), Returns(at.ret), Takes,
         LoopStops \/ Top.kind = "for"
  PROVE  EndsClean /\ ~StartsExitTrap
<1>f. Types /\ StackKnown /\ Tells
  BY IInvTells DEF IInv
<1>a. stack' = Popped /\ Depth' = Depth - 1 /\ Depth \in Nat /\ ~StartsExitTrap
  <2>1. stack' = Popped
    BY DEF Returns, Step
  <2> QED BY <1>f, <2>1, PopStarts, PopTells DEF StackKnown, Tells
<1>b. ASSUME Arrived(Depth', at'.pc)
      PROVE  /\ (~sh'.exit /\ stack[watch[1].goal].kind # "subshell") => sh'.flow = "normal"
             /\ (watch[1].how = "continue" /\ Depth' < watch[1].goal) =>
                   stack[watch[1].goal].kind \in {"subshell", "for"} \cup Conditions
  <2>1. PICK w \in Unwinds :
           /\ w = watch[1] /\ UnderWay(w) /\ Stands(w) /\ ~Unwatched
           /\ w.goal \in 1..Depth /\ Depth \in Nat
           /\ stack[w.goal].kind \in Goals(w.how)
           /\ stack[w.goal].kind \in Processes \cup {"function", "dot"} \cup Loops
           /\ w.how \in {"exit", "return", "break", "continue", "interrupt"}
           /\ at.pc \notin {"finish", "unit", "left"} => Unwinding
           /\ at.pc = "left" /\ Depth > 1 => Unwinding
           /\ Depth' < w.goal \/ (Depth' = w.goal /\ at'.pc \in Running)
                \/ at'.pc \in {"ready", "gone"}
    BY <1>b, ArrivedTells
  <2>2. at'.pc = "back"
    BY DEF Point, Returns, Step
  <2>3. w.goal = Depth /\ stack[w.goal] = Top
    BY <1>a, <2>1, <2>2 DEF Running, Top
  <2>4. w.how \in {"break", "continue"}
    BY <2>1, <2>3 DEF Left, Goals, Processes, Loops, Conditions
  <2>5. ~sh.exit /\ sh.flow = w.how /\ LevelsLeft(Depth)
    BY <2>1, <2>3, <2>4 DEF Stands, Left
  <2>6. Lasts
    BY <1>f, <2>5, LevelsEnd DEF Left, Loops, Conditions
  <2>7. sh'.flow = "normal"
    BY <1>f, <2>4, <2>5, <2>6 DEF Takes, consume_loop_flow, Breaks, Tells, Fields
  <2>8. w.how = "continue" => Top.kind = "for"
    BY <2>5, <2>6 DEF LoopStops
  <2> QED BY <2>1, <2>3, <2>7, <2>8
<1> QED BY <1>a, <1>b DEF EndsClean

LEMMA run_ifContinuesEnds ==
  ASSUME IInv, Left({"if"}), NEW f \in Frames, Continues(f)
  PROVE  EndsClean /\ ~StartsExitTrap
<1>f. Types /\ StackKnown /\ Tells
  BY IInvTells DEF IInv
<1>a. stack' = Becomes(f) /\ Depth' = Depth /\ Depth \in Nat /\ ~StartsExitTrap
  BY <1>f, BecomesStarts DEF Tells, Continues, Step
<1>b. ASSUME Arrived(Depth', at'.pc)
      PROVE  /\ (~sh'.exit /\ stack[watch[1].goal].kind # "subshell") => sh'.flow = "normal"
             /\ (watch[1].how = "continue" /\ Depth' < watch[1].goal) =>
                   stack[watch[1].goal].kind \in {"subshell", "for"} \cup Conditions
  <2>1. PICK w \in Unwinds :
           /\ w = watch[1] /\ UnderWay(w) /\ Stands(w) /\ ~Unwatched
           /\ w.goal \in 1..Depth /\ Depth \in Nat
           /\ stack[w.goal].kind \in Goals(w.how)
           /\ stack[w.goal].kind \in Processes \cup {"function", "dot"} \cup Loops
           /\ w.how \in {"exit", "return", "break", "continue", "interrupt"}
           /\ at.pc \notin {"finish", "unit", "left"} => Unwinding
           /\ at.pc = "left" /\ Depth > 1 => Unwinding
           /\ Depth' < w.goal \/ (Depth' = w.goal /\ at'.pc \in Running)
                \/ at'.pc \in {"ready", "gone"}
    BY <1>b, ArrivedTells
  <2>2. at'.pc = "node"
    BY DEF Point, Continues, Step
  <2>3. w.goal = Depth /\ stack[w.goal] = Top
    BY <1>a, <2>1, <2>2 DEF Running, Top
  <2> QED BY <2>1, <2>3 DEF Left, Processes, Loops
<1> QED BY <1>a, <1>b DEF EndsClean

LEMMA LoopConditionContinuesEnds ==
  ASSUME IInv, Left(Conditions), ~Breaks, NEW f \in Frames, Continues(f)
  PROVE  EndsClean /\ ~StartsExitTrap
<1>f. Types /\ StackKnown /\ Tells
  BY IInvTells DEF IInv
<1>a. stack' = Becomes(f) /\ Depth' = Depth /\ Depth \in Nat /\ ~StartsExitTrap
  BY <1>f, BecomesStarts DEF Tells, Continues, Step
<1>b. ASSUME Arrived(Depth', at'.pc)
      PROVE  /\ (~sh'.exit /\ stack[watch[1].goal].kind # "subshell") => sh'.flow = "normal"
             /\ (watch[1].how = "continue" /\ Depth' < watch[1].goal) =>
                   stack[watch[1].goal].kind \in {"subshell", "for"} \cup Conditions
  <2>1. PICK w \in Unwinds :
           /\ w = watch[1] /\ UnderWay(w) /\ Stands(w) /\ ~Unwatched
           /\ w.goal \in 1..Depth /\ Depth \in Nat
           /\ stack[w.goal].kind \in Goals(w.how)
           /\ stack[w.goal].kind \in Processes \cup {"function", "dot"} \cup Loops
           /\ w.how \in {"exit", "return", "break", "continue", "interrupt"}
           /\ at.pc \notin {"finish", "unit", "left"} => Unwinding
           /\ at.pc = "left" /\ Depth > 1 => Unwinding
           /\ Depth' < w.goal \/ (Depth' = w.goal /\ at'.pc \in Running)
                \/ at'.pc \in {"ready", "gone"}
    BY <1>b, ArrivedTells
  <2>2. at'.pc = "node"
    BY DEF Point, Continues, Step
  <2>3. w.goal = Depth /\ stack[w.goal] = Top
    BY <1>a, <2>1, <2>2 DEF Running, Top
  <2>4. w.how \in {"break", "continue"}
    BY <2>1, <2>3 DEF Left, Goals, Processes, Loops, Conditions
  <2>5. sh.flow = w.how
    BY <2>1, <2>3, <2>4 DEF Stands, Left
  <2> QED BY <2>4, <2>5 DEF Breaks
<1> QED BY <1>a, <1>b DEF EndsClean

LEMMA LoopBodyContinuesEnds ==
  ASSUME IInv, Left({"while_do", "until_do", "for"}), Takes, NEW f \in Frames, Continues(f)
  PROVE  EndsClean /\ ~StartsExitTrap
<1>f. Types /\ StackKnown /\ Tells
  BY IInvTells DEF IInv
<1>a. stack' = Becomes(f) /\ Depth' = Depth /\ Depth \in Nat /\ ~StartsExitTrap
  BY <1>f, BecomesStarts DEF Tells, Continues, Step
<1>b. ASSUME Arrived(Depth', at'.pc)
      PROVE  /\ (~sh'.exit /\ stack[watch[1].goal].kind # "subshell") => sh'.flow = "normal"
             /\ (watch[1].how = "continue" /\ Depth' < watch[1].goal) =>
                   stack[watch[1].goal].kind \in {"subshell", "for"} \cup Conditions
  <2>1. PICK w \in Unwinds :
           /\ w = watch[1] /\ UnderWay(w) /\ Stands(w) /\ ~Unwatched
           /\ w.goal \in 1..Depth /\ Depth \in Nat
           /\ stack[w.goal].kind \in Goals(w.how)
           /\ stack[w.goal].kind \in Processes \cup {"function", "dot"} \cup Loops
           /\ w.how \in {"exit", "return", "break", "continue", "interrupt"}
           /\ at.pc \notin {"finish", "unit", "left"} => Unwinding
           /\ at.pc = "left" /\ Depth > 1 => Unwinding
           /\ Depth' < w.goal \/ (Depth' = w.goal /\ at'.pc \in Running)
                \/ at'.pc \in {"ready", "gone"}
    BY <1>b, ArrivedTells
  <2>2. at'.pc = "node"
    BY DEF Point, Continues, Step
  <2>3. w.goal = Depth /\ stack[w.goal] = Top
    BY <1>a, <2>1, <2>2 DEF Running, Top
  <2>4. w.how \in {"break", "continue"}
    BY <2>1, <2>3 DEF Left, Goals, Processes, Loops, Conditions
  <2>5. ~sh.exit /\ sh.flow = w.how /\ LevelsLeft(Depth)
    BY <2>1, <2>3, <2>4 DEF Stands, Left
  <2>6. Lasts
    BY <1>f, <2>5, LevelsEnd DEF Left, Loops, Conditions
  <2>7. sh'.flow = "normal"
    BY <1>f, <2>4, <2>5, <2>6 DEF Takes, consume_loop_flow, Breaks, Tells, Fields
  <2> QED BY <1>a, <2>1, <2>3, <2>7
<1> QED BY <1>a, <1>b DEF EndsClean

LEMMA run_ifEnds ==
  ASSUME IInv, run_if
  PROVE  EndsClean /\ ~StartsExitTrap
<1>1. Left({"if"})
        /\ (Returns(at.ret) \/ Returns(0) \/ \E kind \in {"if", "brace"} : Continues(Frame(kind)))
  BY DEF run_if
<1>2. CASE Returns(at.ret) \/ Returns(0)
  <2>1. stack' = Popped /\ at'.pc = "back" /\ Top.kind = "if"
    BY <1>1, <1>2 DEF Returns, Step, Point, Left
  <2>2. at'.pc \notin Running \cup {"ready", "gone"}
          /\ Top.kind \notin Processes \cup {"function", "dot"} \cup Loops
    BY <2>1 DEF Running, Processes, Loops
  <2> QED BY <2>1, <2>2, PopEnds
<1>3. ASSUME NEW kind \in {"if", "brace"}, Continues(Frame(kind)) PROVE EndsClean /\ ~StartsExitTrap
  <2>1. Frame(kind) \in Frames
    BY PlainFrame DEF Kinds, Lists
  <2> QED BY <1>1, <1>3, <2>1, run_ifContinuesEnds
<1> QED BY <1>1, <1>2, <1>3

LEMMA LoopConditionEnds ==
  ASSUME IInv, LoopCondition
  PROVE  EndsClean /\ ~StartsExitTrap
<1>1. \/ Left(Conditions) /\ Returns(Top.keep) /\ Takes
      \/ Left(Conditions) /\ ~Breaks /\ Continues([Top EXCEPT !.kind = Do(@)])
  BY DEF LoopCondition, Takes
<1>2. ASSUME Left(Conditions) PROVE [Top EXCEPT !.kind = Do(@)] \in Frames
  BY IInvTells, <1>2 DEF Left, Conditions, Tells, Frames, Kinds, Lists, Loops, Do
<1> QED BY <1>1, <1>2, LoopConditionReturnsEnds, LoopConditionContinuesEnds

LEMMA LoopBodyEnds ==
  ASSUME IInv, LoopBody
  PROVE  EndsClean /\ ~StartsExitTrap
<1>1. /\ Left({"while_do", "until_do", "for"}) /\ Takes
      /\ \/ Returns(at.ret) /\ (LoopStops \/ Top.kind = "for")
         \/ Continues(Top)
         \/ Top.kind # "for"
              /\ Continues([Top EXCEPT !.kind = Cond(@), !.keep = at.ret, !.prov = prov])
  BY DEF LoopBody, Takes
<1>2. Top \in Frames
  BY IInvTells DEF Tells
<1>3. ASSUME Top.kind # "for"
      PROVE  [Top EXCEPT !.kind = Cond(@), !.keep = at.ret, !.prov = prov] \in Frames
  BY IInvTells, <1>1, <1>3 DEF Left, Tells, Frames, Kinds, Lists, Loops, Cond
<1> QED BY <1>1, <1>2, <1>3, LoopBodyReturnsEnds, LoopBodyContinuesEnds

LEMMA ProcessEndsEnds ==
  ASSUME IInv, ProcessEnds
  PROVE  EndsClean /\ ~StartsExitTrap
<1>f. Types /\ StackKnown /\ Tells
  BY IInvTells DEF IInv
<1>1. CASE Top.kind = "subshell"
  <2>1. stack' = Popped /\ at'.pc = "back"
    BY <1>1 DEF ProcessEnds, Returns, Step, Point
  <2>2. Depth' = Depth - 1 /\ Depth \in Nat /\ ~StartsExitTrap
    BY <1>f, <2>1, PopStarts, PopTells DEF StackKnown, Tells
  <2>3. ASSUME Arrived(Depth', at'.pc) PROVE stack[watch[1].goal].kind = "subshell"
    <3>1. PICK w \in Unwinds :
             /\ w = watch[1] /\ w.goal \in 1..Depth
             /\ Depth' < w.goal \/ (Depth' = w.goal /\ at'.pc \in Running)
                  \/ at'.pc \in {"ready", "gone"}
      BY <2>3, ArrivedTells
    <3>2. w.goal = Depth
      BY <2>1, <2>2, <3>1 DEF Running
    <3> QED BY <1>1, <3>1, <3>2 DEF Top
  <2> QED BY <2>2, <2>3 DEF EndsClean
<1>2. CASE Top.kind = "input"
  <2>1. stack' = stack /\ sh' = Fresh
    BY <1>2 DEF ProcessEnds, Step
  <2>2. ~StartsExitTrap /\ Depth' = Depth
    BY <2>1, StayStarts
  <2>3. ASSUME Arrived(Depth', at'.pc) PROVE ~(Depth' < watch[1].goal)
    <3>1. PICK w \in Unwinds : w = watch[1] /\ w.goal \in 1..Depth /\ Depth \in Nat
      BY <2>3, ArrivedTells
    <3> QED BY <2>2, <3>1
  <2> QED BY <2>1, <2>2, <2>3 DEF EndsClean, Fresh
<1> QED BY <1>1, <1>2 DEF ProcessEnds

LEMMA NextEnds ==
  ASSUME IInv, Next
  PROVE  /\ EndsClean
         /\ StartsExitTrap /\ Top.kind = "input" /\ (watch # <<>> \/ ~Unwinding) =>
              sh'.flow = "normal" /\ ~sh'.exit
<1>1. ASSUME at.pc = "gone", UNCHANGED vars PROVE EndsClean /\ ~StartsExitTrap
  <2>1. stack' = stack /\ Unwatched
    BY <1>1 DEF vars, Unwatched
  <2> QED BY <2>1, StayEnds
<1> QED BY <1>1, SimpleCommandEnds, SetTrapEnds, ExitEnds, ReturnEnds, BreakEnds,
     EnterConstructEnds, EmptyConstructEnds, EnterSubshellEnds, EnterOperatorEnds,
     run_negationEnds, run_and_orEnds, CommandDoneEnds, TakeTrapEnds,
     TakeInterruptEnds, NoMoreSignalsEnds, TrapDoneEnds, ListUnwindsEnds,
     ListFailsEnds, ListGoesOnEnds, UnitDoneEnds, LeaveListEnds, LeaveFunctionEnds,
     LeaveDotEnds, run_ifEnds, LoopConditionEnds, LoopBodyEnds, LeaveItemEnds,
     FallThroughEnds, InputDoneEnds, SubshellDoneEnds, ReadInputEnds,
     FinishSessionEnds, RunExitTrapEnds, ExitTrapDoneEnds, ProcessEndsEnds
  DEF Next

(* Where an unwind ends it is over: nothing below its goal sees any of it,   *)
(* a `continue' goes round again, and the EXIT trap of the shell runs whole  *)
(* (consume_loop_flow, try_run_function, run_dot_script, run_exit_trap).     *)
THEOREM NothingLeftStanding == Spec => UnwindLeavesNothingStanding
<1> DEFINE Clean ==
      /\ Arrived(Len(stack'), at'.pc) =>
            LET w == watch[1]
            IN  /\ (~sh'.exit /\ stack[w.goal].kind # "subshell") => sh'.flow = "normal"
                /\ (w.how = "continue" /\ Len(stack') < w.goal) =>
                      stack[w.goal].kind \in {"subshell", "for"} \cup Conditions
      /\ (StartsExitTrap /\ Top.kind = "input" /\ (watch # <<>> \/ ~Unwinding)) =>
            sh'.flow = "normal" /\ ~sh'.exit
<1>1. ASSUME IInv, Next PROVE Clean
  BY <1>1, NextEnds DEF EndsClean, Depth
<1>2. IInv /\ [Next]_vars => [Clean]_vars
  BY <1>1
<1> QED BY <1>2, ExecutorInvariant, PTL DEF Spec, UnwindLeavesNothingStanding
=============================================================================
