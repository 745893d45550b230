-------------------------- MODULE PipelinesProofs --------------------------
(***************************************************************************)
(* Whatever fails, stops or is killed on the way, jobs end tidily and the  *)
(* terminal comes back: proved for any number of processes and pipes and   *)
(* any lines.                                                              *)
(***************************************************************************)
EXTENDS Pipelines, FiniteSetTheorems, SequenceTheorems, WellFoundedInduction, TLAPS

(* A process, and the table of them.                                       *)
Fields == {"state", "parent", "prog", "kind", "group", "lead", "tty", "todo", "job", "last", "held",
           "noted", "in", "out", "r", "w", "bg"}
IsProcess(r) == r = [f \in Fields |-> r[f]] /\ r.tty \in BOOLEAN /\ r.noted \in BOOLEAN
IsTable(t) == t = [p \in Procs |-> t[p]] /\ \A p \in Procs : t[p].state = "free" \/ IsProcess(t[p])
IsCount(c) == c = [lines |-> c.lines, keys |-> c.keys, failures |-> c.failures] /\ c.failures \in Nat

(* A parent is a shell that runs, and has the terminal if a child of it has.  *)
Raises(t, p) == p \in Procs /\ t[p].state = "running" /\ (p = Main \/ t[p].prog.name = "(")
Raised(t, q) == Raises(t, t[q].parent) /\ (t[q].tty => t[t[q].parent].tty)
Kin(t) == \A q \in Procs \ {Main} : t[q].state = "free" \/ t[q].parent = 0 \/ Raised(t, q)

(* The interactive shell lives as long as its jobs; it is in the middle of one *)
(* unless it is idle, and has waited for no more processes than it started.   *)
JobFields == {"at", "next", "pids", "waits", "group", "from", "pipe"}
IsList(s) == s \in Seq({s[i] : i \in DOMAIN s})
IsJob(j) ==
  /\ j = [f \in JobFields |-> j[f]]
  /\ j.pids \in Seq(Procs) /\ IsList(j.waits) /\ Len(j.waits) <= Len(j.pids)
  /\ j.at = "idle" => j = NoJob
Reigns(m) ==
  /\ IsProcess(m) /\ m.state = "running" /\ m.tty = TRUE /\ m.group = Main
  /\ m.bg \in Seq(Procs) /\ IsJob(m.job)

(* The ends of pipes it holds are those of the job it is in the middle of, but *)
(* for one that each failure may have left open.                              *)
Working(j) ==
  CASE j.at = "pipe" -> {j.from}
    [] j.at = "fork" -> {j.from, j.pipe}
    [] j.at = "read" -> {j.pipe}
    [] OTHER -> {}
Holds(m, failures) ==
  /\ m.r \subseteq Pipes /\ Cardinality(m.r \ Working(m.job)) <= failures
  /\ m.w \subseteq IF m.job.at = "fork" THEN {m.job.pipe} ELSE {}
  /\ m.job.at = "fork" /\ m.job.next = Len(Head(m.todo).stages) => m.job.pipe = 0

(* A child of the interactive shell is in the list of its background, without  *)
(* the terminal, or is still to be waited for, or was stopped.                *)
Awaited(j, q) == \E i \in 1..Len(j.pids) : i > Len(j.waits) /\ j.pids[i] = q
Ours(t, q) == q \in Procs \ {Main} /\ t[q].state # "free" /\ t[q].parent = Main
Answered(t, q) ==
  t[q].state = "stopped" \/ Awaited(t[Main].job, q) \/ (~t[q].tty /\ q \in ToSet(t[Main].bg))
Answers(t) == \A q \in Procs : Ours(t, q) => Answered(t, q)

Families(t) == IsTable(t) /\ Kin(t)
Steady(t, c) == IsCount(c) /\ Reigns(t[Main]) /\ Holds(t[Main], c.failures) /\ Answers(t)
Tidy == Families(proc) /\ Steady(proc, typed)

-----------------------------------------------------------------------------
(* What is chosen: the least of a set of numbers.                          *)
LEMMA HasLeast ==
  ASSUME NEW T, T \subseteq Nat, T # {}
  PROVE  \E x \in T : \A y \in T : x <= y
<1> DEFINE R == OpToRel(<, Nat)
<1>1. IsWellFoundedOn(R, Nat)
  BY NatLessThanWellFounded
<1>2. \A x, y \in Nat : <<x, y>> \in R <=> x < y
  BY DEF OpToRel
<1> HIDE DEF R
<1>3. PICK x \in T : \A y \in T : ~(<<y, x>> \in R)
  BY <1>1, WFMin
<1>4. \A y \in T : x <= y
  <2> TAKE y \in T
  <2>1. x \in Nat /\ y \in Nat /\ ~(y < x)
    BY <1>2, <1>3
  <2> QED BY <2>1
<1> QED BY <1>4

LEMMA SlotIsFree ==
  ASSUME HasRoom, Slots # {}
  PROVE  Slot \in Procs /\ proc[Slot].state = "free"
<1>1. Slots \subseteq Nat
  BY DEF Slots, Procs
<1>2. \E q \in Slots : \A r \in Slots : q <= r
  BY <1>1, HasLeast
<1>3. Slot \in Slots
  BY <1>2 DEF Slot
<1> QED BY <1>3 DEF Slots

LEMMA PipeIsThere ==
  ASSUME HasRoom, FreePipes # {}
  PROVE  NewPipe \in Pipes
<1>1. FreePipes \subseteq Nat /\ FreePipes \subseteq Pipes
  BY DEF FreePipes, Pipes
<1>2. \E q \in FreePipes : \A r \in FreePipes : q <= r
  BY <1>1, HasLeast
<1> QED BY <1>1, <1>2 DEF NewPipe

(* The interactive shell is a process. *)
LEMMA MainIsThere == ASSUME HasRoom PROVE Main \in Procs /\ Main \in Nat
BY DEF HasRoom, Procs, Main

-----------------------------------------------------------------------------
(* Tables: one process goes on, is forked, reaped or ends.                 *)

(* The same process, further on.                                           *)
Further(t, p, r) ==
  /\ p \in Procs /\ t[p].state # "free" /\ IsProcess(r)
  /\ r.parent = t[p].parent /\ r.tty = t[p].tty /\ r.prog = t[p].prog
  /\ r.state # "free" /\ (t[p].state = "running" => r.state = "running")

LEMMA GoesOn ==
  ASSUME NEW t, Families(t), NEW p, NEW r, Further(t, p, r)
  PROVE  Families([t EXCEPT ![p] = r])
<1> DEFINE u == [t EXCEPT ![p] = r]
<1>1. IsTable(u)
  BY DEF Families, IsTable, Further
<1>2. \A q \in Procs : q # p => u[q] = t[q]
  BY DEF Families, IsTable
<1>3. u[p] = r
  BY DEF Families, IsTable, Further
<1>4. \A q \in Procs : u[q].parent = t[q].parent /\ (u[q].tty <=> t[q].tty) /\ u[q].prog = t[q].prog
  BY <1>2, <1>3 DEF Further
<1>5. \A q \in Procs : (t[q].state = "running" => u[q].state = "running") /\ (u[q].state = "free" <=> t[q].state = "free")
  BY <1>2, <1>3 DEF Further
<1> HIDE DEF u
<1>6. \A q : Raises(t, q) => Raises(u, q)
  BY <1>4, <1>5 DEF Raises
<1>7. ASSUME NEW q \in Procs \ {Main}, ~(u[q].state = "free"), ~(u[q].parent = 0)
      PROVE  Raised(u, q)
  <2>1. Raised(t, q)
    BY <1>4, <1>5, <1>7 DEF Families, Kin
  <2>2. Raises(u, u[q].parent) /\ u[q].parent = t[q].parent
    BY <2>1, <1>4, <1>6 DEF Raised
  <2>3. u[q].tty => u[u[q].parent].tty
    BY <2>1, <2>2, <1>4 DEF Raised, Raises
  <2> QED BY <2>2, <2>3 DEF Raised
<1>8. Kin(u)
  BY <1>7 DEF Kin
<1> QED BY <1>1, <1>8 DEF Families, u

(* A process that is forked, and its parent after the fork.                *)
Forked(t, s, c, p, r) ==
  /\ s \in Procs /\ t[s].state = "free" /\ s # Main
  /\ Raises(t, p) /\ Further(t, p, r)
  /\ IsProcess(c) /\ c.state = "forked" /\ c.parent = p /\ (c.tty => t[p].tty)

LEMMA IsForked ==
  ASSUME NEW t, Families(t), NEW s, NEW c, NEW p, NEW r, Forked(t, s, c, p, r)
  PROVE  Families([t EXCEPT ![s] = c, ![p] = r])
<1> DEFINE u == [t EXCEPT ![s] = c, ![p] = r]
<1>1. IsTable(u)
  BY DEF Families, IsTable, Forked, Further
<1>2. s # p /\ p \in Procs /\ u[p] = r /\ u[s] = c /\ \A q \in Procs : q # p /\ q # s => u[q] = t[q]
  BY DEF Families, IsTable, Forked, Further
<1> HIDE DEF u
<1>3. u[p].parent = t[p].parent /\ (u[p].tty <=> t[p].tty) /\ u[p].prog = t[p].prog /\ u[p].state = "running"
      /\ t[p].state = "running"
  BY <1>2 DEF Forked, Further, Raises
<1>4. \A q \in Procs : q # s =>
        u[q].parent = t[q].parent /\ (u[q].tty <=> t[q].tty) /\ u[q].prog = t[q].prog
        /\ (u[q].state = "running" <=> t[q].state = "running") /\ (u[q].state = "free" <=> t[q].state = "free")
  BY <1>2, <1>3
<1>5. t[s].state = "free" /\ Raises(t, p)
  BY DEF Forked
<1>6. \A q : Raises(t, q) => q # s /\ Raises(u, q)
  BY <1>4, <1>5 DEF Raises
<1>7. ASSUME NEW q \in Procs \ {Main}, ~(u[q].state = "free"), ~(u[q].parent = 0), q # s
      PROVE  Raised(u, q)
  <2>1. Raised(t, q)
    BY <1>4, <1>7 DEF Families, Kin
  <2>2. Raises(u, u[q].parent) /\ u[q].parent = t[q].parent /\ t[q].parent # s
    BY <2>1, <1>4, <1>6, <1>7 DEF Raised
  <2>3. u[q].tty => u[u[q].parent].tty
    BY <2>1, <2>2, <1>4, <1>7 DEF Raised, Raises
  <2> QED BY <2>2, <2>3 DEF Raised
<1>8. Raised(u, s)
  <2>1. u[s].parent = p /\ (u[s].tty => t[p].tty)
    BY <1>2 DEF Forked
  <2>2. Raises(u, p)
    BY <1>5, <1>6
  <2> QED BY <2>1, <2>2, <1>3 DEF Raised
<1>9. Kin(u)
  BY <1>7, <1>8 DEF Kin
<1> QED BY <1>1, <1>9 DEF Families, u

(* A process that has ended has no children left when it is reaped.        *)
LEMMA IsReaped ==
  ASSUME NEW t, Families(t), NEW s \in Procs, t[s].state \in {"exited", "killed"}
  PROVE  Families([t EXCEPT ![s] = Nobody])
<1> DEFINE u == [t EXCEPT ![s] = Nobody]
<1>1. IsTable(u)
  BY DEF Families, IsTable, Nobody
<1>2. u[s] = Nobody /\ \A q \in Procs : q # s => u[q] = t[q]
  BY DEF Families, IsTable
<1> HIDE DEF u
<1>3. \A q : Raises(t, q) => q # s /\ Raises(u, q) /\ u[q] = t[q]
  BY <1>2 DEF Raises
<1>4. u[s].state = "free"
  BY <1>2 DEF Nobody
<1>5. ASSUME NEW q \in Procs \ {Main}, ~(u[q].state = "free"), ~(u[q].parent = 0)
      PROVE  Raised(u, q)
  <2>1. q # s /\ u[q] = t[q]
    BY <1>2, <1>4, <1>5
  <2>2. Raised(t, q)
    BY <2>1, <1>5 DEF Families, Kin
  <2> QED BY <2>1, <2>2, <1>3 DEF Raised
<1>6. Kin(u)
  BY <1>5 DEF Kin
<1> QED BY <1>1, <1>6 DEF Families, u

(* When some have ended, init takes what they leave: none is a child of one   *)
(* that has ended.                                                          *)
Gone(r) == r.state \in {"free", "exited", "killed"}
Bereft(t, q) == t[q].parent \in Procs /\ Gone(t[t[q].parent])
Shaken(t) ==
  /\ IsTable(t) /\ Raises(t, Main)
  /\ \A q \in Procs \ {Main} : t[q].state = "free" \/ t[q].parent = 0 \/ Raised(t, q) \/ Bereft(t, q)
Orphan(t, p) == p # Main /\ t[p].state # "free" /\ (t[p].parent = 0 \/ Gone(t[t[p].parent]))

LEMMA AdoptedIs ==
  ASSUME NEW t, NEW p \in Procs
  PROVE  /\ Adopted(t) = [q \in Procs |-> Adopted(t)[q]]
         /\ ~Orphan(t, p) => Adopted(t)[p] = t[p]
         /\ Orphan(t, p) /\ Gone(t[p]) => Adopted(t)[p] = Nobody
         /\ Orphan(t, p) /\ ~Gone(t[p]) => Adopted(t)[p] = [t[p] EXCEPT !.parent = 0]
BY DEF Adopted, Orphan, Gone

LEMMA IsAdopted ==
  ASSUME NEW t, Shaken(t)
  PROVE  Families(Adopted(t))
<1> DEFINE u == Adopted(t)
<1>1. ASSUME NEW p \in Procs
      PROVE  /\ u[p].state = "free" \/ IsProcess(u[p])
             /\ u[p].state = "free" \/ u[p].parent = 0 \/ u[p] = t[p]
             /\ Orphan(t, p) => u[p].state = "free" \/ u[p].parent = 0
             /\ Raises(t, p) => Raises(u, p) /\ (t[p].tty <=> u[p].tty)
  <2>1. t[p].state = "free" \/ IsProcess(t[p])
    BY DEF Shaken, IsTable
  <2>2. CASE ~Orphan(t, p)
    <3>1. u[p] = t[p]
      BY <2>2, AdoptedIs
    <3> QED BY <2>1, <2>2, <3>1 DEF Raises
  <2>3. CASE Orphan(t, p) /\ Gone(t[p])
    <3>1. u[p] = Nobody
      BY <2>3, AdoptedIs
    <3> QED BY <2>3, <3>1 DEF Raises, Nobody, Gone
  <2>4. CASE Orphan(t, p) /\ ~Gone(t[p])
    <3>1. u[p] = [t[p] EXCEPT !.parent = 0]
      BY <2>4, AdoptedIs
    <3>2. IsProcess(t[p])
      BY <2>1, <2>4 DEF Gone
    <3>3. IsProcess(u[p]) /\ u[p].parent = 0 /\ u[p].state = t[p].state /\ u[p].prog = t[p].prog /\ (u[p].tty <=> t[p].tty)
      BY <3>1, <3>2 DEF IsProcess, Fields
    <3> QED BY <3>3 DEF Raises
  <2> QED BY <2>2, <2>3, <2>4
<1>2. u = [p \in Procs |-> u[p]]
  BY DEF Adopted
<1> HIDE DEF u
<1>3. IsTable(u)
  BY <1>1, <1>2 DEF IsTable
<1>4. ASSUME NEW q \in Procs \ {Main}, ~(u[q].state = "free"), ~(u[q].parent = 0)
      PROVE  Raised(u, q)
  <2>1. u[q] = t[q] /\ ~Orphan(t, q)
    BY <1>1, <1>4
  <2>2. ~(t[q].state = "free") /\ ~(t[q].parent = 0) /\ ~Gone(t[t[q].parent])
    BY <2>1, <1>4 DEF Orphan
  <2>3. Raised(t, q)
    BY <2>2 DEF Shaken, Bereft
  <2>4. t[q].parent \in Procs /\ Raises(t, t[q].parent)
    BY <2>3 DEF Raised, Raises
  <2> QED BY <2>1, <2>3, <2>4, <1>1 DEF Raised
<1>5. Kin(u)
  BY <1>4 DEF Kin
<1> QED BY <1>3, <1>5 DEF Families, u

LEMMA IsShaken ==
  ASSUME NEW t, Families(t), Raises(t, Main), NEW p \in Procs \ {Main}, t[p].state # "free", NEW r,
         IsProcess(r), Gone(r), r.state # "free", r.parent = t[p].parent, r.tty = t[p].tty
  PROVE  Shaken([t EXCEPT ![p] = r])
<1> DEFINE u == [t EXCEPT ![p] = r]
<1>1. IsTable(u)
  BY DEF Families, IsTable
<1>2. u[p] = r /\ \A q \in Procs : q # p => u[q] = t[q]
  BY DEF Families, IsTable
<1> HIDE DEF u
<1>3. \A q : Raises(t, q) /\ q # p => Raises(u, q) /\ u[q] = t[q]
  BY <1>2 DEF Raises
<1>4. Raises(u, Main)
  BY <1>3
<1>5. ASSUME NEW q \in Procs \ {Main}, ~(u[q].state = "free"), ~(u[q].parent = 0)
      PROVE  Raised(u, q) \/ Bereft(u, q)
  <2>1. u[q].parent = t[q].parent /\ (u[q].tty <=> t[q].tty) /\ ~(t[q].state = "free")
    BY <1>2, <1>5
  <2>2. Raised(t, q)
    BY <2>1, <1>5 DEF Families, Kin
  <2>3. CASE t[q].parent = p
    BY <2>1, <2>3, <1>2 DEF Bereft
  <2>4. CASE t[q].parent # p
    BY <2>1, <2>2, <2>4, <1>3 DEF Raised
  <2> QED BY <2>3, <2>4
<1> QED BY <1>1, <1>4, <1>5 DEF Shaken, u

-----------------------------------------------------------------------------
(* What goes on elsewhere leaves the interactive shell as it is, and gives it  *)
(* no child; a child of it that is stopped remains so.                        *)
Elsewhere(t, u) ==
  /\ u[Main] = t[Main]
  /\ \A q \in Procs : Ours(u, q) =>
        Ours(t, q) /\ (u[q].tty <=> t[q].tty) /\ (t[q].state = "stopped" => u[q].state = "stopped")

LEMMA SteadyElsewhere ==
  ASSUME NEW t, NEW u, NEW c, Steady(t, c), Elsewhere(t, u)
  PROVE  Steady(u, c)
<1>1. ASSUME NEW q \in Procs, Ours(u, q) PROVE Answered(u, q)
  <2>1. Ours(t, q) /\ (u[q].tty <=> t[q].tty) /\ (t[q].state = "stopped" => u[q].state = "stopped") /\ u[Main] = t[Main]
    BY <1>1 DEF Elsewhere
  <2>2. Answered(t, q)
    BY <2>1 DEF Steady, Answers
  <2> QED BY <2>1, <2>2 DEF Answered
<1>2. Answers(u)
  BY <1>1 DEF Answers
<1> QED BY <1>2 DEF Steady, Elsewhere

(* A failure only lets the shell hold more. *)
LEMMA SteadyCount ==
  ASSUME NEW t, NEW c, Steady(t, c), NEW d, IsCount(d), d.failures >= c.failures,
         IsFiniteSet(Pipes)
  PROVE  Steady(t, d)
<1>1. t[Main].r \subseteq Pipes /\ c.failures \in Nat /\ d.failures \in Nat
  BY DEF Steady, Holds, IsCount
<1>2. IsFiniteSet(t[Main].r \ Working(t[Main].job))
  BY <1>1, FS_Subset
<1>3. Cardinality(t[Main].r \ Working(t[Main].job)) \in Nat
  BY <1>2, FS_CardinalityType
<1> QED BY <1>1, <1>3 DEF Steady, Holds

LEMMA GoesOnElsewhere ==
  ASSUME NEW t, Families(t), NEW p, p # Main, NEW r, Further(t, p, r), ~(t[p].state = "stopped")
  PROVE  Elsewhere(t, [t EXCEPT ![p] = r])
<1> DEFINE u == [t EXCEPT ![p] = r]
<1>1. u[p] = r /\ \A q \in Procs : q # p => u[q] = t[q]
  BY DEF Families, IsTable, Further
<1>2. u[Main] = t[Main]
  BY DEF Families, IsTable
<1> HIDE DEF u
<1>3. \A q \in Procs : Ours(u, q) => Ours(t, q) /\ (u[q].tty <=> t[q].tty) /\ (t[q].state = "stopped" => u[q].state = "stopped")
  BY <1>1 DEF Ours, Further
<1> QED BY <1>2, <1>3 DEF Elsewhere, u

LEMMA IsForkedElsewhere ==
  ASSUME NEW t, Families(t), NEW s, NEW c, NEW p, NEW r, Forked(t, s, c, p, r), p # Main,
         Main \in Procs
  PROVE  Elsewhere(t, [t EXCEPT ![s] = c, ![p] = r])
<1> DEFINE u == [t EXCEPT ![s] = c, ![p] = r]
<1>1. /\ p \in Procs /\ u[p] = r /\ u[s] = c
      /\ \A q \in Procs : q # p /\ q # s => u[q] = t[q]
      /\ t[p].state = "running"
  BY DEF Families, IsTable, Forked, Further, Raises
<1>2. u[Main] = t[Main]
  BY DEF Families, IsTable, Forked
<1> HIDE DEF u
<1>3. \A q \in Procs : Ours(u, q) => Ours(t, q) /\ (u[q].tty <=> t[q].tty) /\ (t[q].state = "stopped" => u[q].state = "stopped")
  BY <1>1 DEF Ours, Further, Forked
<1> QED BY <1>2, <1>3 DEF Elsewhere, u

LEMMA IsReapedElsewhere ==
  ASSUME NEW t, Families(t), NEW s \in Procs, s # Main
  PROVE  Elsewhere(t, [t EXCEPT ![s] = Nobody])
<1> DEFINE u == [t EXCEPT ![s] = Nobody]
<1>1. u[Main] = t[Main] /\ u[s] = Nobody /\ \A q \in Procs : q # s => u[q] = t[q]
  BY DEF Families, IsTable
<1> HIDE DEF u
<1> QED BY <1>1 DEF Elsewhere, Ours, Nobody, u

LEMMA IsAdoptedElsewhere ==
  ASSUME NEW t, NEW u, Elsewhere(t, u), HasRoom, IsTable(u)
  PROVE  Elsewhere(t, Adopted(u))
<1> DEFINE v == Adopted(u)
<1>1. v[Main] = u[Main]
  BY AdoptedIs, MainIsThere DEF Orphan
<1>2. ASSUME NEW q \in Procs, Ours(v, q) PROVE v[q] = u[q]
  <2>1. CASE ~Orphan(u, q)
    BY <2>1, AdoptedIs
  <2>2. CASE Orphan(u, q) /\ Gone(u[q])
    <3>1. v[q] = Nobody
      BY <2>2, AdoptedIs
    <3> QED BY <3>1, <1>2 DEF Ours, Nobody
  <2>3. CASE Orphan(u, q) /\ ~Gone(u[q])
    <3>1. v[q] = [u[q] EXCEPT !.parent = 0]
      BY <2>3, AdoptedIs
    <3>2. v[q].parent = 0
      BY <3>1, <2>3 DEF IsTable, IsProcess, Fields, Gone
    <3> QED BY <3>2, <1>2 DEF Ours, Main
  <2> QED BY <2>1, <2>2, <2>3
<1> HIDE DEF v
<1>3. \A q \in Procs : Ours(v, q) => Ours(u, q) /\ v[q] = u[q]
  BY <1>2 DEF Ours
<1> QED BY <1>1, <1>3 DEF Elsewhere, v

LEMMA EndsElsewhere ==
  ASSUME HasRoom, NEW t, Families(t), Raises(t, Main), NEW p \in Procs \ {Main}, t[p].state # "free",
         t[p].state # "stopped", NEW r, IsProcess(r), Gone(r), r.state # "free",
         r.parent = t[p].parent, r.tty = t[p].tty
  PROVE  LET u == Adopted([t EXCEPT ![p] = r]) IN Families(u) /\ Elsewhere(t, u)
<1> DEFINE w == [t EXCEPT ![p] = r]
<1>1. Shaken(w)
  BY IsShaken
<1>2. w[p] = r /\ w[Main] = t[Main] /\ \A q \in Procs : q # p => w[q] = t[q]
  BY DEF Families, IsTable
<1>3. IsTable(w)
  BY <1>1 DEF Shaken
<1> HIDE DEF w
<1>4. Elsewhere(t, w)
  BY <1>2 DEF Elsewhere, Ours
<1>5. Elsewhere(t, Adopted(w))
  BY <1>3, <1>4, IsAdoptedElsewhere
<1>6. Families(Adopted(w))
  BY <1>1, IsAdopted
<1> QED BY <1>5, <1>6 DEF w

(* The interactive shell goes on: it still answers for its children.       *)
Remembers(t, n) ==
  \A q \in Procs : Ours(t, q) =>
     t[q].state = "stopped" \/ Awaited(n.job, q) \/ (~t[q].tty /\ q \in ToSet(n.bg))

LEMMA MainGoesOn ==
  ASSUME HasRoom, NEW t, Families(t), NEW c, IsCount(c), NEW m, Further(t, Main, m), Reigns(m),
         Holds(m, c.failures), Remembers(t, m)
  PROVE  Families([t EXCEPT ![Main] = m]) /\ Steady([t EXCEPT ![Main] = m], c)
<1> DEFINE u == [t EXCEPT ![Main] = m]
<1>1. Families(u)
  BY GoesOn
<1>2. u[Main] = m /\ \A q \in Procs : q # Main => u[q] = t[q]
  BY MainIsThere DEF Families, IsTable
<1> HIDE DEF u
<1>3. ASSUME NEW q \in Procs, Ours(u, q) PROVE Answered(u, q)
  <2>1. u[q] = t[q] /\ Ours(t, q)
    BY <1>2, <1>3 DEF Ours
  <2> QED BY <2>1, <1>2 DEF Answered, Remembers
<1>4. Answers(u)
  BY <1>3 DEF Answers
<1> QED BY <1>1, <1>2, <1>4 DEF Steady, u

(* It forks: the child is in one of its lists. *)
LEMMA MainForks ==
  ASSUME HasRoom, NEW t, Families(t), NEW c, IsCount(c), NEW s, NEW r, NEW m, Forked(t, s, r, Main, m), Reigns(m),
         Holds(m, c.failures), Remembers(t, m), Awaited(m.job, s) \/ (~r.tty /\ s \in ToSet(m.bg))
  PROVE  Families([t EXCEPT ![s] = r, ![Main] = m]) /\ Steady([t EXCEPT ![s] = r, ![Main] = m], c)
<1> DEFINE u == [t EXCEPT ![s] = r, ![Main] = m]
<1>1. Families(u)
  BY IsForked
<1>2. u[Main] = m /\ u[s] = r /\ s # Main /\ s \in Procs /\ \A q \in Procs : q # Main /\ q # s => u[q] = t[q]
  BY MainIsThere DEF Families, IsTable, Forked
<1> HIDE DEF u
<1>3. ASSUME NEW q \in Procs, Ours(u, q) PROVE Answered(u, q)
  <2>1. CASE q = s
    BY <2>1, <1>2 DEF Answered
  <2>2. CASE q # s
    <3>1. u[q] = t[q] /\ Ours(t, q)
      BY <1>2, <1>3, <2>2 DEF Ours
    <3> QED BY <3>1, <1>2 DEF Answered, Remembers
  <2> QED BY <2>1, <2>2
<1>4. Answers(u)
  BY <1>3 DEF Answers
<1> QED BY <1>1, <1>2, <1>4 DEF Steady, u

LEMMA RemembersMore ==
  ASSUME NEW t, Answers(t), NEW n,
         \A q \in Procs : q \in ToSet(t[Main].bg) => q \in ToSet(n.bg),
         \A q \in Procs : Awaited(t[Main].job, q) => Awaited(n.job, q)
  PROVE  Remembers(t, n)
BY DEF Answers, Answered, Remembers

(* It holds no more than before, but for one end when something has failed. *)
Opens(n) ==
  /\ n.r \subseteq Pipes /\ n.w \subseteq IF n.job.at = "fork" THEN {n.job.pipe} ELSE {}
  /\ n.job.at = "fork" /\ n.job.next = Len(Head(n.todo).stages) => n.job.pipe = 0

LEMMA HoldsNoMore ==
  ASSUME HasRoom, NEW m, NEW f \in Nat, Holds(m, f), NEW n, Opens(n),
         n.r \ Working(n.job) \subseteq m.r \ Working(m.job)
  PROVE  Holds(n, f)
<1>1. IsFiniteSet(Pipes)
  BY FS_Interval DEF HasRoom, Pipes
<1>2. IsFiniteSet(m.r \ Working(m.job))
  BY <1>1, FS_Subset DEF Holds
<1>3. Cardinality(m.r \ Working(m.job)) \in Nat /\ Cardinality(m.r \ Working(m.job)) <= f
  BY <1>2, FS_CardinalityType DEF Holds
<1>4. IsFiniteSet(n.r \ Working(n.job)) /\ Cardinality(n.r \ Working(n.job)) <= Cardinality(m.r \ Working(m.job))
  BY <1>2, FS_Subset
<1>5. Cardinality(n.r \ Working(n.job)) \in Nat
  BY <1>4, FS_CardinalityType
<1>6. Cardinality(n.r \ Working(n.job)) <= f
  BY <1>3, <1>4, <1>5
<1> QED BY <1>6 DEF Holds, Opens

LEMMA HoldsOneMore ==
  ASSUME HasRoom, NEW m, NEW f \in Nat, Holds(m, f), NEW n, Opens(n), NEW x,
         n.r \ Working(n.job) \subseteq (m.r \ Working(m.job)) \union {x}
  PROVE  Holds(n, f + 1)
<1>1. IsFiniteSet(Pipes)
  BY FS_Interval DEF HasRoom, Pipes
<1> DEFINE S == m.r \ Working(m.job)
           T == n.r \ Working(n.job)
<1>2. IsFiniteSet(S)
  BY <1>1, FS_Subset DEF Holds
<1>3. Cardinality(S) \in Nat /\ Cardinality(S) <= f /\ T \subseteq S \union {x}
  BY <1>2, FS_CardinalityType DEF Holds
<1> HIDE DEF S, T
<1>4. IsFiniteSet(S \union {x}) /\ Cardinality(S \union {x}) <= Cardinality(S) + 1 /\ Cardinality(S \union {x}) \in Nat
  BY <1>2, <1>3, FS_AddElement, FS_CardinalityType
<1>5. IsFiniteSet(T) /\ Cardinality(T) <= Cardinality(S \union {x})
  BY <1>3, <1>4, FS_Subset
<1>6. Cardinality(T) \in Nat
  BY <1>5, FS_CardinalityType
<1>7. Cardinality(T) <= f + 1
  BY <1>3, <1>4, <1>5, <1>6
<1> QED BY <1>7 DEF Holds, Opens, T

-----------------------------------------------------------------------------
(* The steps of another process.                                           *)
Quiet(t, u) == Families(u) /\ Elsewhere(t, u)

LEMMA QuietlyOn ==
  ASSUME NEW t, Families(t), NEW p, p # Main, NEW r, Further(t, p, r), ~(t[p].state = "stopped")
  PROVE  Quiet(t, [t EXCEPT ![p] = r])
BY GoesOn, GoesOnElsewhere DEF Quiet

(* What holds of a process that is about to make a step.                   *)
LEMMA RunsAsProcess ==
  ASSUME Tidy, NEW p \in Procs, ~(proc[p].state = "free")
  PROVE  Families(proc) /\ IsProcess(proc[p])
BY DEF Tidy, Families, IsTable

LEMMA MakePipeElsewhere ==
  ASSUME Tidy, NEW p \in Procs, p # Main, MakePipe(p)
  PROVE  Quiet(proc, proc')
<1>1. Families(proc) /\ IsProcess(proc[p]) /\ proc[p].state = "running"
  BY RunsAsProcess DEF MakePipe, Idle, At, Runs
<1>2. ASSUME NEW r, proc' = [proc EXCEPT ![p] = r], Further(proc, p, r)
      PROVE  Quiet(proc, proc')
  BY <1>1, <1>2, QuietlyOn
<1>3. CASE proc' = [proc EXCEPT ![p].job.at = "wait"]
  <2> DEFINE r == [proc[p] EXCEPT !.job.at = "wait"]
  <2>1. proc' = [proc EXCEPT ![p] = r]
    BY <1>3
  <2>2. Further(proc, p, r)
    BY <1>1 DEF Further, IsProcess, Fields
  <2> QED BY <1>2, <2>1, <2>2
<1>4. ASSUME NEW i, proc' = [proc EXCEPT ![p].job.at = "fork", ![p].job.next = i, ![p].job.pipe = 0]
      PROVE  Quiet(proc, proc')
  <2> DEFINE r == [proc[p] EXCEPT !.job.at = "fork", !.job.next = i, !.job.pipe = 0]
  <2>1. proc' = [proc EXCEPT ![p] = r]
    BY <1>4
  <2>2. Further(proc, p, r)
    BY <1>1 DEF Further, IsProcess, Fields
  <2> QED BY <1>2, <2>1, <2>2
<1>5. ASSUME NEW i, proc' = [proc EXCEPT ![p].job.at = "fork", ![p].job.next = i, ![p].job.pipe = NewPipe,
                                         ![p].r = @ \union {NewPipe}, ![p].w = @ \union {NewPipe}]
      PROVE  Quiet(proc, proc')
  <2> DEFINE r == [proc[p] EXCEPT !.job.at = "fork", !.job.next = i, !.job.pipe = NewPipe,
                                  !.r = @ \union {NewPipe}, !.w = @ \union {NewPipe}]
  <2>1. proc' = [proc EXCEPT ![p] = r]
    BY <1>5
  <2>2. Further(proc, p, r)
    BY <1>1 DEF Further, IsProcess, Fields
  <2> QED BY <1>2, <2>1, <2>2
<1> QED BY <1>3, <1>4, <1>5 DEF MakePipe

(* Fields are set one after the other. *)
LEMMA IsChild ==
  ASSUME NEW p, IsProcess(proc[p]), NEW q, NEW prog, NEW kind, NEW group
  PROVE  LET c == Child(p, q, prog, kind, group) IN
           IsProcess(c) /\ c.state = "forked" /\ c.parent = p /\ c.tty = proc[p].tty /\ c.prog = prog
BY DEF Child, IsProcess, Fields

LEMMA ForkStageElsewhere ==
  ASSUME HasRoom, Tidy, NEW p \in Procs, p # Main, ForkStage(p)
  PROVE  Quiet(proc, proc')
<1> DEFINE job == proc[p].job
           stage == Stages(p)[job.next]
           after == [proc[p] EXCEPT !.r = ParentReads(p), !.w = ParentWrites(p), !.job.from = job.pipe,
                                    !.job.at = IF job.next = Len(Stages(p)) THEN "wait" ELSE "pipe"]
           c == [Child(p, Slot, stage, Command(p).kind, job.group) EXCEPT
                   !.r = ParentReads(p), !.w = StageWrites(p),
                   !.in = IF job.from = 0 THEN @ ELSE job.from, !.out = IF job.pipe = 0 THEN @ ELSE job.pipe]
           further == [after EXCEPT !.job.pids = Append(@, Slot), !.job.group = IF @ = 0 THEN Slot ELSE @]
<1>1. Families(proc) /\ IsProcess(proc[p]) /\ proc[p].state = "running" /\ Raises(proc, p)
  BY RunsAsProcess DEF ForkStage, At, Runs, Shell, Raises
<1>2. CASE Slots # {} /\ proc' = [proc EXCEPT ![Slot] = c, ![p] = further]
  <2>1. Slot \in Procs /\ proc[Slot].state = "free"
    BY <1>2, SlotIsFree
  <2>2. Slot # Main
    BY <2>1 DEF Tidy, Steady, Reigns
  <2>3. IsProcess(c) /\ c.state = "forked" /\ c.parent = p /\ c.tty = proc[p].tty
    <3> DEFINE k == Child(p, Slot, stage, Command(p).kind, job.group)
               in == IF job.from = 0 THEN k.in ELSE job.from
               out == IF job.pipe = 0 THEN k.out ELSE job.pipe
    <3>1. IsProcess(k) /\ k.state = "forked" /\ k.parent = p /\ k.tty = proc[p].tty
      BY <1>1, IsChild
    <3>2. c = [k EXCEPT !.r = ParentReads(p), !.w = StageWrites(p), !.in = in, !.out = out]
      OBVIOUS
    <3> HIDE DEF k, in, out, c
    <3> QED BY <3>1, <3>2 DEF IsProcess, Fields
  <2>4. Further(proc, p, further)
    <3>1. Further(proc, p, after)
      BY <1>1 DEF Further, IsProcess, Fields
    <3> HIDE DEF after
    <3> QED BY <3>1 DEF Further, IsProcess, Fields
  <2> HIDE DEF c, further
  <2>5. Forked(proc, Slot, c, p, further)
    BY <1>1, <2>1, <2>2, <2>3, <2>4 DEF Forked
  <2> QED BY <1>1, <1>2, <2>5, IsForked, IsForkedElsewhere, MainIsThere DEF Quiet
<1>3. CASE proc' = [proc EXCEPT ![p] = after]
  <2>1. Further(proc, p, after)
    BY <1>1 DEF Further, IsProcess, Fields
  <2> QED BY <1>1, <1>3, <2>1, QuietlyOn
<1> QED BY <1>2, <1>3 DEF ForkStage

(* Some process is reaped, or not when it was stopped. *)
LEMMA ReapedElsewhere ==
  ASSUME Tidy, NEW p \in Procs, p # Main, Runs(p), NEW q, Dead(q) \/ proc[q].state = "stopped",
         NEW r, Further(proc, p, r), proc' = [Reaped(proc, q) EXCEPT ![p] = r]
  PROVE  Quiet(proc, proc')
<1>1. Families(proc) /\ proc[p].state = "running" /\ q # p /\ q # Main
  BY RunsAsProcess DEF Runs, Dead, Tidy, Steady, Reigns
<1>2. CASE Reaped(proc, q) = proc
  BY <1>1, <1>2, QuietlyOn
<1>3. CASE Dead(q) /\ q \in Procs /\ Reaped(proc, q) = [proc EXCEPT ![q] = Nobody]
  <2> DEFINE t == [proc EXCEPT ![q] = Nobody]
  <2>1. Families(t) /\ Elsewhere(proc, t)
    BY <1>1, <1>3, IsReaped, IsReapedElsewhere DEF Dead
  <2>2. t[p] = proc[p] /\ proc' = [t EXCEPT ![p] = r]
    BY <1>1, <1>3 DEF Families, IsTable
  <2> HIDE DEF t
  <2>3. Further(t, p, r)
    BY <2>1, <2>2 DEF Further
  <2>4. Quiet(t, proc')
    <3>1. Families(t) /\ t[p].state = "running" /\ ~(t[p].state = "stopped")
      BY <2>1, <2>2, <1>1
    <3>2. Quiet(t, [t EXCEPT ![p] = r])
      BY <2>3, <3>1, QuietlyOn
    <3> QED BY <2>2, <3>2
  <2>5. Elsewhere(proc, proc')
    BY <2>1, <2>4 DEF Quiet, Elsewhere
  <2> QED BY <2>4, <2>5 DEF Quiet
<1>4. Reaped(proc, q) = proc \/ (Dead(q) /\ q \in Procs /\ Reaped(proc, q) = [proc EXCEPT ![q] = Nobody])
  <2>1. CASE proc[q].state = "stopped"
    BY <2>1 DEF Reaped
  <2>2. CASE q \notin Procs
    <3>1. proc = [x \in Procs |-> proc[x]]
      BY <1>1 DEF Families, IsTable
    <3>2. [proc EXCEPT ![q] = Nobody] = proc
      BY <3>1, <2>2
    <3> QED BY <3>2 DEF Reaped
  <2>3. CASE q \in Procs /\ ~(proc[q].state = "stopped")
    BY <2>3 DEF Reaped
  <2> QED BY <2>1, <2>2, <2>3
<1> QED BY <1>2, <1>3, <1>4

LEMMA WaitElsewhere ==
  ASSUME Tidy, NEW p \in Procs, p # Main, Wait(p)
  PROVE  Quiet(proc, proc')
<1>1. Families(proc) /\ IsProcess(proc[p]) /\ proc[p].state = "running" /\ Runs(p)
  BY RunsAsProcess DEF Wait, At, Runs
<1> DEFINE q == proc[p].job.pids[Len(proc[p].job.waits) + 1]
           r == [proc[p] EXCEPT !.job.waits = Append(@, WaitStatus(q))]
<1>2. Dead(q) \/ proc[q].state = "stopped"
  BY DEF Wait, Reapable
<1>3. q # p
  BY <1>1, <1>2 DEF Dead
<1>4. Reaped(proc, q)[p] = proc[p]
  BY <1>1, <1>3 DEF Reaped, Families, IsTable
<1>5. proc' = [Reaped(proc, q) EXCEPT ![p] = r]
  BY <1>4 DEF Wait
<1>6. Further(proc, p, r)
  BY <1>1 DEF Further, IsProcess, Fields
<1> HIDE DEF q, r
<1> QED BY <1>1, <1>2, <1>5, <1>6, ReapedElsewhere

(* A process ends. *)
LEMMA DieElsewhere ==
  ASSUME HasRoom, Tidy, NEW p \in Procs, p # Main, Runs(p), NEW how \in {"exited", "killed"}, NEW code,
         Die(p, how, code)
  PROVE  Quiet(proc, proc')
<1>1. Families(proc) /\ IsProcess(proc[p]) /\ proc[p].state = "running" /\ Raises(proc, Main)
  BY RunsAsProcess, MainIsThere DEF Runs, Tidy, Steady, Reigns, Raises
<1> DEFINE r == Ended(p, how, code)
<1>2. IsProcess(r) /\ Gone(r) /\ r.state # "free" /\ r.parent = proc[p].parent /\ r.tty = proc[p].tty
  BY <1>1 DEF Ended, IsProcess, Fields, Gone
<1>3. proc' = Adopted([proc EXCEPT ![p] = r])
  BY DEF Die
<1> HIDE DEF r
<1> QED BY <1>1, <1>2, <1>3, EndsElsewhere DEF Quiet

(* A command of another shell is over. *)
LEMMA IsOver ==
  ASSUME NEW r, IsProcess(r), NEW status, NEW noted
  PROVE  LET o == Over(r, status, noted) IN
           /\ IsProcess(o) /\ o.state = r.state /\ o.parent = r.parent /\ o.tty = r.tty /\ o.prog = r.prog
           /\ o.job = NoJob /\ o.r = r.r /\ o.w = r.w /\ o.bg = r.bg /\ o.group = r.group
BY DEF Over, IsProcess, Fields

LEMMA OverElsewhere ==
  ASSUME Tidy, NEW p \in Procs, p # Main, Runs(p), NEW status, NEW noted,
         proc' = [proc EXCEPT ![p] = Over(@, status, noted)]
  PROVE  Quiet(proc, proc')
<1>1. Families(proc) /\ IsProcess(proc[p]) /\ proc[p].state = "running"
  BY RunsAsProcess DEF Runs
<1>2. Further(proc, p, Over(proc[p], status, noted))
  BY <1>1, IsOver DEF Further
<1> QED BY <1>1, <1>2, QuietlyOn

LEMMA FinishElsewhere ==
  ASSUME HasRoom, Tidy, NEW p \in Procs, p # Main, Finish(p)
  PROVE  Quiet(proc, proc')
<1>1. Runs(p)
  BY DEF Finish, At
<1>2. ASSUME NEW status, NEW noted, proc' = [proc EXCEPT ![p] = Over(@, status, noted)] PROVE Quiet(proc, proc')
  BY <1>1, <1>2, OverElsewhere
<1>3. Die(p, "killed", INT) => Quiet(proc, proc')
  BY <1>1, DieElsewhere
<1> QED BY <1>2, <1>3 DEF Finish

LEMMA IsDetached ==
  ASSUME NEW p, IsProcess(proc[p]), NEW prog, NEW kind
  PROVE  LET c == Detached(p, prog, kind) IN
           IsProcess(c) /\ c.state = "forked" /\ c.parent = p /\ c.tty = FALSE
BY DEF Detached, Child, IsProcess, Fields

LEMMA ForkedElsewhere ==
  ASSUME HasRoom, Tidy, NEW p \in Procs, p # Main, Runs(p), Shell(p), Slots # {}, NEW c, NEW r,
         IsProcess(c), c.state = "forked", c.parent = p, c.tty = FALSE, Further(proc, p, r),
         proc' = [proc EXCEPT ![Slot] = c, ![p] = r]
  PROVE  Quiet(proc, proc')
<1>1. Families(proc) /\ Raises(proc, p)
  BY RunsAsProcess DEF Runs, Shell, Raises
<1>2. Slot \in Procs /\ proc[Slot].state = "free"
  BY SlotIsFree
<1>3. Slot # Main
  BY <1>2 DEF Tidy, Steady, Reigns
<1>4. Forked(proc, Slot, c, p, r)
  BY <1>1, <1>2, <1>3 DEF Forked
<1> QED BY <1>1, <1>4, IsForked, IsForkedElsewhere, MainIsThere DEF Quiet

LEMMA run_asyncElsewhere ==
  ASSUME HasRoom, Tidy, NEW p \in Procs, p # Main, run_async(p)
  PROVE  Quiet(proc, proc')
<1>1. Families(proc) /\ IsProcess(proc[p]) /\ Runs(p) /\ Shell(p) /\ proc[p].state = "running"
  BY RunsAsProcess DEF run_async, Idle, Runs
<1> DEFINE c == [Detached(p, Stages(p)[1], "async") EXCEPT !.in = Null]
           s == [proc[p] EXCEPT !.bg = Append(@, Slot)]
           r == Over(s, 0, FALSE)
<1>2. CASE Slots # {} /\ proc' = [proc EXCEPT ![Slot] = c, ![p] = Over([proc[p] EXCEPT !.bg = Append(@, Slot)], 0, FALSE)]
  <2>2. proc' = [proc EXCEPT ![Slot] = c, ![p] = r]
    BY <1>2
  <2>3. IsProcess(s) /\ s.state = proc[p].state /\ s.parent = proc[p].parent /\ s.tty = proc[p].tty /\ s.prog = proc[p].prog
    BY <1>1 DEF IsProcess, Fields
  <2>4. IsProcess(c) /\ c.state = "forked" /\ c.parent = p /\ c.tty = FALSE
    <3> DEFINE k == Detached(p, Stages(p)[1], "async")
    <3>1. IsProcess(k) /\ k.state = "forked" /\ k.parent = p /\ k.tty = FALSE
      BY <1>1, IsDetached
    <3>2. c = [k EXCEPT !.in = Null]
      OBVIOUS
    <3> HIDE DEF k, c
    <3> QED BY <3>1, <3>2 DEF IsProcess, Fields
  <2> HIDE DEF c, s
  <2>5. IsProcess(r) /\ r.state = s.state /\ r.parent = s.parent /\ r.tty = s.tty /\ r.prog = s.prog
    BY <2>3 DEF Over, IsProcess, Fields
  <2> HIDE DEF r
  <2>6. Further(proc, p, r)
    BY <1>1, <2>3, <2>5 DEF Further
  <2> QED BY <1>1, <1>2, <2>2, <2>4, <2>6, ForkedElsewhere
<1>3. CASE proc' = [proc EXCEPT ![p] = Over(@, 1, FALSE)]
  BY <1>1, <1>3, OverElsewhere
<1> QED BY <1>2, <1>3 DEF run_async

LEMMA run_waitElsewhere ==
  ASSUME Tidy, NEW p \in Procs, p # Main, run_wait(p)
  PROVE  Quiet(proc, proc')
<1>1. Families(proc) /\ IsProcess(proc[p]) /\ Runs(p) /\ proc[p].state = "running"
  BY RunsAsProcess DEF run_wait, Idle, Runs
<1> DEFINE q == Head(proc[p].bg)
           r == [proc[p] EXCEPT !.bg = Tail(@)]
<1>2. Further(proc, p, r)
  BY <1>1 DEF Further, IsProcess, Fields
<1>3. CASE proc' = [proc EXCEPT ![p] = Over(@, 0, FALSE)]
  BY <1>1, <1>3, OverElsewhere
<1>4. CASE proc' = [proc EXCEPT ![p].bg = Tail(@)]
  <2>1. proc' = [proc EXCEPT ![p] = r]
    BY <1>4
  <2> HIDE DEF r
  <2> QED BY <1>1, <1>2, <2>1, QuietlyOn
<1>5. CASE Dead(q) /\ proc' = [Reaped(proc, q) EXCEPT ![p].bg = Tail(@)]
  <2>1. q # p
    BY <1>1, <1>5 DEF Dead
  <2>2. Reaped(proc, q)[p] = proc[p]
    BY <1>1, <2>1 DEF Reaped, Families, IsTable
  <2>3. proc' = [Reaped(proc, q) EXCEPT ![p] = r]
    BY <1>5, <2>2
  <2> HIDE DEF q, r
  <2> QED BY <1>1, <1>2, <1>5, <2>3, ReapedElsewhere
<1> QED BY <1>3, <1>4, <1>5 DEF run_wait, Reapable

LEMMA captureElsewhere ==
  ASSUME HasRoom, Tidy, NEW p \in Procs, p # Main, capture(p)
  PROVE  Quiet(proc, proc')
<1>1. Families(proc) /\ IsProcess(proc[p]) /\ Runs(p) /\ Shell(p) /\ proc[p].state = "running"
  BY RunsAsProcess DEF capture, Idle, Runs
<1> DEFINE c == [Detached(p, Stages(p)[1], "capture") EXCEPT !.out = NewPipe]
           r == [proc[p] EXCEPT !.r = @ \union {NewPipe}, !.job.at = "read", !.job.pipe = NewPipe, !.job.pids = <<Slot>>]
<1>2. CASE Slots # {} /\ proc' = [proc EXCEPT ![Slot] = c, ![p].r = @ \union {NewPipe}, ![p].job.at = "read",
                                              ![p].job.pipe = NewPipe, ![p].job.pids = <<Slot>>]
  <2>1. proc[Slot].state = "free" /\ Slot # p
    BY <1>1, <1>2, SlotIsFree
  <2>2. IsProcess(c) /\ c.state = "forked" /\ c.parent = p /\ c.tty = FALSE
    <3> DEFINE k == Detached(p, Stages(p)[1], "capture")
    <3>1. IsProcess(k) /\ k.state = "forked" /\ k.parent = p /\ k.tty = FALSE
      BY <1>1, IsDetached
    <3>2. c = [k EXCEPT !.out = NewPipe]
      OBVIOUS
    <3> HIDE DEF k, c
    <3> QED BY <3>1, <3>2 DEF IsProcess, Fields
  <2>3. Further(proc, p, r)
    BY <1>1 DEF Further, IsProcess, Fields
  <2> HIDE DEF c
  <2>4. proc' = [proc EXCEPT ![Slot] = c, ![p] = r]
    BY <1>2, <2>1
  <2> HIDE DEF r
  <2> QED BY <1>1, <1>2, <2>2, <2>3, <2>4, ForkedElsewhere
<1>3. CASE proc' = [proc EXCEPT ![p] = Over(@, 2, FALSE)]
  BY <1>1, <1>3, OverElsewhere
<1> QED BY <1>2, <1>3 DEF capture

LEMMA ReadOutputElsewhere ==
  ASSUME Tidy, NEW p \in Procs, p # Main, ReadOutput(p)
  PROVE  Quiet(proc, proc')
<1>1. Families(proc) /\ IsProcess(proc[p]) /\ proc[p].state = "running"
  BY RunsAsProcess DEF ReadOutput, At, Runs
<1>2. CASE UNCHANGED proc
  BY <1>1, <1>2 DEF Quiet, Elsewhere
<1>3. CASE proc' = [proc EXCEPT ![p] = EndOfRead(@)]
  <2>1. Further(proc, p, EndOfRead(proc[p]))
    BY <1>1 DEF EndOfRead, Further, IsProcess, Fields
  <2> QED BY <1>1, <1>3, <2>1, QuietlyOn
<1> QED BY <1>2, <1>3 DEF ReadOutput

LEMMA CapturedElsewhere ==
  ASSUME Tidy, NEW p \in Procs, p # Main, Captured(p)
  PROVE  Quiet(proc, proc')
<1>1. Runs(p)
  BY DEF Captured, At
<1>2. ASSUME NEW status, proc' = [proc EXCEPT ![p] = Over(@, status, FALSE)] PROVE Quiet(proc, proc')
  BY <1>1, <1>2, OverElsewhere
<1> QED BY <1>2 DEF Captured

(* One field of a process that has not been stopped is set. *)
LEMMA StateElsewhere ==
  ASSUME Tidy, NEW p \in Procs, p # Main, proc[p].state \in {"forked", "joined"}, NEW s, s \in {"joined", "running"},
         proc' = [proc EXCEPT ![p].state = s]
  PROVE  Quiet(proc, proc')
<1>1. Families(proc) /\ IsProcess(proc[p]) /\ ~(proc[p].state = "stopped") /\ ~(proc[p].state = "running")
  BY RunsAsProcess
<1>2. Further(proc, p, [proc[p] EXCEPT !.state = s])
  BY <1>1 DEF Further, IsProcess, Fields
<1> QED BY <1>1, <1>2, QuietlyOn

LEMMA HeldElsewhere ==
  ASSUME Tidy, NEW p \in Procs, p # Main, Runs(p), NEW held, proc' = [proc EXCEPT ![p].held = held]
  PROVE  Quiet(proc, proc')
<1>1. Families(proc) /\ IsProcess(proc[p]) /\ proc[p].state = "running"
  BY RunsAsProcess DEF Runs
<1>2. Further(proc, p, [proc[p] EXCEPT !.held = held])
  BY <1>1 DEF Further, IsProcess, Fields
<1> QED BY <1>1, <1>2, QuietlyOn

(* Some programs are stopped: they have no children. *)
Stopping(t, u) ==
  /\ u = [q \in Procs |-> u[q]]
  /\ \A q \in Procs :
        \/ u[q] = t[q]
        \/ /\ q # Main /\ t[q].state = "running" /\ ~Raises(t, q)
           /\ IsProcess(u[q]) /\ u[q].state = "stopped" /\ u[q].parent = t[q].parent /\ u[q].tty = t[q].tty

LEMMA StoppedElsewhere ==
  ASSUME NEW t, Families(t), Main \in Procs, NEW u, Stopping(t, u)
  PROVE  Quiet(t, u)
<1>1. \A q \in Procs : u[q].state = "free" \/ IsProcess(u[q])
  BY DEF Stopping, Families, IsTable
<1>2. IsTable(u)
  BY <1>1 DEF Stopping, IsTable
<1>3. \A q : Raises(t, q) => Raises(u, q) /\ u[q] = t[q]
  BY DEF Stopping, Raises
<1>4. ASSUME NEW q \in Procs
      PROVE  /\ u[q].state = "free" <=> t[q].state = "free"
             /\ ~(u[q].state = "free") => u[q].parent = t[q].parent /\ (u[q].tty <=> t[q].tty)
             /\ t[q].state = "stopped" => u[q].state = "stopped"
  BY DEF Stopping
<1>5. ASSUME NEW q \in Procs \ {Main}, ~(u[q].state = "free"), ~(u[q].parent = 0)
      PROVE  Raised(u, q)
  <2>1. Raised(t, q) /\ u[q].parent = t[q].parent /\ (u[q].tty <=> t[q].tty)
    BY <1>4, <1>5 DEF Families, Kin
  <2> QED BY <2>1, <1>3 DEF Raised
<1>6. Kin(u)
  BY <1>5 DEF Kin
<1>7. u[Main] = t[Main]
  BY DEF Stopping
<1>8. \A q \in Procs : Ours(u, q) => Ours(t, q) /\ (u[q].tty <=> t[q].tty) /\ (t[q].state = "stopped" => u[q].state = "stopped")
  BY <1>4 DEF Ours
<1> QED BY <1>2, <1>6, <1>7, <1>8 DEF Quiet, Families, Elsewhere

(* Some have ended: init takes what they leave. *)
Ending(t, u) ==
  /\ u = [q \in Procs |-> u[q]] /\ u[Main] = t[Main]
  /\ \A q \in Procs :
        \/ u[q] = t[q]
        \/ /\ ~(t[q].state = "free") /\ ~(t[q].state = "stopped")
           /\ IsProcess(u[q]) /\ Gone(u[q]) /\ ~(u[q].state = "free")
           /\ u[q].parent = t[q].parent /\ u[q].tty = t[q].tty

LEMMA EndedElsewhere ==
  ASSUME HasRoom, NEW t, Families(t), Raises(t, Main), NEW u, Ending(t, u)
  PROVE  Quiet(t, Adopted(u))
<1>1. \A q \in Procs : u[q].state = "free" \/ IsProcess(u[q])
  BY DEF Ending, Families, IsTable
<1>2. IsTable(u)
  BY <1>1 DEF Ending, IsTable
<1>3. \A q \in Procs : Gone(u[q]) \/ u[q] = t[q]
  BY DEF Ending
<1>4. Raises(u, Main)
  BY DEF Ending, Raises
<1>5. ASSUME NEW q \in Procs
      PROVE  /\ u[q].state = "free" <=> t[q].state = "free"
             /\ ~(u[q].state = "free") => u[q].parent = t[q].parent /\ (u[q].tty <=> t[q].tty)
             /\ t[q].state = "stopped" => u[q].state = "stopped"
  BY DEF Ending
<1>6. ASSUME NEW q \in Procs \ {Main}, ~(u[q].state = "free"), ~(u[q].parent = 0)
      PROVE  Raised(u, q) \/ Bereft(u, q)
  <2>1. Raised(t, q) /\ u[q].parent = t[q].parent /\ (u[q].tty <=> t[q].tty)
    BY <1>5, <1>6 DEF Families, Kin
  <2>2. u[q].parent \in Procs
    BY <2>1 DEF Raised, Raises
  <2>3. CASE Gone(u[u[q].parent])
    BY <2>2, <2>3 DEF Bereft
  <2>4. CASE u[u[q].parent] = t[u[q].parent]
    BY <2>1, <2>4 DEF Raised, Raises
  <2> QED BY <2>2, <2>3, <2>4, <1>3
<1>7. Shaken(u)
  BY <1>2, <1>4, <1>6 DEF Shaken
<1>8. u[Main] = t[Main]
  BY DEF Ending
<1>9. \A q \in Procs : Ours(u, q) => Ours(t, q) /\ (u[q].tty <=> t[q].tty) /\ (t[q].state = "stopped" => u[q].state = "stopped")
  BY <1>5 DEF Ours
<1>10. Elsewhere(t, u)
  BY <1>8, <1>9 DEF Elsewhere
<1>11. Families(Adopted(u)) /\ Elsewhere(t, Adopted(u))
  BY <1>2, <1>7, <1>10, IsAdopted, IsAdoptedElsewhere
<1> QED BY <1>11 DEF Quiet

(* The steps of a program. *)
LEMMA ProgramElsewhere ==
  ASSUME HasRoom, Tidy, NEW p \in Procs, Exits(p) \/ Writes(p) \/ Reads(p) \/ Pages(p)
  PROVE  Quiet(proc, proc') /\ p # Main
<1>1. Families(proc) /\ IsProcess(proc[p]) /\ Runs(p) /\ proc[p].state = "running" /\ ~Shell(p)
  BY RunsAsProcess DEF Exits, Writes, Reads, Pages, Running, Runs
<1>2. p # Main /\ ~Raises(proc, p)
  BY <1>1 DEF Shell, Raises
<1>3. \A code : Die(p, "exited", code) => Quiet(proc, proc')
  BY <1>1, <1>2, DieElsewhere
<1>4. \A code : Die(p, "killed", code) => Quiet(proc, proc')
  BY <1>1, <1>2, DieElsewhere
<1>5. /\ proc' = [proc EXCEPT ![p].held = TRUE] => Quiet(proc, proc')
      /\ proc' = [proc EXCEPT ![p].held = FALSE] => Quiet(proc, proc')
  BY <1>1, <1>2, HeldElsewhere
<1>6. CASE proc' = [proc EXCEPT ![p].state = "stopped", ![p].last = TTIN]
  <2> DEFINE r == [proc[p] EXCEPT !.state = "stopped", !.last = TTIN]
  <2>1. proc' = [proc EXCEPT ![p] = r]
    BY <1>6
  <2>2. IsProcess(r) /\ r.state = "stopped" /\ r.parent = proc[p].parent /\ r.tty = proc[p].tty
    BY <1>1 DEF IsProcess, Fields
  <2> HIDE DEF r
  <2> DEFINE u == [proc EXCEPT ![p] = r]
  <2>3. Stopping(proc, u)
    BY <1>1, <1>2, <2>2 DEF Stopping, Families, IsTable
  <2> HIDE DEF u
  <2>4. Quiet(proc, u)
    BY <1>1, <2>3, StoppedElsewhere, MainIsThere
  <2> QED BY <1>2, <2>1, <2>4 DEF u
<1>7. CASE Exits(p)
  BY <1>2, <1>3, <1>7 DEF Exits
<1>8. CASE Writes(p)
  BY <1>2, <1>3, <1>4, <1>5, <1>8 DEF Writes
<1>9. CASE Reads(p)
  BY <1>2, <1>3, <1>5, <1>9 DEF Reads
<1>10. CASE Pages(p)
  BY <1>2, <1>3, <1>6, <1>10 DEF Pages
<1> QED BY <1>7, <1>8, <1>9, <1>10

LEMMA JoinElsewhere ==
  ASSUME Tidy, NEW p \in Procs, Join(p) \/ Begin(p)
  PROVE  Quiet(proc, proc') /\ p # Main
<1>1. proc[p].state \in {"forked", "joined"}
  BY DEF Join, Begin
<1>2. p # Main
  BY <1>1 DEF Tidy, Steady, Reigns
<1>3. \A s \in {"joined", "running"} : proc' = [proc EXCEPT ![p].state = s] => Quiet(proc, proc')
  BY <1>1, <1>2, StateElsewhere
<1>4. CASE Join(p)
  <2> DEFINE s == IF proc[p].kind \in {"pipeline", "simple"} THEN "joined" ELSE "running"
  <2>1. s \in {"joined", "running"} /\ proc' = [proc EXCEPT ![p].state = s]
    BY <1>4 DEF Join
  <2> HIDE DEF s
  <2> QED BY <2>1, <1>2, <1>3
<1>5. CASE Begin(p)
  BY <1>2, <1>3, <1>5 DEF Begin
<1> QED BY <1>4, <1>5

(* Every step of another process leaves the interactive shell as it is.    *)
LEMMA StepElsewhere ==
  ASSUME HasRoom, Tidy, NEW p \in Procs, p # Main, Step(p)
  PROVE  Quiet(proc, proc')
<1>1. CASE MakePipe(p)
  BY <1>1, MakePipeElsewhere
<1>2. CASE ForkStage(p)
  BY <1>2, ForkStageElsewhere
<1>3. CASE Wait(p)
  BY <1>3, WaitElsewhere
<1>4. CASE Finish(p)
  BY <1>4, FinishElsewhere
<1>5. CASE run_async(p)
  BY <1>5, run_asyncElsewhere
<1>6. CASE run_wait(p)
  BY <1>6, run_waitElsewhere
<1>7. CASE capture(p)
  BY <1>7, captureElsewhere
<1>8. CASE ReadOutput(p)
  BY <1>8, ReadOutputElsewhere
<1>9. CASE Captured(p)
  BY <1>9, CapturedElsewhere
<1>10. CASE Leave(p)
  <2>1. Runs(p)
    BY <1>10 DEF Leave, Idle
  <2> QED BY <1>10, <2>1, DieElsewhere DEF Leave
<1>11. CASE Join(p) \/ Begin(p)
  BY <1>11, JoinElsewhere
<1>12. CASE Exits(p) \/ Writes(p) \/ Reads(p) \/ Pages(p)
  BY <1>12, ProgramElsewhere
<1> QED BY <1>1, <1>2, <1>3, <1>4, <1>5, <1>6, <1>7, <1>8, <1>9, <1>10, <1>11, <1>12 DEF Step

-----------------------------------------------------------------------------
(* The steps of the interactive shell itself.                              *)
LEMMA FailCounts ==
  ASSUME IsCount(typed), Fail
  PROVE  IsCount(typed') /\ typed'.failures = typed.failures + 1
<1>1. typed = [lines |-> typed.lines, keys |-> typed.keys, failures |-> typed.failures] /\ typed.failures \in Nat
  BY DEF IsCount
<1>2. typed' = [lines |-> typed.lines, keys |-> typed.keys, failures |-> typed.failures + 1]
  BY <1>1 DEF Fail
<1> QED BY <1>1, <1>2 DEF IsCount

LEMMA MainIs ==
  ASSUME HasRoom, Tidy
  PROVE  /\ Families(proc) /\ Reigns(proc[Main]) /\ IsCount(typed) /\ typed.failures \in Nat /\ Answers(proc)
         /\ Holds(proc[Main], typed.failures) /\ IsProcess(proc[Main]) /\ IsJob(proc[Main].job)
         /\ proc[Main].state = "running" /\ Raises(proc, Main) /\ Main \in Procs
BY MainIsThere DEF Tidy, Steady, Reigns, IsCount, Raises

(* Its record with the fields of its job and its pipes set. *)
JobSet(m, n) ==
  /\ IsProcess(n) /\ n.state = m.state /\ n.parent = m.parent /\ n.tty = m.tty /\ n.prog = m.prog
  /\ n.group = m.group /\ n.bg = m.bg /\ n.todo = m.todo /\ n.job = [f \in JobFields |-> n.job[f]]

LEMMA JobSetIsFurther ==
  ASSUME HasRoom, Tidy, NEW n, JobSet(proc[Main], n)
  PROVE  Further(proc, Main, n)
BY MainIs DEF JobSet, Further

LEMMA JobSetReigns ==
  ASSUME HasRoom, Tidy, NEW n, JobSet(proc[Main], n), n.job.pids \in Seq(Procs), IsList(n.job.waits),
         Len(n.job.waits) <= Len(n.job.pids), n.job.at # "idle"
  PROVE  Reigns(n)
BY MainIs DEF JobSet, Reigns, IsJob

LEMMA MainMakesPipe ==
  ASSUME HasRoom, Tidy, MakePipe(Main)
  PROVE  Families(proc') /\ Steady(proc', typed')
<1> DEFINE m == proc[Main]
           i == m.job.next + 1
<1>1. /\ Families(proc) /\ Reigns(m) /\ IsCount(typed) /\ typed.failures \in Nat /\ Answers(proc)
      /\ Holds(m, typed.failures) /\ IsProcess(m) /\ IsJob(m.job)
  BY MainIs
<1>2. m.job.at = "pipe" \/ m.job = NoJob
  BY <1>1 DEF MakePipe, Idle, At, IsJob
<1>3. Working(m.job) \subseteq {m.job.from} /\ m.w = {} /\ m.r \subseteq Pipes
  BY <1>1, <1>2 DEF Working, Holds, NoJob
<1>4. ASSUME NEW n, JobSet(m, n), n.job.at # "idle", n.job.pids = m.job.pids, n.job.waits = m.job.waits
      PROVE  Reigns(n) /\ Remembers(proc, n) /\ Further(proc, Main, n)
  <2>1. Reigns(n) /\ Further(proc, Main, n)
    BY <1>1, <1>4, JobSetReigns, JobSetIsFurther DEF IsJob
  <2>2. n.bg = m.bg /\ \A q : Awaited(m.job, q) <=> Awaited(n.job, q)
    BY <1>4 DEF JobSet, Awaited
  <2>3. Remembers(proc, n)
    BY <2>2, <1>1, RemembersMore
  <2> QED BY <2>1, <2>3
<1>5. CASE /\ i = Len(Stages(Main)) /\ UNCHANGED typed
           /\ proc' = [proc EXCEPT ![Main].job.at = "fork", ![Main].job.next = i, ![Main].job.pipe = 0]
  <2> DEFINE n == [m EXCEPT !.job.at = "fork", !.job.next = i, !.job.pipe = 0]
  <2>1. proc' = [proc EXCEPT ![Main] = n]
    BY <1>5
  <2>2. JobSet(m, n) /\ n.job.at = "fork" /\ n.job.pids = m.job.pids /\ n.job.waits = m.job.waits
        /\ n.job.pipe = 0 /\ n.job.from = m.job.from /\ n.r = m.r /\ n.w = m.w
    BY <1>1 DEF JobSet, IsProcess, Fields, IsJob, JobFields
  <2> HIDE DEF n, i
  <2>3. Opens(n) /\ n.r \ Working(n.job) \subseteq m.r \ Working(m.job)
    BY <1>3, <2>2 DEF Opens, Working
  <2>4. Holds(n, typed.failures)
    BY <1>1, <2>3, HoldsNoMore
  <2>5. Reigns(n) /\ Remembers(proc, n) /\ Further(proc, Main, n)
    BY <1>4, <2>2
  <2>6. Families(proc') /\ Steady(proc', typed)
    BY <1>1, <2>1, <2>4, <2>5, MainGoesOn
  <2> QED BY <1>5, <2>6
<1>6. CASE /\ FreePipes # {} /\ i # Len(Stages(Main)) /\ UNCHANGED typed
           /\ proc' = [proc EXCEPT ![Main].job.at = "fork", ![Main].job.next = i, ![Main].job.pipe = NewPipe,
                                   ![Main].r = @ \union {NewPipe}, ![Main].w = @ \union {NewPipe}]
  <2> DEFINE n == [m EXCEPT !.job.at = "fork", !.job.next = i, !.job.pipe = NewPipe,
                            !.r = @ \union {NewPipe}, !.w = @ \union {NewPipe}]
  <2>1. proc' = [proc EXCEPT ![Main] = n]
    BY <1>6
  <2>2. JobSet(m, n) /\ n.job.at = "fork" /\ n.job.pids = m.job.pids /\ n.job.waits = m.job.waits /\ n.job.next = i
        /\ n.job.pipe = NewPipe /\ n.job.from = m.job.from /\ n.r = m.r \union {NewPipe} /\ n.w = m.w \union {NewPipe}
    BY <1>1 DEF JobSet, IsProcess, Fields, IsJob, JobFields
  <2>3. Stages(Main) = Head(n.todo).stages
    BY <2>2 DEF Stages, Command, JobSet
  <2>4. NewPipe \in Pipes
    BY <1>6, PipeIsThere
  <2> HIDE DEF n, i
  <2>5. Opens(n) /\ n.r \ Working(n.job) \subseteq m.r \ Working(m.job)
    BY <1>3, <1>6, <2>2, <2>3, <2>4 DEF Opens, Working
  <2>6. Holds(n, typed.failures)
    BY <1>1, <2>5, HoldsNoMore
  <2>7. Reigns(n) /\ Remembers(proc, n) /\ Further(proc, Main, n)
    BY <1>4, <2>2
  <2>8. Families(proc') /\ Steady(proc', typed)
    BY <1>1, <2>1, <2>6, <2>7, MainGoesOn
  <2> QED BY <1>6, <2>8
<1>7. CASE Fail /\ proc' = [proc EXCEPT ![Main].job.at = "wait"]
  <2> DEFINE n == [m EXCEPT !.job.at = "wait"]
  <2>1. proc' = [proc EXCEPT ![Main] = n]
    BY <1>7
  <2>2. JobSet(m, n) /\ n.job.at = "wait" /\ n.job.pids = m.job.pids /\ n.job.waits = m.job.waits
        /\ n.r = m.r /\ n.w = m.w
    BY <1>1 DEF JobSet, IsProcess, Fields, IsJob, JobFields
  <2> HIDE DEF n, i
  <2>3. Opens(n) /\ n.r \ Working(n.job) \subseteq (m.r \ Working(m.job)) \union {m.job.from}
    BY <1>3, <2>2 DEF Opens
  <2>4. Holds(n, typed'.failures) /\ IsCount(typed')
    BY <1>1, <1>7, <2>3, HoldsOneMore, FailCounts
  <2> QED BY <1>1, <1>4, <2>1, <2>2, <2>4, MainGoesOn
<1> HIDE DEF m
<1> QED BY <1>5, <1>6, <1>7 DEF MakePipe, m

LEMMA AwaitsLast ==
  ASSUME NEW j, IsJob(j), NEW k, NEW s \in Procs, k.pids = Append(j.pids, s), k.waits = j.waits
  PROVE  /\ k.pids \in Seq(Procs) /\ IsList(k.waits) /\ Len(k.waits) <= Len(k.pids)
         /\ Awaited(k, s) /\ \A q : Awaited(j, q) => Awaited(k, q)
<1>1. j.pids \in Seq(Procs) /\ Len(j.waits) <= Len(j.pids) /\ Len(j.waits) \in Nat /\ Len(j.pids) \in Nat
  BY DEF IsJob, IsList
<1>2. /\ k.pids \in Seq(Procs) /\ Len(k.pids) = Len(j.pids) + 1 /\ k.pids[Len(j.pids) + 1] = s
      /\ \A i \in 1..Len(j.pids) : k.pids[i] = j.pids[i]
  BY <1>1
<1>3. Awaited(k, s)
  <2>1. Len(j.pids) + 1 \in 1..Len(k.pids) /\ Len(j.pids) + 1 > Len(k.waits)
    BY <1>1, <1>2
  <2> QED BY <1>2, <2>1 DEF Awaited
<1>4. ASSUME NEW q, Awaited(j, q) PROVE Awaited(k, q)
  <2>1. PICK i \in 1..Len(j.pids) : i > Len(j.waits) /\ j.pids[i] = q
    BY <1>4 DEF Awaited
  <2>2. i \in 1..Len(k.pids) /\ i > Len(k.waits) /\ k.pids[i] = q
    BY <1>1, <1>2, <2>1
  <2> QED BY <2>2 DEF Awaited
<1> QED BY <1>1, <1>2, <1>3, <1>4 DEF IsJob

LEMMA MainForksStage ==
  ASSUME HasRoom, Tidy, ForkStage(Main)
  PROVE  Families(proc') /\ Steady(proc', typed')
<1> DEFINE m == proc[Main]
           job == m.job
           stage == Stages(Main)[job.next]
           after == [proc[Main] EXCEPT !.r = ParentReads(Main), !.w = ParentWrites(Main), !.job.from = job.pipe,
                                       !.job.at = IF job.next = Len(Stages(Main)) THEN "wait" ELSE "pipe"]
           c == [Child(Main, Slot, stage, Command(Main).kind, job.group) EXCEPT
                   !.r = ParentReads(Main), !.w = StageWrites(Main),
                   !.in = IF job.from = 0 THEN @ ELSE job.from, !.out = IF job.pipe = 0 THEN @ ELSE job.pipe]
           n == [after EXCEPT !.job.pids = Append(@, Slot), !.job.group = IF @ = 0 THEN Slot ELSE @]
<1>1. /\ Families(proc) /\ Reigns(m) /\ IsCount(typed) /\ typed.failures \in Nat /\ Answers(proc)
      /\ Holds(m, typed.failures) /\ IsProcess(m) /\ IsJob(job) /\ Raises(proc, Main) /\ m.state = "running"
  BY MainIs
<1>2. job.at = "fork" /\ m.r \subseteq Pipes /\ m.w \subseteq {job.pipe} /\ Stages(Main) = Head(m.todo).stages
      /\ (job.next = Len(Stages(Main)) => job.pipe = 0)
  BY <1>1 DEF ForkStage, At, Holds, Stages, Command
<1>3. JobSet(m, after) /\ after.job.pids = job.pids /\ after.job.waits = job.waits
      /\ after.job.from = job.pipe /\ after.job.at = (IF job.next = Len(Stages(Main)) THEN "wait" ELSE "pipe")
      /\ after.r = m.r \ {job.from} /\ after.w = m.w \ {job.pipe}
  BY <1>1 DEF JobSet, IsProcess, Fields, IsJob, JobFields, ParentReads, ParentWrites
<1>4. ASSUME NEW x, x.r = m.r \ {job.from}, x.w = m.w \ {job.pipe}, x.job.from = job.pipe,
             x.job.at = (IF job.next = Len(Stages(Main)) THEN "wait" ELSE "pipe")
      PROVE  Opens(x) /\ x.r \ Working(x.job) \subseteq m.r \ Working(job)
  <2>1. 0 \notin Pipes
    BY DEF HasRoom, Pipes
  <2>2. Opens(x)
    BY <1>2, <1>4 DEF Opens
  <2>3. Working(job) = {job.from, job.pipe}
    BY <1>2 DEF Working
  <2>4. CASE job.next = Len(Stages(Main))
    <3>1. Working(x.job) = {} /\ job.pipe \notin m.r
      BY <1>2, <1>4, <2>1, <2>4 DEF Working
    <3> QED BY <3>1, <2>2, <2>3, <1>4
  <2>5. CASE job.next # Len(Stages(Main))
    <3>1. Working(x.job) = {job.pipe}
      BY <1>4, <2>5 DEF Working
    <3> QED BY <3>1, <2>2, <2>3, <1>4
  <2> QED BY <2>4, <2>5
<1>5. CASE Slots # {} /\ proc' = [proc EXCEPT ![Slot] = c, ![Main] = n] /\ UNCHANGED typed
  <2>1. Slot \in Procs /\ proc[Slot].state = "free"
    BY <1>5, SlotIsFree
  <2>2. Slot # Main
    BY <2>1, <1>1
  <2>3. IsProcess(c) /\ c.state = "forked" /\ c.parent = Main /\ c.tty = m.tty
    <3> DEFINE k == Child(Main, Slot, stage, Command(Main).kind, job.group)
               in == IF job.from = 0 THEN k.in ELSE job.from
               out == IF job.pipe = 0 THEN k.out ELSE job.pipe
    <3>1. IsProcess(k) /\ k.state = "forked" /\ k.parent = Main /\ k.tty = m.tty
      BY <1>1, IsChild
    <3>2. c = [k EXCEPT !.r = ParentReads(Main), !.w = StageWrites(Main), !.in = in, !.out = out]
      OBVIOUS
    <3> HIDE DEF k, in, out, c
    <3> QED BY <3>1, <3>2 DEF IsProcess, Fields
  <2> HIDE DEF c
  <2>4. JobSet(m, n) /\ n.job.pids = Append(job.pids, Slot) /\ n.job.waits = job.waits
        /\ n.job.from = job.pipe /\ n.job.at = (IF job.next = Len(Stages(Main)) THEN "wait" ELSE "pipe")
        /\ n.r = m.r \ {job.from} /\ n.w = m.w \ {job.pipe}
    <3> HIDE DEF after
    <3> QED BY <1>3 DEF JobSet, IsProcess, Fields, JobFields
  <2> HIDE DEF n
  <2>5. Holds(n, typed.failures)
    BY <1>1, <1>4, <2>4, HoldsNoMore
  <2>6. /\ n.job.pids \in Seq(Procs) /\ IsList(n.job.waits) /\ Len(n.job.waits) <= Len(n.job.pids)
        /\ Awaited(n.job, Slot) /\ \A q : Awaited(job, q) => Awaited(n.job, q)
    BY <1>1, <2>1, <2>4, AwaitsLast
  <2>7. Reigns(n) /\ Further(proc, Main, n)
    BY <2>4, <2>6, JobSetReigns, JobSetIsFurther
  <2>8. Remembers(proc, n)
    <3>1. n.bg = m.bg
      BY <2>4 DEF JobSet
    <3> QED BY <3>1, <2>6, <1>1, RemembersMore
  <2>9. Forked(proc, Slot, c, Main, n)
    BY <1>1, <2>1, <2>2, <2>3, <2>7 DEF Forked
  <2>10. Families(proc') /\ Steady(proc', typed)
    BY <1>1, <1>5, <2>5, <2>6, <2>7, <2>8, <2>9, MainForks
  <2> QED BY <1>5, <2>10
<1>6. CASE Fail /\ proc' = [proc EXCEPT ![Main] = after]
  <2> HIDE DEF after
  <2>1. Opens(after) /\ after.r \ Working(after.job) \subseteq (m.r \ Working(job)) \union {0}
    BY <1>3, <1>4
  <2>2. Holds(after, typed'.failures) /\ IsCount(typed')
    BY <1>1, <1>6, <2>1, HoldsOneMore, FailCounts
  <2>3. Reigns(after) /\ Further(proc, Main, after)
    BY <1>1, <1>3, JobSetReigns, JobSetIsFurther DEF IsJob
  <2>4. Remembers(proc, after)
    <3>1. after.bg = m.bg /\ \A q : Awaited(job, q) => Awaited(after.job, q)
      BY <1>3 DEF JobSet, Awaited
    <3> QED BY <3>1, <1>1, RemembersMore
  <2> QED BY <1>1, <1>6, <2>2, <2>3, <2>4, MainGoesOn
<1> QED BY <1>5, <1>6 DEF ForkStage

LEMMA ListAppend ==
  ASSUME NEW s, IsList(s), NEW x
  PROVE  IsList(Append(s, x)) /\ Len(Append(s, x)) = Len(s) + 1 /\ Len(s) \in Nat
<1> DEFINE S == {s[i] : i \in DOMAIN s} \union {x}
           u == Append(s, x)
<1>1. s \in Seq(S) /\ Len(s) \in Nat
  BY DEF IsList
<1>2. u \in Seq(S) /\ Len(u) = Len(s) + 1
  BY <1>1
<1> HIDE DEF u, S
<1>3. Len(u) \in Nat /\ DOMAIN u = 1..Len(u) /\ u = [i \in 1..Len(u) |-> u[i]]
  BY <1>2
<1>4. u \in [1..Len(u) -> {u[i] : i \in DOMAIN u}]
  BY <1>3
<1>5. u \in Seq({u[i] : i \in DOMAIN u})
  BY <1>3, <1>4
<1> QED BY <1>1, <1>2, <1>5 DEF IsList, u

(* The command is over when nobody is still to be waited for. *)
Settled(j) == j.at \in {"idle", "wait"} /\ \A q : ~Awaited(j, q)

LEMMA MainIsOver ==
  ASSUME HasRoom, Tidy, NEW c, IsCount(c), Holds(proc[Main], c.failures), NEW status, NEW noted,
         Settled(proc[Main].job),
         proc' = [proc EXCEPT ![Main] = Over(@, status, noted)]
  PROVE  Families(proc') /\ Steady(proc', c)
<1> DEFINE m == proc[Main]
           n == Over(m, status, noted)
<1>1. /\ Families(proc) /\ Reigns(m) /\ Answers(proc) /\ IsProcess(m) /\ m.state = "running" /\ Main \in Procs
  BY MainIs
<1>2. /\ IsProcess(n) /\ n.state = m.state /\ n.parent = m.parent /\ n.tty = m.tty /\ n.prog = m.prog
      /\ n.job = NoJob /\ n.r = m.r /\ n.w = m.w /\ n.bg = m.bg /\ n.group = m.group
  BY <1>1, IsOver
<1>3. proc' = [proc EXCEPT ![Main] = n]
  OBVIOUS
<1> HIDE DEF n
<1>4. Reigns(n) /\ Further(proc, Main, n)
  <2>1. IsJob(NoJob)
    BY DEF IsJob, NoJob, JobFields, IsList
  <2> QED BY <1>1, <1>2, <2>1 DEF Reigns, Further
<1>5. Remembers(proc, n)
  BY <1>1, <1>2, RemembersMore DEF Settled
<1>6. Opens(n) /\ n.r \ Working(n.job) \subseteq m.r \ Working(m.job)
  <2>1. Working(m.job) = {} /\ m.w = {} /\ m.r \subseteq Pipes
    BY DEF Working, Holds, Settled
  <2>2. n.job.at = "idle"
    BY <1>2 DEF NoJob
  <2> QED BY <1>2, <2>1, <2>2 DEF Opens
<1>7. Holds(n, c.failures)
  BY <1>6, HoldsNoMore DEF IsCount
<1>8. Families([proc EXCEPT ![Main] = n]) /\ Steady([proc EXCEPT ![Main] = n], c)
  BY <1>1, <1>4, <1>5, <1>7, MainGoesOn
<1> QED BY <1>3, <1>8

LEMMA FailHolds ==
  ASSUME HasRoom, Tidy, Fail
  PROVE  IsCount(typed') /\ Holds(proc[Main], typed'.failures)
<1> DEFINE m == proc[Main]
<1>1. Holds(m, typed.failures) /\ typed.failures \in Nat /\ IsCount(typed)
  BY MainIs
<1>2. Opens(m) /\ m.r \ Working(m.job) \subseteq (m.r \ Working(m.job)) \union {0}
  BY <1>1 DEF Opens, Holds
<1> QED BY <1>1, <1>2, HoldsOneMore, FailCounts

LEMMA IsSettled ==
  ASSUME NEW j, IsJob(j), j.at = "idle" \/ (j.at = "wait" /\ Len(j.waits) = Len(j.pids))
  PROVE  Settled(j)
<1>1. Len(j.waits) = Len(j.pids) /\ Len(j.pids) \in Nat
  BY DEF IsJob, NoJob
<1> QED BY <1>1 DEF Awaited, Settled

LEMMA MainFinishes ==
  ASSUME HasRoom, Tidy, Finish(Main) \/ Captured(Main)
  PROVE  Families(proc') /\ Steady(proc', typed')
<1>1. typed' = typed /\ proc[Main].job.at = "wait" /\ Len(proc[Main].job.waits) = Len(proc[Main].job.pids)
  BY DEF Finish, Captured, At, WaitedAll
<1>2. Settled(proc[Main].job)
  BY <1>1, MainIs, IsSettled
<1>3. ASSUME NEW status, NEW noted, proc' = [proc EXCEPT ![Main] = Over(@, status, noted)]
      PROVE  Families(proc') /\ Steady(proc', typed)
  <2>1. IsCount(typed) /\ Holds(proc[Main], typed.failures) /\ Settled(proc[Main].job)
    BY <1>2, MainIs
  <2> QED BY <1>3, <2>1, MainIsOver
<1>4. Families(proc') /\ Steady(proc', typed)
  BY <1>3 DEF Finish, Captured
<1> QED BY <1>1, <1>4

LEMMA MainWaits ==
  ASSUME HasRoom, Tidy, Wait(Main)
  PROVE  Families(proc') /\ Steady(proc', typed')
<1> DEFINE m == proc[Main]
           job == m.job
           q == job.pids[Len(job.waits) + 1]
           n == [m EXCEPT !.job.waits = Append(@, WaitStatus(q))]
           t == Reaped(proc, q)
<1>1. /\ Families(proc) /\ Reigns(m) /\ IsCount(typed) /\ typed.failures \in Nat /\ Answers(proc)
      /\ Holds(m, typed.failures) /\ IsProcess(m) /\ IsJob(job) /\ m.state = "running" /\ Main \in Procs
  BY MainIs
<1>2. job.at = "wait" /\ Len(job.waits) # Len(job.pids) /\ (Dead(q) \/ proc[q].state = "stopped") /\ typed' = typed
  BY DEF Wait, At, WaitedAll, Reapable
<1>3. Len(job.waits) \in Nat /\ Len(job.pids) \in Nat /\ Len(job.waits) < Len(job.pids) /\ IsList(job.waits)
      /\ job.pids \in Seq(Procs)
  <2>1. IsList(job.waits) /\ job.pids \in Seq(Procs) /\ Len(job.waits) <= Len(job.pids)
    BY <1>1 DEF IsJob
  <2>2. Len(job.waits) \in Nat /\ Len(job.pids) \in Nat
    BY <2>1, ListAppend
  <2> QED BY <2>1, <2>2, <1>2
<1>4. q \in Procs /\ q # Main
  BY <1>1, <1>2, <1>3 DEF Dead
<1>5. Families(t) /\ t[Main] = m /\ \A x \in Procs : x # q => t[x] = proc[x]
  <2>1. CASE proc[q].state = "stopped"
    BY <1>1, <2>1 DEF Reaped
  <2>2. CASE ~(proc[q].state = "stopped")
    <3>1. t = [proc EXCEPT ![q] = Nobody] /\ proc[q].state \in {"exited", "killed"}
      BY <1>2, <2>2 DEF Reaped, Dead
    <3> HIDE DEF t, q
    <3> QED BY <1>1, <1>4, <3>1, IsReaped DEF Families, IsTable
  <2> QED BY <2>1, <2>2
<1>6. t[q].state = "stopped" \/ t[q].state = "free"
  BY <1>1, <1>2, <1>4 DEF Reaped, Families, IsTable, Nobody
<1>7. proc' = [t EXCEPT ![Main] = n]
  BY <1>5 DEF Wait
<1>8. JobSet(m, n) /\ n.job.at = "wait" /\ n.job.pids = job.pids /\ n.job.waits = Append(job.waits, WaitStatus(q))
      /\ n.r = m.r /\ n.w = m.w
  BY <1>1, <1>2 DEF JobSet, IsProcess, Fields, IsJob, JobFields
<1> DEFINE status == WaitStatus(q)
<1> HIDE DEF t, n, status
<1>9. IsList(n.job.waits) /\ Len(n.job.waits) = Len(job.waits) + 1
  BY <1>3, <1>8, ListAppend
<1>10. Reigns(n) /\ Further(proc, Main, n)
  <2>1. n.job.pids \in Seq(Procs) /\ Len(n.job.waits) <= Len(n.job.pids) /\ n.job.at # "idle"
    BY <1>3, <1>8, <1>9
  <2> QED BY <1>8, <1>9, <2>1, JobSetReigns, JobSetIsFurther
<1>11. Further(t, Main, n)
  BY <1>5, <1>10 DEF Further
<1>12. ASSUME NEW x \in Procs, Ours(t, x), ~(t[x].state = "stopped")
       PROVE  Awaited(n.job, x) \/ (~t[x].tty /\ x \in ToSet(n.bg))
  <2>1. x # q
    BY <1>6, <1>12 DEF Ours
  <2>2. t[x] = proc[x] /\ Ours(proc, x)
    BY <1>5, <1>12, <2>1 DEF Ours
  <2>3. Answered(proc, x)
    BY <1>1, <2>2 DEF Answers
  <2>4. CASE Awaited(job, x)
    <3>1. PICK k \in 1..Len(job.pids) : k > Len(job.waits) /\ job.pids[k] = x
      BY <2>4 DEF Awaited
    <3>2. k > Len(job.waits) + 1
      BY <1>3, <2>1, <3>1
    <3> HIDE DEF job
    <3>3. k \in 1..Len(n.job.pids) /\ k > Len(n.job.waits) /\ n.job.pids[k] = x
      BY <1>8, <1>9, <3>1, <3>2
    <3> QED BY <3>3 DEF Awaited
  <2>5. CASE ~proc[x].tty /\ x \in ToSet(m.bg)
    BY <1>8, <2>2, <2>5 DEF JobSet
  <2> QED BY <2>2, <2>3, <2>4, <2>5, <1>12 DEF Answered
<1>13. Remembers(t, n)
  BY <1>12 DEF Remembers
<1>14. Holds(n, typed.failures)
  <2>1. Opens(n) /\ n.r \ Working(n.job) \subseteq m.r \ Working(job)
    BY <1>1, <1>2, <1>8 DEF Opens, Working, Holds
  <2> QED BY <1>1, <2>1, HoldsNoMore
<1>15. Families(proc') /\ Steady(proc', typed)
  BY <1>1, <1>5, <1>7, <1>10, <1>11, <1>13, <1>14, MainGoesOn
<1> QED BY <1>2, <1>15

LEMMA run_waitOfMain ==
  ASSUME HasRoom, Tidy, run_wait(Main)
  PROVE  Families(proc') /\ Steady(proc', typed')
<1> DEFINE m == proc[Main]
           q == Head(m.bg)
           n == [m EXCEPT !.bg = Tail(@)]
           t == IF proc[q].state # "free" /\ proc[q].parent = Main THEN Reaped(proc, q) ELSE proc
<1>1. /\ Families(proc) /\ Reigns(m) /\ IsCount(typed) /\ typed.failures \in Nat /\ Answers(proc)
      /\ Holds(m, typed.failures) /\ IsProcess(m) /\ IsJob(m.job) /\ m.state = "running" /\ Main \in Procs
  BY MainIs
<1>2. m.job.at = "idle" /\ typed' = typed
  BY DEF run_wait, Idle
<1>3. CASE m.bg = <<>>
  <2>1. Settled(m.job)
    BY <1>1, <1>2, IsSettled
  <2>2. proc' = [proc EXCEPT ![Main] = Over(@, 0, FALSE)]
    BY <1>3 DEF run_wait
  <2> QED BY <1>1, <1>2, <2>1, <2>2, MainIsOver
<1>4. CASE m.bg # <<>>
  <2>1. m.bg \in Seq(Procs) /\ q \in Procs /\ Tail(m.bg) \in Seq(Procs)
    BY <1>1, <1>4 DEF Reigns
  <2>2. \A x : x \in ToSet(m.bg) => x = q \/ x \in ToSet(Tail(m.bg))
    <3> SUFFICES ASSUME NEW x \in ToSet(m.bg), x # q PROVE x \in ToSet(Tail(m.bg))
      OBVIOUS
    <3>1. PICK i \in DOMAIN m.bg : m.bg[i] = x
      BY DEF ToSet
    <3>2. i \in 2..Len(m.bg)
      BY <2>1, <3>1, <1>4
    <3>3. i - 1 \in DOMAIN Tail(m.bg) /\ Tail(m.bg)[i - 1] = x
      BY <2>1, <3>1, <3>2, <1>4
    <3> QED BY <3>3 DEF ToSet
  <2>3. (proc[q].state # "free" /\ proc[q].parent = Main => Dead(q)) /\ proc' = [t EXCEPT ![Main].bg = Tail(@)]
    BY <1>4 DEF run_wait, Reapable
  <2>5. Families(t) /\ t[Main] = m /\ ~Ours(t, q) /\ \A x \in Procs : x # q => t[x] = proc[x]
    <3>1. CASE proc[q].state # "free" /\ proc[q].parent = Main
      <4>1. t = [proc EXCEPT ![q] = Nobody] /\ proc[q].state \in {"exited", "killed"} /\ q # Main
        BY <2>3, <3>1, <1>1 DEF Reaped, Dead
      <4> HIDE DEF t, q
      <4>2. Families(t)
        BY <1>1, <2>1, <4>1, IsReaped
      <4>3. t[Main] = m /\ t[q] = Nobody /\ \A x \in Procs : x # q => t[x] = proc[x]
        BY <1>1, <2>1, <4>1 DEF Families, IsTable
      <4>4. ~Ours(t, q)
        BY <4>3 DEF Ours, Nobody
      <4> QED BY <4>2, <4>3, <4>4
    <3>2. CASE ~(proc[q].state # "free" /\ proc[q].parent = Main)
      BY <1>1, <3>2 DEF Ours
    <3> QED BY <3>1, <3>2
  <2>6. proc' = [t EXCEPT ![Main] = n]
    BY <2>3, <2>5
  <2>7. /\ IsProcess(n) /\ n.state = m.state /\ n.parent = m.parent /\ n.tty = m.tty /\ n.prog = m.prog
        /\ n.group = m.group /\ n.bg = Tail(m.bg) /\ n.job = m.job /\ n.r = m.r /\ n.w = m.w
    BY <1>1 DEF IsProcess, Fields
  <2> HIDE DEF t, n, q
  <2>8. Reigns(n) /\ Further(t, Main, n)
    BY <1>1, <2>1, <2>5, <2>7 DEF Reigns, Further
  <2>9. ASSUME NEW x \in Procs, Ours(t, x)
        PROVE  t[x].state = "stopped" \/ Awaited(n.job, x) \/ (~t[x].tty /\ x \in ToSet(n.bg))
    <3>1. x # q /\ t[x] = proc[x] /\ Ours(proc, x)
      BY <2>5, <2>9 DEF Ours
    <3>2. Answered(proc, x)
      BY <1>1, <3>1 DEF Answers
    <3> QED BY <2>2, <2>7, <3>1, <3>2 DEF Answered
  <2>10. Remembers(t, n)
    BY <2>9 DEF Remembers
  <2>11. Holds(n, typed.failures)
    <3>1. Opens(n) /\ n.r \ Working(n.job) \subseteq m.r \ Working(m.job)
      BY <1>1, <1>2, <2>7 DEF Opens, Holds
    <3> QED BY <1>1, <3>1, HoldsNoMore
  <2>12. Families(proc') /\ Steady(proc', typed)
    BY <1>1, <2>5, <2>6, <2>8, <2>10, <2>11, MainGoesOn
  <2> QED BY <1>2, <2>12
<1> QED BY <1>3, <1>4

LEMMA run_asyncOfMain ==
  ASSUME HasRoom, Tidy, run_async(Main)
  PROVE  Families(proc') /\ Steady(proc', typed')
<1> DEFINE m == proc[Main]
           c == [Detached(Main, Stages(Main)[1], "async") EXCEPT !.in = Null]
           s == [m EXCEPT !.bg = Append(@, Slot)]
           n == Over(s, 0, FALSE)
<1>1. /\ Families(proc) /\ Reigns(m) /\ IsCount(typed) /\ typed.failures \in Nat /\ Answers(proc)
      /\ Holds(m, typed.failures) /\ IsProcess(m) /\ IsJob(m.job) /\ m.state = "running" /\ Main \in Procs
      /\ Raises(proc, Main)
  BY MainIs
<1>2. m.job.at = "idle" /\ Settled(m.job)
  BY <1>1, IsSettled DEF run_async, Idle
<1>3. CASE Slots # {} /\ UNCHANGED typed
           /\ proc' = [proc EXCEPT ![Slot] = c, ![Main] = Over([proc[Main] EXCEPT !.bg = Append(@, Slot)], 0, FALSE)]
  <2>1. Slot \in Procs /\ proc[Slot].state = "free"
    BY <1>3, SlotIsFree
  <2>2. Slot # Main
    BY <2>1, <1>1
  <2>3. proc' = [proc EXCEPT ![Slot] = c, ![Main] = n]
    BY <1>3
  <2>4. IsProcess(c) /\ c.state = "forked" /\ c.parent = Main /\ c.tty = FALSE
    <3> DEFINE k == Detached(Main, Stages(Main)[1], "async")
    <3>1. IsProcess(k) /\ k.state = "forked" /\ k.parent = Main /\ k.tty = FALSE
      BY <1>1, IsDetached
    <3>2. c = [k EXCEPT !.in = Null]
      OBVIOUS
    <3> HIDE DEF k, c
    <3> QED BY <3>1, <3>2 DEF IsProcess, Fields
  <2>5. IsProcess(s) /\ s.state = m.state /\ s.parent = m.parent /\ s.tty = m.tty /\ s.prog = m.prog
        /\ s.group = m.group /\ s.bg = Append(m.bg, Slot) /\ s.r = m.r /\ s.w = m.w
    BY <1>1 DEF IsProcess, Fields
  <2> HIDE DEF c, s
  <2>6. IsProcess(n) /\ n.state = s.state /\ n.parent = s.parent /\ n.tty = s.tty /\ n.prog = s.prog
        /\ n.group = s.group /\ n.bg = s.bg /\ n.job = NoJob /\ n.r = s.r /\ n.w = s.w
    BY <2>5 DEF Over, IsProcess, Fields
  <2> HIDE DEF n
  <2>7. n.bg \in Seq(Procs) /\ Slot \in ToSet(n.bg) /\ \A q : q \in ToSet(m.bg) => q \in ToSet(n.bg)
    <3>1. m.bg \in Seq(Procs) /\ n.bg = Append(m.bg, Slot)
      BY <1>1, <2>5, <2>6 DEF Reigns
    <3>2. n.bg \in Seq(Procs) /\ Len(n.bg) = Len(m.bg) + 1 /\ n.bg[Len(m.bg) + 1] = Slot
          /\ \A i \in 1..Len(m.bg) : n.bg[i] = m.bg[i]
      BY <2>1, <3>1
    <3>3. DOMAIN m.bg = 1..Len(m.bg) /\ DOMAIN n.bg = 1..(Len(m.bg) + 1) /\ Len(m.bg) \in Nat
      BY <3>1, <3>2
    <3> QED BY <3>2, <3>3 DEF ToSet
  <2>8. Reigns(n) /\ Further(proc, Main, n)
    <3>1. IsJob(NoJob)
      BY DEF IsJob, NoJob, JobFields, IsList
    <3> QED BY <1>1, <2>5, <2>6, <2>7, <3>1 DEF Reigns, Further
  <2>9. Remembers(proc, n)
    BY <1>1, <1>2, <2>7, RemembersMore DEF Settled
  <2>10. Holds(n, typed.failures)
    <3>1. Working(m.job) = {} /\ m.w = {} /\ m.r \subseteq Pipes /\ n.job.at = "idle"
      BY <1>1, <1>2, <2>6 DEF Working, Holds, NoJob
    <3>2. Opens(n) /\ n.r \ Working(n.job) \subseteq m.r \ Working(m.job)
      BY <2>5, <2>6, <3>1 DEF Opens
    <3> QED BY <1>1, <3>2, HoldsNoMore
  <2>11. Forked(proc, Slot, c, Main, n) /\ ~c.tty
    BY <1>1, <2>1, <2>2, <2>4, <2>8 DEF Forked
  <2>12. Families(proc') /\ Steady(proc', typed)
    BY <1>1, <2>3, <2>7, <2>8, <2>9, <2>10, <2>11, MainForks
  <2> QED BY <1>3, <2>12
<1>4. CASE Fail /\ proc' = [proc EXCEPT ![Main] = Over(@, 1, FALSE)]
  <2>1. IsCount(typed') /\ Holds(proc[Main], typed'.failures)
    BY <1>4, FailHolds
  <2> QED BY <1>2, <1>4, <2>1, MainIsOver
<1> QED BY <1>3, <1>4 DEF run_async

LEMMA captureOfMain ==
  ASSUME HasRoom, Tidy, capture(Main)
  PROVE  Families(proc') /\ Steady(proc', typed')
<1> DEFINE m == proc[Main]
           c == [Detached(Main, Stages(Main)[1], "capture") EXCEPT !.out = NewPipe]
           n == [m EXCEPT !.r = @ \union {NewPipe}, !.job.at = "read", !.job.pipe = NewPipe, !.job.pids = <<Slot>>]
<1>1. /\ Families(proc) /\ Reigns(m) /\ IsCount(typed) /\ typed.failures \in Nat /\ Answers(proc)
      /\ Holds(m, typed.failures) /\ IsProcess(m) /\ IsJob(m.job) /\ m.state = "running" /\ Main \in Procs
      /\ Raises(proc, Main)
  BY MainIs
<1>2. m.job = NoJob /\ Settled(m.job)
  BY <1>1, IsSettled DEF capture, Idle, IsJob
<1>3. CASE FreePipes # {} /\ Slots # {} /\ UNCHANGED typed
           /\ proc' = [proc EXCEPT ![Slot] = c, ![Main].r = @ \union {NewPipe}, ![Main].job.at = "read",
                                   ![Main].job.pipe = NewPipe, ![Main].job.pids = <<Slot>>]
  <2>1. Slot \in Procs /\ proc[Slot].state = "free" /\ NewPipe \in Pipes
    BY <1>3, SlotIsFree, PipeIsThere
  <2>2. Slot # Main
    BY <2>1, <1>1
  <2>3. IsProcess(c) /\ c.state = "forked" /\ c.parent = Main /\ c.tty = FALSE
    <3> DEFINE k == Detached(Main, Stages(Main)[1], "capture")
    <3>1. IsProcess(k) /\ k.state = "forked" /\ k.parent = Main /\ k.tty = FALSE
      BY <1>1, IsDetached
    <3>2. c = [k EXCEPT !.out = NewPipe]
      OBVIOUS
    <3> HIDE DEF k, c
    <3> QED BY <3>1, <3>2 DEF IsProcess, Fields
  <2> HIDE DEF c
  <2>4. proc' = [proc EXCEPT ![Slot] = c, ![Main] = n]
    BY <1>3, <2>2
  <2>5. JobSet(m, n) /\ n.job.at = "read" /\ n.job.pipe = NewPipe /\ n.job.pids = <<Slot>> /\ n.job.waits = m.job.waits
        /\ n.r = m.r \union {NewPipe} /\ n.w = m.w
    BY <1>1 DEF JobSet, IsProcess, Fields, IsJob, JobFields
  <2> HIDE DEF n
  <2>6. n.job.waits = <<>>
    BY <1>2, <2>5 DEF NoJob
  <2>7. n.job.pids \in Seq(Procs) /\ IsList(n.job.waits) /\ Len(n.job.waits) <= Len(n.job.pids) /\ Awaited(n.job, Slot)
    BY <2>1, <2>5, <2>6 DEF IsList, Awaited
  <2>8. Reigns(n) /\ Further(proc, Main, n)
    <3>1. n.job.at # "idle"
      BY <2>5
    <3> QED BY <2>5, <2>7, <3>1, JobSetReigns, JobSetIsFurther
  <2>9. Remembers(proc, n)
    <3>1. n.bg = m.bg
      BY <2>5 DEF JobSet
    <3> QED BY <1>1, <1>2, <3>1, RemembersMore DEF Settled
  <2>10. Holds(n, typed.failures)
    <3>1. Working(m.job) = {} /\ m.w = {} /\ m.r \subseteq Pipes
      BY <1>1, <1>2 DEF Working, Holds, NoJob
    <3>2. Opens(n) /\ n.r \ Working(n.job) \subseteq m.r \ Working(m.job)
      BY <2>1, <2>5, <3>1 DEF Opens, Working
    <3> QED BY <1>1, <3>2, HoldsNoMore
  <2>11. Forked(proc, Slot, c, Main, n)
    BY <1>1, <2>1, <2>2, <2>3, <2>8 DEF Forked
  <2>12. Families(proc') /\ Steady(proc', typed)
    BY <1>1, <2>4, <2>7, <2>8, <2>9, <2>10, <2>11, MainForks
  <2> QED BY <1>3, <2>12
<1>4. CASE Fail /\ proc' = [proc EXCEPT ![Main] = Over(@, 2, FALSE)]
  <2>1. IsCount(typed') /\ Holds(proc[Main], typed'.failures)
    BY <1>4, FailHolds
  <2> QED BY <1>2, <1>4, <2>1, MainIsOver
<1> QED BY <1>3, <1>4 DEF capture

(* The end of the output is read, or the read is broken off. *)
LEMMA ReadEnds ==
  ASSUME HasRoom, Tidy, proc[Main].job.at = "read", NEW n, JobSet(proc[Main], n), n.job.at = "wait",
         n.job.pids = proc[Main].job.pids, n.job.waits = proc[Main].job.waits,
         n.r = proc[Main].r \ {proc[Main].job.pipe}, n.w = proc[Main].w
  PROVE  Reigns(n) /\ Holds(n, typed.failures) /\ Remembers(proc, n) /\ Further(proc, Main, n)
<1> DEFINE m == proc[Main]
<1>1. /\ Families(proc) /\ Reigns(m) /\ IsCount(typed) /\ typed.failures \in Nat /\ Answers(proc)
      /\ Holds(m, typed.failures) /\ IsProcess(m) /\ IsJob(m.job)
  BY MainIs
<1>2. Reigns(n) /\ Further(proc, Main, n)
  <2>1. n.job.at # "idle"
    OBVIOUS
  <2> QED BY <1>1, <2>1, JobSetReigns, JobSetIsFurther DEF IsJob
<1>3. Remembers(proc, n)
  <2>1. n.bg = m.bg /\ \A q : Awaited(m.job, q) => Awaited(n.job, q)
    BY DEF JobSet, Awaited
  <2> QED BY <2>1, <1>1, RemembersMore
<1>4. Opens(n) /\ n.r \ Working(n.job) \subseteq m.r \ Working(m.job)
  BY <1>1 DEF Opens, Working, Holds
<1> QED BY <1>1, <1>2, <1>3, <1>4, HoldsNoMore

LEMMA MainReadsOutput ==
  ASSUME HasRoom, Tidy, ReadOutput(Main)
  PROVE  Families(proc') /\ Steady(proc', typed')
<1> DEFINE m == proc[Main]
           n == EndOfRead(m)
<1>1. Families(proc) /\ Steady(proc, typed) /\ typed' = typed /\ IsProcess(m) /\ IsJob(m.job) /\ IsCount(typed)
      /\ m.job.at = "read"
  BY MainIs DEF Tidy, ReadOutput, At
<1>2. CASE UNCHANGED proc
  BY <1>1, <1>2
<1>3. CASE proc' = [proc EXCEPT ![Main] = EndOfRead(@)]
  <2>1. JobSet(m, n) /\ n.job.at = "wait" /\ n.job.pids = m.job.pids /\ n.job.waits = m.job.waits
        /\ n.r = m.r \ {m.job.pipe} /\ n.w = m.w
    BY <1>1 DEF EndOfRead, JobSet, IsProcess, Fields, IsJob, JobFields
  <2>2. proc' = [proc EXCEPT ![Main] = n]
    BY <1>3
  <2> HIDE DEF n
  <2>3. Reigns(n) /\ Holds(n, typed.failures) /\ Remembers(proc, n) /\ Further(proc, Main, n)
    BY <1>1, <2>1, ReadEnds
  <2>4. Families(proc') /\ Steady(proc', typed)
    BY <1>1, <2>2, <2>3, MainGoesOn
  <2> QED BY <1>1, <2>4
<1> QED BY <1>2, <1>3 DEF ReadOutput

LEMMA SteadyWhenTyped ==
  ASSUME HasRoom, NEW t, Families(t), NEW c, Steady(t, c), NEW d, IsCount(d), d.failures = c.failures
  PROVE  Steady(t, d)
BY DEF Steady

LEMMA LineIsTyped ==
  ASSUME HasRoom, Tidy, TypeLine
  PROVE  Families(proc') /\ Steady(proc', typed')
<1> DEFINE m == proc[Main]
<1>1. /\ Families(proc) /\ Reigns(m) /\ IsCount(typed) /\ typed.failures \in Nat /\ Answers(proc)
      /\ Holds(m, typed.failures) /\ IsProcess(m) /\ IsJob(m.job) /\ m.state = "running" /\ Main \in Procs
  BY MainIs
<1>2. m.job.at = "idle"
  BY DEF TypeLine, Prompt, Idle
<1>3. PICK line : proc' = [proc EXCEPT ![Main].todo = line]
  BY DEF TypeLine
<1> DEFINE n == [m EXCEPT !.todo = line]
<1>4. proc' = [proc EXCEPT ![Main] = n]
  BY <1>3
<1>5. IsProcess(n) /\ n.state = m.state /\ n.parent = m.parent /\ n.tty = m.tty /\ n.prog = m.prog
      /\ n.group = m.group /\ n.bg = m.bg /\ n.job = m.job /\ n.r = m.r /\ n.w = m.w
  BY <1>1 DEF IsProcess, Fields
<1> HIDE DEF n
<1>6. Reigns(n) /\ Further(proc, Main, n)
  BY <1>1, <1>5 DEF Reigns, Further
<1>7. Remembers(proc, n)
  BY <1>1, <1>5, RemembersMore
<1>8. Opens(n) /\ n.r \ Working(n.job) \subseteq m.r \ Working(m.job)
  BY <1>1, <1>2, <1>5 DEF Opens, Holds
<1>9. Holds(n, typed.failures)
  BY <1>1, <1>8, HoldsNoMore
<1>10. Families(proc') /\ Steady(proc', typed)
  BY <1>1, <1>4, <1>6, <1>7, <1>9, MainGoesOn
<1>11. IsCount(typed') /\ typed'.failures = typed.failures
  BY <1>1 DEF IsCount, TypeLine
<1> QED BY <1>10, <1>11, SteadyWhenTyped

LEMMA Suspended ==
  ASSUME HasRoom, Tidy, Suspend
  PROVE  Quiet(proc, proc')
<1>1. Families(proc) /\ Main \in Procs
  BY MainIs
<1> DEFINE u == [p \in Procs |->
                  IF Runs(p) /\ ~Shell(p) /\ proc[p].tty /\ proc[p].group = fg
                  THEN [proc[p] EXCEPT !.state = "stopped", !.last = TSTP] ELSE proc[p]]
<1>2. proc' = u
  BY DEF Suspend
<1>3. ASSUME NEW q \in Procs
      PROVE  \/ u[q] = proc[q]
             \/ /\ q # Main /\ proc[q].state = "running" /\ ~Raises(proc, q)
                /\ IsProcess(u[q]) /\ u[q].state = "stopped" /\ u[q].parent = proc[q].parent /\ u[q].tty = proc[q].tty
  <2>1. CASE ~(Runs(q) /\ ~Shell(q) /\ proc[q].tty /\ proc[q].group = fg)
    BY <2>1
  <2>2. CASE Runs(q) /\ ~Shell(q) /\ proc[q].tty /\ proc[q].group = fg
    <3>1. proc[q].state = "running" /\ IsProcess(proc[q]) /\ q # Main /\ ~Raises(proc, q)
      BY <1>1, <2>2 DEF Runs, Shell, Raises, Families, IsTable
    <3>2. u[q] = [proc[q] EXCEPT !.state = "stopped", !.last = TSTP]
      BY <2>2
    <3> HIDE DEF u
    <3> QED BY <3>1, <3>2 DEF IsProcess, Fields
  <2> QED BY <2>1, <2>2
<1> HIDE DEF u
<1>4. Stopping(proc, u)
  BY <1>3 DEF Stopping, u
<1>5. Quiet(proc, u)
  BY <1>1, <1>4, StoppedElsewhere
<1> QED BY <1>2, <1>5

LEMMA StruckMain ==
  ASSUME HasRoom, Tidy, NEW breaks, breaks \in BOOLEAN, breaks => proc[Main].job.at = "read"
  PROVE  /\ Reigns(Struck(Main, breaks)) /\ Holds(Struck(Main, breaks), typed.failures)
         /\ Remembers(proc, Struck(Main, breaks)) /\ Further(proc, Main, Struck(Main, breaks))
<1> DEFINE m == proc[Main]
           n == Struck(Main, breaks)
<1>1. /\ Families(proc) /\ Reigns(m) /\ IsCount(typed) /\ typed.failures \in Nat /\ Answers(proc)
      /\ Holds(m, typed.failures) /\ IsProcess(m) /\ IsJob(m.job) /\ m.state = "running" /\ Main \in Procs
  BY MainIs
<1>2. CASE ~Reached(Main)
  <2>1. n = m
    BY <1>2 DEF Struck
  <2> HIDE DEF n
  <2>2. Reigns(n) /\ Further(proc, Main, n)
    BY <1>1, <2>1 DEF Further
  <2>3. Remembers(proc, n)
    BY <1>1, <2>1, RemembersMore
  <2> QED BY <1>1, <2>1, <2>2, <2>3 DEF n
<1>3. CASE Reached(Main) /\ breaks
  <2>1. n = [EndOfRead(m) EXCEPT !.noted = TRUE]
    BY <1>3 DEF Struck
  <2> HIDE DEF n
  <2>2. JobSet(m, n) /\ n.job.at = "wait" /\ n.job.pids = m.job.pids /\ n.job.waits = m.job.waits
        /\ n.r = m.r \ {m.job.pipe} /\ n.w = m.w
    BY <1>1, <2>1 DEF EndOfRead, JobSet, IsProcess, Fields, IsJob, JobFields
  <2> QED BY <1>3, <2>2, ReadEnds DEF n
<1>4. CASE Reached(Main) /\ ~breaks
  <2>1. n = [m EXCEPT !.noted = TRUE]
    BY <1>4 DEF Struck
  <2> HIDE DEF n
  <2>2. IsProcess(n) /\ n.state = m.state /\ n.parent = m.parent /\ n.tty = m.tty /\ n.prog = m.prog
        /\ n.group = m.group /\ n.bg = m.bg /\ n.job = m.job /\ n.r = m.r /\ n.w = m.w /\ n.todo = m.todo
    BY <1>1, <2>1 DEF IsProcess, Fields
  <2>3. Reigns(n) /\ Further(proc, Main, n)
    BY <1>1, <2>2 DEF Reigns, Further
  <2>4. Remembers(proc, n)
    BY <1>1, <2>2, RemembersMore
  <2>5. Holds(n, typed.failures)
    BY <1>1, <2>2 DEF Holds
  <2> QED BY <2>3, <2>4, <2>5 DEF n
<1> QED BY <1>2, <1>3, <1>4

LEMMA Interrupted ==
  ASSUME HasRoom, Tidy, Interrupt
  PROVE  Families(proc') /\ Steady(proc', typed')
<1>1. Families(proc) /\ Steady(proc, typed) /\ IsCount(typed) /\ Main \in Procs
  BY MainIs DEF Tidy
<1>2. PICK breaks \in {FALSE, At(Main, "read") /\ fg = Main} : proc' = Adopted([p \in Procs |-> Struck(p, breaks)])
  BY DEF Interrupt
<1>3. breaks \in BOOLEAN /\ (breaks => proc[Main].job.at = "read")
  BY <1>2 DEF At
<1> DEFINE u == [p \in Procs |-> Struck(p, breaks)]
           n == Struck(Main, breaks)
           t == [proc EXCEPT ![Main] = n]
<1>4. Reigns(n) /\ Holds(n, typed.failures) /\ Remembers(proc, n) /\ Further(proc, Main, n)
  BY <1>3, StruckMain
<1>5. u[Main] = n /\ t[Main] = n /\ \A q \in Procs : q # Main => t[q] = proc[q]
  BY <1>1 DEF Families, IsTable
<1> HIDE DEF n
<1>6. Families(t) /\ Steady(t, typed)
  BY <1>1, <1>4, MainGoesOn
<1>7. Raises(t, Main)
  BY <1>1, <1>4, <1>5 DEF Reigns, Raises
<1>8. ASSUME NEW q \in Procs
      PROVE  \/ u[q] = t[q]
             \/ /\ ~(t[q].state = "free") /\ ~(t[q].state = "stopped")
                /\ IsProcess(u[q]) /\ Gone(u[q]) /\ ~(u[q].state = "free")
                /\ u[q].parent = t[q].parent /\ u[q].tty = t[q].tty
  <2>1. CASE q = Main
    BY <1>5, <2>1
  <2>2. CASE q # Main
    <3>1. t[q] = proc[q] /\ u[q] = Struck(q, breaks)
      BY <1>5, <2>2
    <3>2. \/ Struck(q, breaks) = proc[q]
          \/ Reached(q) /\ (Struck(q, breaks) = Ended(q, "exited", INT) \/ Struck(q, breaks) = Ended(q, "killed", INT))
      BY <2>2 DEF Struck
    <3> HIDE DEF t, u
    <3>3. CASE Struck(q, breaks) = proc[q]
      BY <3>1, <3>3
    <3>4. ASSUME NEW how \in {"exited", "killed"}, Reached(q), Struck(q, breaks) = Ended(q, how, INT)
          PROVE  /\ ~(t[q].state = "free") /\ ~(t[q].state = "stopped")
                 /\ IsProcess(u[q]) /\ Gone(u[q]) /\ ~(u[q].state = "free")
                 /\ u[q].parent = t[q].parent /\ u[q].tty = t[q].tty
      <4>1. ~(proc[q].state = "free") /\ ~(proc[q].state = "stopped") /\ IsProcess(proc[q])
        BY <1>1, <3>4 DEF Reached, Live, Families, IsTable
      <4>2. /\ IsProcess(Ended(q, how, INT)) /\ Ended(q, how, INT).state = how
            /\ Ended(q, how, INT).parent = proc[q].parent /\ Ended(q, how, INT).tty = proc[q].tty
        BY <4>1 DEF Ended, IsProcess, Fields
      <4> QED BY <3>1, <3>4, <4>1, <4>2 DEF Gone
    <3> QED BY <3>2, <3>3, <3>4
  <2> QED BY <2>1, <2>2
<1>9. Ending(t, u)
  BY <1>5, <1>8 DEF Ending
<1> HIDE DEF t, u
<1>10. Quiet(t, Adopted(u))
  BY <1>6, <1>7, <1>9, EndedElsewhere
<1>11. Families(Adopted(u)) /\ Steady(Adopted(u), typed)
  BY <1>6, <1>10, SteadyElsewhere DEF Quiet
<1>12. IsCount(typed') /\ typed'.failures = typed.failures
  BY <1>1 DEF IsCount, Interrupt
<1>13. Families(proc') /\ Steady(proc', typed)
  BY <1>2, <1>11 DEF u
<1> QED BY <1>12, <1>13, SteadyWhenTyped

-----------------------------------------------------------------------------
(* All of it is kept at every step.                                        *)
LEMMA MainSteps ==
  ASSUME HasRoom, Tidy, Step(Main)
  PROVE  Families(proc') /\ Steady(proc', typed')
<1>1. ~Leave(Main)
  BY DEF Leave
<1>2. ~(Exits(Main) \/ Writes(Main) \/ Reads(Main) \/ Pages(Main)) /\ ~(Join(Main) \/ Begin(Main))
  BY MainIs, ProgramElsewhere, JoinElsewhere
<1> QED
  BY <1>1, <1>2, MainMakesPipe, MainForksStage, MainWaits, MainFinishes, run_asyncOfMain, run_waitOfMain,
     captureOfMain, MainReadsOutput DEF Step

(* What the others count is what has failed. *)
LEMMA OthersCount ==
  ASSUME HasRoom, Tidy, NEW p \in Procs, Step(p)
  PROVE  typed' = typed \/ Fail
BY DEF Step, MakePipe, ForkStage, Wait, Finish, run_async, run_wait, capture, ReadOutput, Captured, Leave,
       Join, Begin, Exits, Writes, Reads, Pages

LEMMA TidyNext ==
  ASSUME HasRoom, Tidy, [Next]_vars
  PROVE  Tidy'
<1>1. Families(proc) /\ Steady(proc, typed) /\ IsCount(typed) /\ typed.failures \in Nat
  BY MainIs DEF Tidy
<1>2. ASSUME Families(proc'), Steady(proc', typed') PROVE Tidy'
  <2>1. Families(proc)' /\ Steady(proc, typed)'
    BY <1>2 DEF Families, IsTable, Kin, Raised, Raises, Steady, Answers, Ours, Answered, Holds, Reigns, IsCount
  <2> QED BY <2>1 DEF Tidy
<1>3. CASE UNCHANGED vars
  BY <1>1, <1>2, <1>3 DEF vars
<1>4. CASE TypeLine
  BY <1>2, <1>4, LineIsTyped
<1>5. CASE Interrupt
  BY <1>2, <1>5, Interrupted
<1>6. CASE Suspend
  <2>1. Families(proc') /\ Steady(proc', typed)
    BY <1>1, <1>6, Suspended, SteadyElsewhere DEF Quiet
  <2>2. IsCount(typed') /\ typed'.failures = typed.failures
    BY <1>1, <1>6 DEF IsCount, Suspend
  <2> QED BY <1>2, <2>1, <2>2, SteadyWhenTyped
<1>7. ASSUME NEW p \in Procs, p # Main, Step(p) PROVE Tidy'
  <2>1. Families(proc') /\ Steady(proc', typed)
    BY <1>1, <1>7, StepElsewhere, SteadyElsewhere DEF Quiet
  <2>2. CASE typed' = typed
    BY <1>2, <2>1, <2>2
  <2>3. CASE Fail
    <3>1. IsCount(typed') /\ typed'.failures >= typed.failures
      BY <1>1, <2>3, FailCounts
    <3>2. IsFiniteSet(Pipes)
      BY FS_Interval DEF HasRoom, Pipes
    <3> QED BY <1>2, <2>1, <3>1, <3>2, SteadyCount
  <2> QED BY <1>7, <2>2, <2>3, OthersCount
<1>8. CASE Step(Main)
  BY <1>2, <1>8, MainSteps
<1> QED BY <1>3, <1>4, <1>5, <1>6, <1>7, <1>8 DEF Next

LEMMA TidyInit ==
  ASSUME HasRoom, Init
  PROVE  Tidy
<1>1. proc = [p \in Procs |-> IF p = Main THEN Interactive ELSE Nobody] /\ Main \in Procs
  BY MainIsThere DEF Init
<1>2. proc[Main] = Interactive /\ \A q \in Procs \ {Main} : proc[q].state = "free"
  BY <1>1 DEF Nobody
<1>3. IsProcess(Interactive)
  BY DEF Interactive, IsProcess, Fields
<1>4. IsTable(proc)
  BY <1>1, <1>2, <1>3 DEF IsTable
<1>5. Kin(proc) /\ Answers(proc)
  BY <1>2 DEF Kin, Answers, Ours
<1>6. IsJob(NoJob)
  BY DEF IsJob, NoJob, JobFields, IsList
<1>7. Reigns(proc[Main])
  BY <1>2, <1>3, <1>6 DEF Reigns, Interactive
<1>8. IsCount(typed) /\ typed.failures = 0
  BY DEF Init, IsCount
<1>9. Holds(proc[Main], 0)
  <2>1. proc[Main].r = {} /\ proc[Main].w = {} /\ proc[Main].job.at = "idle"
    BY <1>2 DEF Interactive, NoJob
  <2>2. proc[Main].r \ Working(proc[Main].job) = {}
    BY <2>1
  <2>3. Cardinality(proc[Main].r \ Working(proc[Main].job)) = 0
    BY <2>2, FS_EmptySet
  <2> QED BY <2>1, <2>3 DEF Holds
<1> QED BY <1>4, <1>5, <1>7, <1>8, <1>9 DEF Tidy, Families, Steady

(* Processes form families, the interactive shell lives as long as its jobs, it *)
(* holds no end of a pipe but those of the job it is in the middle of and one   *)
(* for each failure, and every child of it is in one of its lists.             *)
THEOREM TidyThroughout ==
  ASSUME HasRoom
  PROVE  Spec => []Tidy
<1>1. Init => Tidy
  BY TidyInit
<1>2. Tidy /\ [Next]_vars => Tidy'
  BY TidyNext
<1> QED BY <1>1, <1>2, PTL DEF Spec

-----------------------------------------------------------------------------
(* Nothing is left over. *)
LEMMA TidyLeavesNothing ==
  ASSUME HasRoom, Tidy
  PROVE  NothingIsLeftOver
<1> SUFFICES ASSUME Prompt PROVE
      /\ \A q \in Procs : (Dead(q) /\ proc[q].parent = Main) => q \in ToSet(proc[Main].bg)
      /\ Cardinality(proc[Main].r) <= typed.failures
      /\ proc[Main].w = {}
  BY DEF NothingIsLeftOver
<1>1. proc[Main].job.at = "idle" /\ IsJob(proc[Main].job) /\ Holds(proc[Main], typed.failures) /\ Answers(proc)
      /\ proc[Main].state = "running"
  BY MainIs DEF Prompt, Idle
<1>2. \A q : ~Awaited(proc[Main].job, q)
  BY <1>1, IsSettled DEF Settled
<1>3. ASSUME NEW q \in Procs, Dead(q), proc[q].parent = Main PROVE q \in ToSet(proc[Main].bg)
  <2>1. Ours(proc, q) /\ ~(proc[q].state = "stopped")
    BY <1>1, <1>3 DEF Ours, Dead
  <2>2. Answered(proc, q)
    BY <1>1, <2>1 DEF Answers
  <2> QED BY <1>2, <2>1, <2>2 DEF Answered
<1>4. Working(proc[Main].job) = {} /\ proc[Main].w = {}
  BY <1>1 DEF Working, Holds
<1>5. proc[Main].r \ Working(proc[Main].job) = proc[Main].r
  BY <1>4
<1>6. Cardinality(proc[Main].r) <= typed.failures
  BY <1>1, <1>5 DEF Holds
<1> QED BY <1>3, <1>4, <1>6

(* What is said is said by the interactive shell. *)
LEMMA OthersSayNothing ==
  ASSUME NEW p \in Procs, p # Main, Step(p)
  PROVE  said' = said
BY DEF Step, Says, MakePipe, ForkStage, Wait, Finish, run_async, run_wait, capture, ReadOutput, Captured, Leave,
       Join, Begin, Exits, Writes, Reads, Pages

LEMMA SaysOfNoJob ==
  ASSUME NEW status, NEW waits, Says(Main, status, waits, FALSE), Command(Main).kind \notin Foreground
  PROVE  said'.kind \notin Foreground
BY DEF Says

LEMMA SaysOfJob ==
  ASSUME HasRoom, Tidy, Finish(Main)
  PROVE  said'.abandoned <=> (said'.heard \/ Interrupts(Decider(said'.pipefail, said'.waits)))
<1> DEFINE waits == proc[Main].job.waits
           decider == Decider(Command(Main).pipefail, waits)
           notes == proc[Main].tty /\ Interrupts(decider)
<1>1. proc[Main].tty = TRUE /\ proc[Main].noted \in BOOLEAN
  BY MainIs DEF Reigns, IsProcess
<1>2. notes <=> Interrupts(decider)
  BY <1>1
<1>3. PICK status : Says(Main, status, waits, notes)
  BY DEF Finish
<1>4. /\ said'.waits = waits /\ said'.pipefail = Command(Main).pipefail
      /\ said'.abandoned <=> (notes \/ proc[Main].noted)
      /\ said'.heard <=> proc[Main].noted
  BY <1>3 DEF Says
<1>5. Decider(said'.pipefail, said'.waits) = decider
  BY <1>4
<1> HIDE DEF decider, notes, waits
<1> QED BY <1>2, <1>4, <1>5

LEMMA SaidNext ==
  ASSUME HasRoom, Tidy, AbandonedIffKilled, [Next]_vars
  PROVE  AbandonedIffKilled'
<1>1. CASE said' = said
  BY <1>1 DEF AbandonedIffKilled
<1>2. CASE said'.kind \notin Foreground
  BY <1>2 DEF AbandonedIffKilled
<1>3. CASE Finish(Main)
  <2>1. said'.abandoned <=> (said'.heard \/ Interrupts(Decider(said'.pipefail, said'.waits)))
    BY <1>3, SaysOfJob
  <2> QED BY <2>1 DEF AbandonedIffKilled, Interrupts
<1>4. CASE Step(Main)
  <2>1. CASE MakePipe(Main) \/ ForkStage(Main) \/ Wait(Main) \/ ReadOutput(Main) \/ Leave(Main) \/ Join(Main)
              \/ Begin(Main) \/ Exits(Main) \/ Writes(Main) \/ Reads(Main) \/ Pages(Main)
    <3>1. said' = said
      BY <2>1 DEF MakePipe, ForkStage, Wait, ReadOutput, Leave, Join, Begin, Exits, Writes, Reads, Pages
    <3> QED BY <1>1, <3>1
  <2>2. CASE run_async(Main) \/ run_wait(Main) \/ capture(Main) \/ Captured(Main)
    <3>1. Command(Main).kind \notin Foreground
      BY <2>2 DEF run_async, run_wait, capture, Captured, Foreground
    <3>2. said' = said \/ \E status, waits : Says(Main, status, waits, FALSE)
      BY <2>2 DEF run_async, run_wait, capture, Captured
    <3> QED BY <1>1, <1>2, <3>1, <3>2, SaysOfNoJob
  <2> QED BY <1>3, <1>4, <2>1, <2>2 DEF Step
<1>5. CASE TypeLine \/ Interrupt \/ Suspend \/ UNCHANGED vars
  <2>1. said' = said
    BY <1>5 DEF TypeLine, Interrupt, Suspend, vars
  <2> QED BY <1>1, <2>1
<1>6. ASSUME NEW p \in Procs, p # Main, Step(p) PROVE AbandonedIffKilled'
  BY <1>1, <1>6, OthersSayNothing
<1> QED BY <1>4, <1>5, <1>6 DEF Next

(* Whatever failed, stopped or was killed on the way, at the prompt nothing of  *)
(* a job is left over, and the rest of a line was abandoned exactly if ^C       *)
(* killed the process that decided its status.                                *)
THEOREM JobsEndTidily ==
  ASSUME HasRoom
  PROVE  Spec => []JobsAreTidy
<1>1. Init => Tidy /\ AbandonedIffKilled
  <2>1. Init => said.kind = "none"
    BY DEF Init
  <2> QED BY <2>1, TidyInit DEF AbandonedIffKilled, Foreground
<1>2. Tidy /\ AbandonedIffKilled /\ [Next]_vars => Tidy' /\ AbandonedIffKilled'
  BY TidyNext, SaidNext
<1>3. Tidy /\ AbandonedIffKilled => JobsAreTidy
  BY TidyLeavesNothing DEF JobsAreTidy
<1> QED BY <1>1, <1>2, <1>3, PTL DEF Spec

-----------------------------------------------------------------------------
(* The terminal.                                                           *)

(* Between commands, whoever has the means to take the terminal and runs is an *)
(* orphan: a child of the shell would still be waited for.                    *)
Grasps(q) == q # Main /\ proc[q].state \in {"forked", "joined", "running"} /\ proc[q].tty

LEMMA OrphanedWhenIdle ==
  ASSUME HasRoom, Tidy, Idle(Main), NEW q \in Procs, Grasps(q)
  PROVE  Orphaned(q)
<1> DEFINE family == {p \in Procs : Grasps(p)}
<1>1. Families(proc) /\ Answers(proc) /\ \A p : ~Awaited(proc[Main].job, p)
  BY MainIs, IsSettled DEF Idle, Settled
<1>2. family \in SUBSET {p \in Procs \ {Main} : Live(p)}
  BY DEF Grasps, Live
<1>3. ASSUME NEW p \in family PROVE proc[p].parent \in family \union {0}
  <2>1. p \in Procs \ {Main} /\ ~(proc[p].state = "free") /\ ~(proc[p].state = "stopped") /\ proc[p].tty
    BY DEF Grasps
  <2>2. proc[p].parent # Main
    <3>1. CASE Ours(proc, p)
      BY <1>1, <2>1, <3>1 DEF Answers, Answered
    <3> QED BY <2>1, <3>1 DEF Ours
  <2>3. proc[p].parent = 0 \/ Raised(proc, p)
    BY <1>1, <2>1 DEF Families, Kin
  <2>4. CASE Raised(proc, p)
    BY <2>1, <2>2, <2>4 DEF Raised, Raises, Grasps
  <2> QED BY <2>3, <2>4
<1>4. q \in family
  OBVIOUS
<1> HIDE DEF family
<1> QED BY <1>2, <1>3, <1>4 DEF Orphaned

LEMMA TakenByWhom ==
  ASSUME HasRoom, Tidy, NEW p \in Procs, Step(p), Idle(Main), fg' # fg
  PROVE  Grasps(p) /\ fg' = proc[p].group
<1>1. CASE Join(p)
  <2>1. p # Main
    BY <1>1, JoinElsewhere
  <2>2. Leader(p) /\ fg' = proc[p].group /\ proc[p].state = "forked"
    BY <1>1 DEF Join, Taken
  <2> QED BY <2>1, <2>2 DEF Leader, Grasps
<1>2. CASE Finish(p)
  <2>1. p # Main
    BY <1>2 DEF Finish, At, Idle
  <2>2. proc[p].tty /\ fg' = proc[p].group /\ proc[p].state = "running"
    BY <1>2 DEF Finish, reclaim_terminal, At, Runs
  <2> QED BY <2>1, <2>2 DEF Grasps
<1>3. ~Join(p) /\ ~Finish(p) => fg' = fg
  BY DEF Step, MakePipe, ForkStage, Wait, run_async, run_wait, capture, ReadOutput, Captured, Leave,
         Begin, Exits, Writes, Reads, Pages
<1> QED BY <1>1, <1>2, <1>3

(* Every step of the interactive shell but the last of a foreground job or of a *)
(* substitution leaves it in the middle of its job.                          *)
LEMMA OnlyFinishes ==
  ASSUME HasRoom, Tidy, Next, ~Idle(Main), Idle(Main)', Command(Main).kind \in Foreground
  PROVE  fg' = Main
<1>1. Families(proc) /\ Reigns(proc[Main]) /\ proc[Main].state = "running" /\ Main \in Procs
      /\ IsProcess(proc[Main]) /\ IsJob(proc[Main].job)
  BY MainIs
<1>2. Runs(Main) /\ Shell(Main)
  BY <1>1 DEF Runs, Shell
<1>3. proc[Main].job.at # "idle" /\ proc'[Main].job.at = "idle"
  BY <1>2 DEF Idle
<1>4. ASSUME Quiet(proc, proc') PROVE FALSE
  BY <1>3, <1>4 DEF Quiet, Elsewhere
<1>5. ~TypeLine
  BY <1>3 DEF TypeLine, Prompt, Idle
<1>6. ~Suspend
  BY <1>4, Suspended
<1>7. ASSUME NEW p \in Procs, p # Main, Step(p) PROVE FALSE
  BY <1>4, <1>7, StepElsewhere
<1>8. ~Interrupt
  <2> SUFFICES ASSUME Interrupt PROVE FALSE
    OBVIOUS
  <2>1. PICK breaks \in {FALSE, At(Main, "read") /\ fg = Main} : proc' = Adopted([p \in Procs |-> Struck(p, breaks)])
    BY DEF Interrupt
  <2> DEFINE u == [p \in Procs |-> Struck(p, breaks)]
  <2>2. u[Main] = Struck(Main, breaks)
    BY <1>1
  <2> HIDE DEF u
  <2>3. proc'[Main] = Struck(Main, breaks)
    BY <2>1, <2>2, <1>1, AdoptedIs DEF Orphan, u
  <2>4. Struck(Main, breaks).job.at # "idle"
    <3>1. CASE ~Reached(Main)
      BY <1>3, <3>1 DEF Struck
    <3>2. CASE Reached(Main) /\ breaks
      <4>1. Struck(Main, breaks) = [EndOfRead(proc[Main]) EXCEPT !.noted = TRUE]
        BY <3>2 DEF Struck
      <4> QED BY <1>1, <4>1 DEF EndOfRead, IsProcess, Fields, IsJob, JobFields
    <3>3. CASE Reached(Main) /\ ~breaks
      <4>1. Struck(Main, breaks) = [proc[Main] EXCEPT !.noted = TRUE]
        BY <3>3 DEF Struck
      <4> QED BY <1>1, <1>3, <4>1 DEF IsProcess, Fields
    <3> QED BY <3>1, <3>2, <3>3
  <2> QED BY <1>3, <2>3, <2>4
<1>9. Step(Main)
  BY <1>5, <1>6, <1>7, <1>8 DEF Next
<1>10. CASE Finish(Main)
  BY <1>1, <1>10 DEF Finish, reclaim_terminal, Reigns
<1>11. ~Captured(Main)
  BY DEF Captured, Foreground
<1>12. ~run_async(Main) /\ ~run_wait(Main) /\ ~capture(Main) /\ ~Leave(Main)
  BY DEF run_async, run_wait, capture, Leave
<1>13. ~(Exits(Main) \/ Writes(Main) \/ Reads(Main) \/ Pages(Main)) /\ ~(Join(Main) \/ Begin(Main))
  BY ProgramElsewhere, JoinElsewhere, <1>1
<1>14. ~MakePipe(Main)
  <2> SUFFICES ASSUME MakePipe(Main) PROVE proc'[Main].job.at # "idle"
    BY <1>3
  <2> QED BY <1>1 DEF MakePipe, Families, IsTable, IsProcess, Fields, IsJob, JobFields
<1>15. ~ForkStage(Main)
  <2> SUFFICES ASSUME ForkStage(Main) PROVE proc'[Main].job.at # "idle"
    BY <1>3
  <2> DEFINE at == IF proc[Main].job.next = Len(Stages(Main)) THEN "wait" ELSE "pipe"
             after == [proc[Main] EXCEPT !.r = ParentReads(Main), !.w = ParentWrites(Main),
                                         !.job.from = proc[Main].job.pipe, !.job.at = at]
             n == [after EXCEPT !.job.pids = Append(@, Slot), !.job.group = IF @ = 0 THEN Slot ELSE @]
  <2>1. IsProcess(after) /\ after.job = [f \in JobFields |-> after.job[f]] /\ after.job.at = at
    BY <1>1 DEF IsProcess, Fields, IsJob, JobFields
  <2>2. n.job.at = at
    <3> HIDE DEF after, at
    <3> QED BY <2>1 DEF IsProcess, Fields, JobFields
  <2>3. proc'[Main] = after \/ proc'[Main] = n
    <3>1. (\E c : proc' = [proc EXCEPT ![Slot] = c, ![Main] = n]) \/ proc' = [proc EXCEPT ![Main] = after]
      BY DEF ForkStage
    <3> HIDE DEF after, n
    <3> QED BY <3>1, <1>1 DEF Families, IsTable
  <2>4. at # "idle"
    OBVIOUS
  <2> HIDE DEF after, n, at
  <2> QED BY <2>1, <2>2, <2>3, <2>4
<1>16. ~Wait(Main)
  <2> SUFFICES ASSUME Wait(Main) PROVE proc'[Main].job.at = "wait"
    BY <1>3
  <2> DEFINE q == proc[Main].job.pids[Len(proc[Main].job.waits) + 1]
  <2>1. PICK waits : proc' = [Reaped(proc, q) EXCEPT ![Main].job.waits = waits]
    BY DEF Wait
  <2>2. q # Main /\ proc[Main].job.at = "wait"
    BY <1>1 DEF Wait, Reapable, Dead, At
  <2>3. Reaped(proc, q)[Main] = proc[Main] /\ Main \in DOMAIN Reaped(proc, q)
    BY <1>1, <2>2 DEF Reaped, Families, IsTable
  <2>4. proc'[Main] = [proc[Main] EXCEPT !.job.waits = waits]
    BY <2>1, <2>3
  <2> HIDE DEF q
  <2> QED BY <1>1, <2>2, <2>4 DEF IsProcess, Fields, IsJob, JobFields
<1>17. ~ReadOutput(Main)
  <2> SUFFICES ASSUME ReadOutput(Main) PROVE proc'[Main].job.at # "idle"
    BY <1>3
  <2>1. proc' = proc \/ proc' = [proc EXCEPT ![Main] = EndOfRead(proc[Main])]
    BY DEF ReadOutput
  <2>2. EndOfRead(proc[Main]).job.at = "wait"
    BY <1>1 DEF EndOfRead, IsProcess, Fields, IsJob, JobFields
  <2> QED BY <1>1, <1>3, <2>1, <2>2 DEF Families, IsTable
<1> QED BY <1>9, <1>10, <1>11, <1>12, <1>13, <1>14, <1>15, <1>16, <1>17 DEF Step

(* A foreground job gives the terminal back, and between commands only orphans *)
(* take it.                                                                  *)
THEOREM TerminalIsGivenBack ==
  ASSUME HasRoom
  PROVE  Spec => TerminalComesBack
<1> DEFINE Back == /\ (~Idle(Main) /\ Idle(Main)' /\ Command(Main).kind \in Foreground) => fg' = Main
                   /\ (Idle(Main) /\ fg' # fg) => \E q \in Procs : Orphaned(q) /\ fg' = proc[q].group
<1>1. Tidy /\ [Next]_vars => [Back]_vars
  <2> SUFFICES ASSUME Tidy, Next PROVE Back
    OBVIOUS
  <2>1. (~Idle(Main) /\ Idle(Main)' /\ Command(Main).kind \in Foreground) => fg' = Main
    BY OnlyFinishes
  <2>2. (Idle(Main) /\ fg' # fg) => \E q \in Procs : Orphaned(q) /\ fg' = proc[q].group
    <3> SUFFICES ASSUME Idle(Main), fg' # fg PROVE \E q \in Procs : Orphaned(q) /\ fg' = proc[q].group
      OBVIOUS
    <3>1. PICK p \in Procs : Step(p)
      BY DEF Next, TypeLine, Interrupt, Suspend
    <3>2. Grasps(p) /\ fg' = proc[p].group
      BY <3>1, TakenByWhom
    <3>3. Orphaned(p)
      BY <3>2, OrphanedWhenIdle
    <3> QED BY <3>2, <3>3
  <2> QED BY <2>1, <2>2
<1>2. [Back]_vars => [/\ (~Idle(Main) /\ Idle(Main)' /\ Command(Main).kind \in Foreground) => fg' = Main
                      /\ (Idle(Main) /\ fg' # fg) => \E q \in Procs : Orphaned(q) /\ fg' = proc[q].group]_vars
  OBVIOUS
<1>3. Spec => []Tidy
  BY TidyThroughout
<1> HIDE DEF Back
<1> QED BY <1>1, <1>3, PTL DEF Spec, TerminalComesBack, Back
=============================================================================
