------------------------- MODULE HistoryStoreProofs -------------------------
(***************************************************************************)
(* What the two tiers keep, proved for any number of shells, commands,     *)
(* crashes and rewrites.                                                   *)
(***************************************************************************)
EXTENDS HistoryStore, WellFoundedInduction, SequenceTheorems, TLAPS

Paths == Inode \cup {NoFile}
Item == [cmd : Command, pending : BOOLEAN]
Vacuums ==
  [session : SUBSET Command, log : SUBSET Command, len : Nat, before : Paths,
   target : Paths, merged : SUBSET Command, corrupt : BOOLEAN, tries : Nat]
Pcs == {"dead", "boot_map", "boot_log", "idle", "exec", "remap", "flush", "count",
        "vac_read", "vac_build", "vac_open", "vac_lock", "vac_aside", "vac_rename",
        "vac_check", "vac_truncate", "vac_forget", "vac_map", "vac_log"}
Memories ==
  [pc : Pcs, then : {"none", "idle", "exec", "count"}, items : Seq(Item),
   unwritten : Nat, logged : SUBSET Command, mapped : Paths,
   untouchable : BOOLEAN, dataId : Paths, reload : BOOLEAN, notified : BOOLEAN,
   countdown : Int, abandoned : BOOLEAN, own : SUBSET Command, vac : Vacuums]

Types ==
  /\ world \in Worlds
  /\ fresh \in 1..(MaxFile + 1) /\ dataPath \in {NoFile} \cup 0..(fresh - 1)
  /\ aside \subseteq 0..(fresh - 1)
  /\ file \in [Inode -> [kind : {"ours", "foreign", "corrupt"}, cmds : SUBSET Command]]
  /\ log \in Seq(Command \cup {Torn})
  /\ holder \in [Inode -> Shell \cup {NoShell}]
  /\ durable \subseteq Command /\ raced \subseteq Command
  /\ sh \in [Shell -> Memories]

\* An inode is never used twice: the path only moves on, unless a corrupt
\* file is moved aside, which leaves nothing there.
At(p) == IF p = NoFile THEN -1 ELSE p
Steady == "corrupt" \notin world.kinds
FilesKnown ==
  /\ \A i \in Inode : i >= fresh => file[i] = Empty
  /\ Steady => aside = {} /\ \A i \in Inode : file[i].kind # "corrupt"

OnPath == IF dataPath = NoFile THEN {} ELSE file[dataPath].cmds
Aside == UNION {file[i].cmds : i \in aside}
Safe == durable \ raced

Building(s) == sh[s].pc \in {"vac_build", "vac_open", "vac_lock", "vac_aside", "vac_rename"}
Built(s) == sh[s].pc \in {"vac_open", "vac_lock", "vac_aside", "vac_rename"}

\* Nothing that was not raced is dropped by what the vacuum of s will do.
VacuumKeeps(s) ==
  /\ Building(s) => Safe \subseteq sh[s].vac.log \cup Aside \cup OnPath
  /\ Built(s) => Safe \subseteq sh[s].vac.merged \cup Aside
  /\ Built(s) => sh[s].vac.log \cup sh[s].vac.session \subseteq sh[s].vac.merged
  /\ sh[s].pc \in {"vac_check", "vac_truncate"} => Safe \subseteq Aside \cup OnPath

\* What a built blob was made from, and what the lock stands for.
Guarded(s) ==
  /\ Built(s) => /\ sh[s].vac.before \in Inode
                 /\ file[sh[s].vac.before].cmds \subseteq sh[s].vac.merged
                 /\ file[sh[s].vac.before].kind # "foreign"
                 /\ sh[s].vac.before < fresh
  /\ Steady /\ Built(s) =>
       /\ sh[s].pc # "vac_aside" /\ ~sh[s].vac.corrupt
       /\ dataPath # NoFile /\ sh[s].vac.before <= dataPath
       /\ sh[s].pc = "vac_lock" =>
            /\ sh[s].vac.target # NoFile /\ sh[s].vac.before <= sh[s].vac.target
            /\ sh[s].vac.target <= dataPath
  /\ Steady /\ "foreign file" \notin world.faults =>
       /\ dataPath # NoFile /\ file[dataPath].kind = "foreign" => ~Built(s)
  /\ LocksWork => ~sh[s].abandoned
  /\ Steady /\ LocksWork /\ sh[s].pc = "vac_rename" =>
       dataPath = sh[s].vac.before /\ holder[dataPath] = s

\* The mapping is one the path has named since the remembered id was taken.
Maps(p) == IF p # NoFile /\ file[p].kind = "ours" THEN p ELSE NoFile
Unsettled(s) == sh[s].pc \in {"dead", "boot_map", "remap", "vac_map"}
MappingKnown(s) ==
  /\ sh[s].dataId # NoFile => sh[s].dataId < fresh
  /\ sh[s].mapped # NoFile => sh[s].mapped < fresh
  /\ Steady => /\ At(sh[s].dataId) <= At(dataPath) \/ sh[s].pc = "dead"
               /\ ~Unsettled(s) =>
                    \E p \in Paths :
                      /\ At(sh[s].dataId) <= At(p) /\ At(p) <= At(dataPath)
                      /\ sh[s].mapped = Maps(p)

\* The items of the session, and where what it resolved is found.
Doing(s) == IF sh[s].pc = "remap" THEN sh[s].then ELSE sh[s].pc
ItemCmds(s) == {sh[s].items[i].cmd : i \in DOMAIN sh[s].items}
OnMapping(s) == IF sh[s].mapped = NoFile THEN {} ELSE file[sh[s].mapped].cmds
ItemsKnown(s) ==
  /\ sh[s].pc = "remap" => sh[s].then # "none"
  /\ sh[s].unwritten <= Len(sh[s].items)
  /\ Doing(s) \in {"exec", "flush"} => sh[s].unwritten < Len(sh[s].items)
  /\ \A i \in DOMAIN sh[s].items :
       sh[s].items[i].pending => i = Len(sh[s].items) /\ Doing(s) = "exec"
  /\ sh[s].own \cap Secret = {}
  /\ sh[s].pc = "dead" => sh[s].own = {}
OwnKept(s) ==
  /\ Building(s) => ItemCmds(s) \ Secret \subseteq sh[s].vac.session
  /\ Steady /\ LocksWork =>
       /\ sh[s].pc \in {"vac_check", "vac_truncate", "vac_forget"} =>
            ItemCmds(s) \ Secret \subseteq OnPath
       /\ sh[s].own \subseteq ItemCmds(s) \cup OnPath
       /\ ~Unsettled(s) /\ ~sh[s].untouchable =>
            sh[s].own \subseteq ItemCmds(s) \cup OnMapping(s)

ShellKnown(s) ==
  VacuumKeeps(s) /\ Guarded(s) /\ MappingKnown(s) /\ ItemsKnown(s) /\ OwnKept(s)
IInv ==
  /\ Types /\ FilesKnown
  /\ Safe \subseteq InLog \cup Aside \cup OnPath
  /\ \A s \in Shell : ShellKnown(s)
-----------------------------------------------------------------------------
(* The operators the model is built from.                                  *)

LEMMA HasLeast ==
  ASSUME NEW T, T \subseteq Nat, T # {}
  PROVE  \E x \in T : \A y \in T : x <= y
<1> DEFINE R == OpToRel(<, Nat)
<1>1. IsWellFoundedOn(R, Nat)
  BY NatLessThanWellFounded
<1>2. \A x, y \in Nat : <<x, y>> \in R <=> x < y
  BY DEF OpToRel
<1> HIDE DEF R
<1>3. PICK x \in T : \A y \in T : ~ (<<y, x>> \in R)
  BY <1>1, WFMin
<1>4. \A y \in T : x <= y
  <2> TAKE y \in T
  <2>1. x \in Nat /\ y \in Nat /\ ~(y < x)
    BY <1>2, <1>3
  <2> QED BY <2>1
<1> QED BY <1>4

LEMMA HasMax ==
  ASSUME NEW n \in Nat, NEW T, T \subseteq 0..n, T # {}
  PROVE  Max(T) \in T /\ \A y \in T : y <= Max(T)
<1> DEFINE U == {n - x : x \in T}
<1>0. \A x \in T : n - x \in Nat
  OBVIOUS
<1>1. U \subseteq Nat /\ U # {}
  BY <1>0
<1>2. PICK u \in U : \A v \in U : u <= v
  BY <1>1, HasLeast
<1>3. PICK x \in T : u = n - x
  BY <1>2
<1>4. \A y \in T : x >= y
  <2> TAKE y \in T
  <2>1. n - x <= n - y
    BY <1>2, <1>3
  <2> QED BY <2>1
<1>5. Max(T) \in T /\ \A y \in T : Max(T) >= y
  BY <1>4 DEF Max
<1> QED BY <1>5

LEMMA NothingIsASeq ==
  ASSUME NEW S
  PROVE  <<>> \in Seq(S) /\ Len(<<>>) = 0
OBVIOUS

(* What a vacuum spares of the items it wrote is a list of items.          *)
LEMMA SparedType ==
  ASSUME NEW S, NEW items \in Seq(S)
  PROVE  Spared(items) \in Seq(S)
<1> DEFINE n0 == Len(items)
           stays(i) == items[i].pending \/ ~ DiskItem(items[i].cmd)
           rec(f, i) == IF i = 0 THEN <<>>
                        ELSE IF stays(i) THEN Append(f[i - 1], items[i]) ELSE f[i - 1]
           good(f, n) == f = [i \in 0..n |-> rec(f, i)]
           bad == {n \in 0..n0 : ~ \E f : good(f, n)}
<1>n. n0 \in Nat
  BY LenProperties
<1> HIDE DEF stays
<1>1. bad = {}
  <2> SUFFICES ASSUME bad # {} PROVE FALSE
    OBVIOUS
  <2>1. PICK n \in bad : \A m \in bad : n <= m
    <3>1. bad \subseteq Nat
      BY <1>n
    <3> HIDE DEF bad
    <3> QED BY <3>1, HasLeast
  <2>2. n # 0
    <3> DEFINE f == [i \in 0..0 |-> <<>>]
    <3>1. good(f, 0)
      OBVIOUS
    <3> QED BY <3>1, <2>1
  <2>3. n - 1 \in 0..n0 /\ n - 1 \notin bad /\ n \in Nat /\ n >= 1
    <3>1. n \in 0..n0
      BY <2>1
    <3>2. n \in Nat /\ n >= 1 /\ n - 1 \in 0..n0 /\ ~(n <= n - 1)
      BY <1>n, <2>2, <3>1
    <3> HIDE DEF bad
    <3>3. n - 1 \notin bad
      BY <2>1, <3>2
    <3> QED BY <3>2, <3>3
  <2>4. PICK g : good(g, n - 1)
    BY <2>3
  <2> DEFINE f == [i \in 0..n |-> IF i < n THEN g[i] ELSE rec(g, n)]
  <2>5. \A i \in 0..n : f[i] = rec(f, i)
    <3> TAKE i \in 0..n
    <3>1. CASE i = 0
      <4>1. f[i] = g[0] /\ g[0] = <<>>
        BY <2>3, <2>4, <3>1
      <4> QED BY <3>1, <4>1
    <3>2. CASE i # 0 /\ i < n
      <4>1. i - 1 \in 0..n /\ i - 1 < n /\ i \in 0..(n - 1)
        BY <2>3, <3>2
      <4>2. f[i] = g[i] /\ f[i - 1] = g[i - 1]
        BY <3>2, <4>1
      <4>3. g[i] = rec(g, i)
        <5> HIDE DEF rec, f
        <5> QED BY <2>4, <4>1
      <4> QED BY <4>2, <4>3
    <3>3. CASE i = n
      <4>1. f[i] = rec(g, n) /\ f[n - 1] = g[n - 1]
        BY <2>3, <3>3
      <4> QED BY <3>3, <4>1
    <3> QED BY <2>3, <3>1, <3>2, <3>3
  <2>6. good(f, n)
    BY <2>5
  <2> HIDE DEF f
  <2>7. \E h : good(h, n)
    BY <2>6
  <2> QED BY <2>1, <2>7
<1> DEFINE kept == CHOOSE f : good(f, n0)
<1>2. Spared(items) = kept[n0]
  BY DEF Spared, stays
<1>3. good(kept, n0)
  <2>1. \E f : good(f, n0)
    <3> HIDE DEF good
    <3> QED BY <1>1, <1>n
  <2> HIDE DEF good
  <2> QED BY <2>1
<1> HIDE DEF kept
<1> DEFINE off == {n \in 0..n0 : kept[n] \notin Seq(S)}
<1>4. off = {}
  <2> SUFFICES ASSUME off # {} PROVE FALSE
    OBVIOUS
  <2>1. PICK n \in off : \A m \in off : n <= m
    <3>1. off \subseteq Nat
      BY <1>n
    <3> HIDE DEF off
    <3> QED BY <3>1, HasLeast
  <2>2. kept[n] = rec(kept, n) /\ n \in 0..n0
    BY <1>3, <2>1
  <2>3. n # 0
    <3>1. rec(kept, 0) \in Seq(S)
      BY NothingIsASeq
    <3> HIDE DEF rec
    <3> QED BY <2>1, <2>2, <3>1
  <2>4. n - 1 \in 0..n0 /\ n \in 1..n0
    BY <1>n, <2>2, <2>3
  <2>5. kept[n - 1] \in Seq(S) /\ items[n] \in S
    BY <2>1, <2>4
  <2>6. rec(kept, n) \in Seq(S)
    BY <2>3, <2>5
  <2> HIDE DEF rec
  <2> QED BY <2>1, <2>2, <2>6
<1> QED BY <1>2, <1>4, <1>n

LEMMA PathTells ==
  ASSUME Types
  PROVE  /\ dataPath \in Paths /\ (dataPath # NoFile => dataPath < fresh /\ dataPath \in Inode)
         /\ fresh \in Nat /\ fresh >= 1 /\ MaxFile \in Nat /\ NoFile \notin Inode
         /\ aside \subseteq Inode /\ \A i \in aside : i < fresh
         /\ \A p \in Paths : At(p) \in Int /\ (p # NoFile => p \in Nat /\ At(p) = p)
         /\ At(NoFile) = -1
BY HistoryAssumption DEF Types, Paths, Inode, At

LEMMA MapTier1Tells ==
  ASSUME Types, NEW m \in Memories, NEW f \in Paths
  PROVE  /\ MapTier1(m, f) = [m EXCEPT !.mapped = Maps(f),
                                       !.untouchable = f # NoFile /\ file[f].kind = "foreign"]
         /\ Maps(f) \in Paths
<1>1. Maps(f) \in Paths
  BY DEF Maps, Paths
<1>2. CASE f = NoFile
  BY <1>1, <1>2 DEF MapTier1, Maps
<1>3. CASE f # NoFile
  BY <1>1, <1>3 DEF MapTier1, Maps
<1> QED BY <1>1, <1>2, <1>3

LEMMA PublishTells ==
  ASSUME Types, NEW m \in Memories, NEW next \in {"idle", "exec", "count"}
  PROVE  LET p == Publish(m, next)
         IN  /\ p \in Memories
             /\ p.items = m.items /\ p.unwritten = m.unwritten /\ p.logged = m.logged
             /\ p.mapped = m.mapped /\ p.untouchable = m.untouchable /\ p.notified = m.notified
             /\ p.countdown = m.countdown /\ p.abandoned = m.abandoned /\ p.own = m.own
             /\ p.vac = m.vac
             /\ \/ p.pc = "remap" /\ p.then = next /\ p.dataId = dataPath
                \/ p.pc = next /\ p.then = m.then /\ p.dataId = m.dataId
<1>1. dataPath \in Paths
  BY PathTells
<1>2. CASE m.reload
  <2>1. Publish(m, next) = [m EXCEPT !.reload = FALSE, !.dataId = dataPath,
                                     !.pc = "remap", !.then = next]
    BY <1>2 DEF Publish
  <2> QED BY <1>1, <2>1 DEF Memories, Pcs
<1>3. CASE ~m.reload
  <2>1. Publish(m, next) = [m EXCEPT !.pc = next]
    BY <1>3 DEF Publish
  <2> QED BY <2>1 DEF Memories, Pcs
<1> QED BY <1>2, <1>3

-----------------------------------------------------------------------------
(* A shell's knowledge outlives what the others do to the disk.            *)

Same(q) == sh'[q] = sh[q] \/ sh'[q] = [sh[q] EXCEPT !.notified = TRUE]

SameMemory(q) ==
  /\ sh'[q].pc = sh[q].pc /\ sh'[q].then = sh[q].then /\ sh'[q].items = sh[q].items
  /\ sh'[q].unwritten = sh[q].unwritten /\ sh'[q].mapped = sh[q].mapped
  /\ sh'[q].untouchable = sh[q].untouchable /\ sh'[q].dataId = sh[q].dataId
  /\ sh'[q].abandoned = sh[q].abandoned /\ sh'[q].own = sh[q].own
  /\ sh'[q].vac = sh[q].vac /\ sh'[q] \in Memories

LEMMA SameTells ==
  ASSUME Types, NEW q \in Shell, Same(q)
  PROVE  SameMemory(q)
<1>1. sh[q] \in Memories
  BY DEF Types
<1>2. CASE sh'[q] = sh[q]
  BY <1>1, <1>2 DEF SameMemory
<1>3. CASE sh'[q] = [sh[q] EXCEPT !.notified = TRUE]
  BY <1>1, <1>3 DEF SameMemory, Memories
<1> QED BY <1>2, <1>3 DEF Same

Grows ==
  /\ world' = world /\ fresh' >= fresh /\ aside \subseteq aside'
  /\ \A i \in Inode : i < fresh => file'[i] = file[i]
  /\ Steady => At(dataPath) <= At(dataPath)'
  /\ Safe' \cap (Aside \cup OnPath) \subseteq (Aside \cup OnPath)'
  /\ Steady /\ LocksWork => OnPath \subseteq OnPath'
  /\ Steady /\ "foreign file" \notin world.faults /\ dataPath' # NoFile =>
       (file'[dataPath'].kind = "foreign" =>
          dataPath # NoFile /\ file[dataPath].kind = "foreign")

LEMMA GrowsAside ==
  ASSUME Types, Grows
  PROVE  Aside \subseteq Aside' /\ Steady' = Steady /\ LocksWork' = LocksWork
<1>1. \A i \in aside : i \in aside' /\ file'[i] = file[i]
  BY PathTells DEF Grows
<1>2. Aside \subseteq Aside'
  BY <1>1 DEF Aside
<1> QED BY <1>2 DEF Grows, Steady, LocksWork

LEMMA OthersKnow ==
  ASSUME IInv, Types', Grows, NEW q \in Shell, SameMemory(q),
         InVacuum(q) => Safe' \subseteq Safe,
         Steady /\ LocksWork /\ sh[q].pc = "vac_rename" =>
           dataPath' = dataPath /\ holder'[dataPath] = q
  PROVE  ShellKnown(q)'
<1>f. /\ Types /\ ShellKnown(q) /\ sh[q] \in Memories
      /\ sh[q].dataId \in Paths /\ sh[q].mapped \in Paths
      /\ sh[q].vac.before \in Paths /\ sh[q].vac.target \in Paths
  BY DEF IInv, Types, Memories, Vacuums
<1>g. /\ Aside \subseteq Aside' /\ Steady' = Steady /\ LocksWork' = LocksWork
      /\ fresh' >= fresh /\ fresh \in Nat /\ fresh' \in Nat
      /\ \A i \in Inode : i < fresh => file'[i] = file[i]
      /\ Steady => At(dataPath) <= At(dataPath)'
  <2>1. fresh \in Nat /\ fresh' \in Nat /\ Inode \subseteq Nat
    BY <1>f, HistoryAssumption DEF Types, Inode
  <2> QED BY <1>f, <2>1, GrowsAside DEF Grows
<1>i. \A i \in Inode : i \in Nat /\ (i < fresh => i < fresh')
  <2>1. Inode \subseteq Nat
    BY HistoryAssumption DEF Inode
  <2>2. fresh \in Nat /\ fresh' \in Nat /\ fresh' >= fresh
    BY <1>g
  <2> QED BY <2>1, <2>2
<1>h. /\ UNCHANGED <<Building(q), Built(q), Unsettled(q), Doing(q), ItemCmds(q)>>
      /\ Building(q) => InVacuum(q)
      /\ sh[q].pc \in {"vac_check", "vac_truncate"} => InVacuum(q)
  BY DEF SameMemory, Building, Built, Unsettled, Doing, ItemCmds, InVacuum
<1>p. dataPath # NoFile /\ Steady => dataPath' # NoFile /\ dataPath <= dataPath'
  <2>1. At(dataPath') = At(dataPath)'
    BY DEF At
  <2>2. /\ dataPath \in {NoFile} \cup Nat /\ dataPath' \in {NoFile} \cup Nat
        /\ At(dataPath) \in Int
    BY <1>f, HistoryAssumption, PathTells DEF Types
  <2> QED BY <1>g, <2>1, <2>2 DEF At
<1>1. VacuumKeeps(q)'
  <2>1. Safe' \cap (Aside \cup OnPath) \subseteq (Aside \cup OnPath)'
    BY DEF Grows
  <2>2. VacuumKeeps(q) /\ sh'[q].vac = sh[q].vac /\ sh'[q].pc = sh[q].pc
    BY <1>f DEF ShellKnown, SameMemory
  <2>3. InVacuum(q) => Safe' \subseteq Safe
    OBVIOUS
  <2>4. (Building(q) => Safe \subseteq sh[q].vac.log \cup Aside \cup OnPath)'
    BY <1>g, <1>h, <2>1, <2>2, <2>3 DEF VacuumKeeps
  <2>5. (Built(q) => Safe \subseteq sh[q].vac.merged \cup Aside)'
    <3>1. Built(q) => Building(q)
      BY DEF Built, Building
    <3> QED BY <1>g, <1>h, <2>2, <2>3, <3>1 DEF VacuumKeeps
  <2>6. (Built(q) => sh[q].vac.log \cup sh[q].vac.session \subseteq sh[q].vac.merged)'
    BY <1>h, <2>2 DEF VacuumKeeps
  <2>7. (sh[q].pc \in {"vac_check", "vac_truncate"} => Safe \subseteq Aside \cup OnPath)'
    BY <1>g, <1>h, <2>1, <2>2, <2>3 DEF VacuumKeeps
  <2> QED BY <2>4, <2>5, <2>6, <2>7 DEF VacuumKeeps
<1>2. Guarded(q)'
  <2>1. Guarded(q) /\ sh'[q].vac = sh[q].vac /\ sh'[q].pc = sh[q].pc
        /\ sh'[q].abandoned = sh[q].abandoned
    BY <1>f DEF ShellKnown, SameMemory
  <2>2. (Built(q) => /\ sh[q].vac.before \in Inode
                    /\ file[sh[q].vac.before].cmds \subseteq sh[q].vac.merged
                    /\ file[sh[q].vac.before].kind # "foreign"
                    /\ sh[q].vac.before < fresh)'
    <3>1. ASSUME Built(q) PROVE sh[q].vac.before < fresh' /\ sh[q].vac.before \in Inode
          /\ file'[sh[q].vac.before] = file[sh[q].vac.before]
      BY <1>g, <1>i, <2>1, <3>1 DEF Guarded
    <3> QED BY <1>h, <2>1, <3>1 DEF Guarded
  <2>3. (Steady /\ Built(q) =>
           /\ sh[q].pc # "vac_aside" /\ ~sh[q].vac.corrupt
           /\ dataPath # NoFile /\ sh[q].vac.before <= dataPath
           /\ sh[q].pc = "vac_lock" =>
                /\ sh[q].vac.target # NoFile /\ sh[q].vac.before <= sh[q].vac.target
                /\ sh[q].vac.target <= dataPath)'
    <3>1. ASSUME Steady, Built(q)
          PROVE  /\ dataPath \in Nat /\ dataPath' \in Nat /\ sh[q].vac.before \in Nat
                 /\ sh[q].vac.target # NoFile => sh[q].vac.target \in Nat
                 /\ dataPath # NoFile /\ dataPath' # NoFile
      <4>1. dataPath # NoFile /\ sh[q].vac.before \in Inode
        BY <2>1, <3>1 DEF Guarded
      <4>2. dataPath' # NoFile
        BY <1>p, <3>1, <4>1
      <4> QED BY <1>f, <4>1, <4>2, HistoryAssumption DEF Types, Inode, Paths
    <3>2. ASSUME Steady, Built(q)
          PROVE  /\ sh[q].vac.before <= dataPath'
                 /\ sh[q].pc = "vac_lock" => sh[q].vac.target <= dataPath'
      <4>1. /\ sh[q].vac.before <= dataPath
            /\ sh[q].pc = "vac_lock" => sh[q].vac.target # NoFile /\ sh[q].vac.target <= dataPath
        BY <2>1, <3>2 DEF Guarded
      <4>2. dataPath <= dataPath'
        BY <1>p, <3>1, <3>2
      <4> QED BY <3>1, <3>2, <4>1, <4>2
    <3> QED BY <1>g, <1>h, <2>1, <3>1, <3>2 DEF Guarded
  <2>4. (Steady /\ "foreign file" \notin world.faults =>
           (dataPath # NoFile /\ file[dataPath].kind = "foreign" => ~Built(q)))'
    BY <1>g, <1>h, <2>1 DEF Guarded, Grows
  <2>5. (Steady /\ LocksWork /\ sh[q].pc = "vac_rename" =>
           dataPath = sh[q].vac.before /\ holder[dataPath] = q)'
    BY <1>g, <2>1 DEF Guarded
  <2>6. (LocksWork => ~sh[q].abandoned)'
    BY <1>g, <2>1 DEF Guarded
  <2> QED BY <2>2, <2>3, <2>4, <2>5, <2>6 DEF Guarded
<1>3. MappingKnown(q)'
  <2>1. MappingKnown(q) /\ sh'[q].dataId = sh[q].dataId /\ sh'[q].pc = sh[q].pc
        /\ sh'[q].mapped = sh[q].mapped
    BY <1>f DEF ShellKnown, SameMemory
  <2>2. (sh[q].dataId # NoFile => sh[q].dataId < fresh)'
        /\ (sh[q].mapped # NoFile => sh[q].mapped < fresh)'
    BY <1>f, <1>g, <2>1, HistoryAssumption DEF MappingKnown, Paths, Inode
  <2>a. /\ \A p \in Paths : At(p) \in Int /\ At(p)' = At(p)
        /\ At(dataPath) \in Int /\ At(dataPath)' \in Int
        /\ At(sh[q].dataId) \in Int /\ At(sh[q].dataId)' = At(sh[q].dataId)
    BY <1>f, <2>1, PathTells, HistoryAssumption DEF At, Types
  <2>3. ASSUME Steady, ~Unsettled(q)
        PROVE  \E p \in Paths : /\ At(sh[q].dataId) <= At(p) /\ At(p) <= At(dataPath)'
                                /\ sh[q].mapped = Maps(p)'
    <3>1. PICK p \in Paths : /\ At(sh[q].dataId) <= At(p) /\ At(p) <= At(dataPath)
                             /\ sh[q].mapped = Maps(p)
      BY <2>1, <2>3 DEF MappingKnown
    <3>2. p # NoFile => p \in Inode /\ p < fresh
      BY <1>f, <3>1, PathTells, HistoryAssumption DEF Paths, Inode, At
    <3>3. Maps(p)' = Maps(p)
      BY <1>g, <3>2 DEF Maps
    <3>4. At(p) <= At(dataPath)'
      BY <1>g, <2>3, <2>a, <3>1
    <3> QED BY <3>1, <3>3, <3>4
  <2>4. ASSUME Steady
        PROVE  At(sh[q].dataId) <= At(dataPath)' \/ sh[q].pc = "dead"
    BY <1>g, <2>1, <2>4, <2>a DEF MappingKnown
  <2> QED BY <1>g, <1>h, <2>1, <2>2, <2>3, <2>4, <2>a DEF MappingKnown
<1>4. ItemsKnown(q)'
  <2>1. ItemsKnown(q)
    BY <1>f DEF ShellKnown
  <2> QED BY <1>h, <2>1 DEF ItemsKnown, SameMemory
<1>5. OwnKept(q)'
  <2>1. OwnKept(q) /\ MappingKnown(q) /\ sh'[q].vac = sh[q].vac /\ sh'[q].pc = sh[q].pc
        /\ sh'[q].own = sh[q].own /\ sh'[q].untouchable = sh[q].untouchable
    BY <1>f DEF ShellKnown, SameMemory
  <2>2. OnMapping(q)' = OnMapping(q)
    <3>1. sh[q].mapped # NoFile => sh[q].mapped \in Inode /\ sh[q].mapped < fresh
      BY <1>f, <2>1 DEF MappingKnown, Paths
    <3> QED BY <1>g, <3>1 DEF OnMapping, SameMemory
  <2>3. Steady /\ LocksWork => OnPath \subseteq OnPath'
    BY DEF Grows
  <2> QED BY <1>g, <1>h, <2>1, <2>2, <2>3 DEF OwnKept
<1> QED BY <1>1, <1>2, <1>3, <1>4, <1>5 DEF ShellKnown

-----------------------------------------------------------------------------
(* A step that leaves the disk and the locks alone.                        *)

Still ==
  UNCHANGED <<world, dataPath, file, fresh, aside, log, holder, durable, raced>>
Seated == UNCHANGED <<world, dataPath, file, fresh>>
OnlyOf(s) == \A q \in Shell \ {s} : sh'[q] = sh[q]
Vacuuming == {"vac_build", "vac_open", "vac_lock", "vac_aside", "vac_rename",
              "vac_check", "vac_truncate", "vac_forget"}

LEMMA StillTells ==
  ASSUME Still
  PROVE  /\ Safe' = Safe /\ Aside' = Aside /\ OnPath' = OnPath /\ InLog' = InLog
         /\ Steady' = Steady /\ LocksWork' = LocksWork
         /\ \A p \in Paths : Maps(p)' = Maps(p) /\ At(p)' = At(p)
         /\ Maps(dataPath)' = Maps(dataPath) /\ At(dataPath)' = At(dataPath)
BY DEF Still, Safe, Aside, OnPath, InLog, Steady, LocksWork, Maps, At

LEMMA SeatedTells ==
  ASSUME Seated
  PROVE  /\ OnPath' = OnPath /\ Steady' = Steady /\ LocksWork' = LocksWork
         /\ \A p \in Paths : Maps(p)' = Maps(p) /\ At(p)' = At(p)
         /\ Maps(dataPath)' = Maps(dataPath) /\ At(dataPath)' = At(dataPath)
BY DEF Seated, OnPath, Steady, LocksWork, Maps, At

LEMMA StillGrows ==
  ASSUME Types, Still
  PROVE  Grows
<1>1. fresh \in Nat
  BY PathTells
<1>2. At(dataPath) \in Int /\ At(dataPath)' = At(dataPath)
  BY PathTells, StillTells
<1>3. At(dataPath) <= At(dataPath)'
  BY <1>2
<1>4. Safe' \cap (Aside \cup OnPath) \subseteq (Aside \cup OnPath)' /\ OnPath \subseteq OnPath'
  BY StillTells
<1>5. /\ world' = world /\ fresh' >= fresh /\ aside \subseteq aside' /\ file' = file
      /\ dataPath' = dataPath
  BY <1>1 DEF Still
<1> QED BY <1>3, <1>4, <1>5 DEF Grows

LEMMA QuietStep ==
  ASSUME IInv, Still, NEW s \in Shell, sh' \in [Shell -> Memories], OnlyOf(s), ShellKnown(s)'
  PROVE  IInv'
<1>1. Types'
  BY DEF IInv, Types, Still
<1>2. FilesKnown'
  BY StillTells DEF IInv, FilesKnown, Still
<1>3. (Safe \subseteq InLog \cup Aside \cup OnPath)'
  BY StillTells DEF IInv
<1>4. ASSUME NEW q \in Shell PROVE ShellKnown(q)'
  <2>1. CASE q = s
    BY <2>1
  <2>2. CASE q # s
    <3>1. SameMemory(q)
      BY <2>2, SameTells DEF Same, OnlyOf, IInv
    <3>2. Safe' \subseteq Safe
      BY StillTells
    <3>3. Steady /\ LocksWork /\ sh[q].pc = "vac_rename" =>
            dataPath' = dataPath /\ holder'[dataPath] = q
      BY DEF Still, IInv, ShellKnown, Guarded
    <3> QED BY <1>1, <3>1, <3>2, <3>3, StillGrows, OthersKnow DEF IInv
  <2> QED BY <2>1, <2>2
<1> QED BY <1>1, <1>2, <1>3, <1>4 DEF IInv

LEMMA ShellTells ==
  ASSUME IInv, NEW s \in Shell
  PROVE  /\ Types /\ sh[s] \in Memories /\ ShellKnown(s)
         /\ sh \in [Shell -> Memories]
         /\ VacuumKeeps(s) /\ Guarded(s) /\ MappingKnown(s) /\ ItemsKnown(s) /\ OwnKept(s)
BY DEF IInv, Types, ShellKnown

LEMMA OutsideKnows ==
  ASSUME IInv, Seated, NEW s \in Shell, sh'[s].pc \notin Vacuuming,
         sh'[s].abandoned = sh[s].abandoned
  PROVE  VacuumKeeps(s)' /\ Guarded(s)'
<1>1. ~Built(s)' /\ ~Building(s)'
  BY DEF Vacuuming, Built, Building
<1>2. VacuumKeeps(s)'
  BY <1>1 DEF VacuumKeeps, Vacuuming
<1>3. (LocksWork => ~sh[s].abandoned)'
  BY ShellTells, SeatedTells DEF Guarded
<1> QED BY <1>1, <1>2, <1>3 DEF Guarded, Vacuuming

LEMMA MappingStays ==
  ASSUME IInv, Seated, NEW s \in Shell, sh'[s].mapped = sh[s].mapped,
         sh'[s].dataId = sh[s].dataId, Unsettled(s)' \/ ~Unsettled(s), sh[s].pc # "dead"
  PROVE  MappingKnown(s)'
<1>1. MappingKnown(s) /\ sh[s].dataId \in Paths
  BY ShellTells DEF Memories
<1>2. At(sh[s].dataId)' = At(sh[s].dataId) /\ fresh' = fresh
  BY SeatedTells DEF At, Seated
<1> QED BY <1>1, <1>2, SeatedTells DEF MappingKnown

LEMMA MappingNoted ==
  ASSUME IInv, Seated, NEW s \in Shell, sh'[s].mapped = sh[s].mapped,
         sh'[s].dataId = dataPath, Unsettled(s)'
  PROVE  MappingKnown(s)'
<1>1. MappingKnown(s) /\ (dataPath # NoFile => dataPath < fresh) /\ fresh' = fresh
  BY ShellTells, PathTells DEF Seated
<1>2. At(sh'[s].dataId) = At(dataPath) /\ At(dataPath) \in Int /\ At(dataPath') = At(dataPath)
  BY ShellTells, PathTells DEF Seated
<1>3. At(sh[s].dataId)' <= At(dataPath)'
  <2>1. At(sh[s].dataId)' = At(dataPath) /\ At(dataPath)' = At(dataPath)
    BY SeatedTells DEF At
  <2> QED BY <1>2, <2>1
<1> QED BY <1>1, <1>3 DEF MappingKnown

LEMMA MappingTaken ==
  ASSUME IInv, Seated, NEW s \in Shell, sh'[s].mapped = Maps(dataPath),
         sh'[s].dataId = sh[s].dataId, sh[s].pc # "dead"
  PROVE  MappingKnown(s)'
<1>1. /\ MappingKnown(s) /\ sh[s].dataId \in Paths /\ dataPath \in Paths
      /\ (dataPath # NoFile => dataPath < fresh) /\ fresh' = fresh /\ Types
  BY ShellTells, PathTells DEF Seated, Memories
<1>2. At(sh[s].dataId)' = At(sh[s].dataId) /\ At(sh[s].dataId) \in Int /\ At(dataPath) \in Int
  BY <1>1, SeatedTells, PathTells DEF At, Seated
<1>3. sh'[s].mapped # NoFile => sh'[s].mapped < fresh
  BY <1>1 DEF Maps
<1>4. Maps(dataPath)' = Maps(dataPath) /\ dataPath' = dataPath /\ At(dataPath)' = At(dataPath)
  BY SeatedTells DEF Seated
<1>5. Steady => \E p \in Paths : /\ At(sh[s].dataId)' <= At(p)' /\ At(p)' <= At(dataPath)'
                                 /\ sh'[s].mapped = Maps(p)'
  <2>1. Steady => At(sh[s].dataId) <= At(dataPath)
    BY <1>1 DEF MappingKnown
  <2>2. ASSUME Steady
        PROVE  /\ At(sh[s].dataId)' <= At(dataPath)' /\ At(dataPath)' <= At(dataPath)'
               /\ sh'[s].mapped = Maps(dataPath)'
    BY <1>2, <1>4, <2>1, <2>2
  <2>3. \A p \in Paths : At(p)' = At(p) /\ Maps(p)' = Maps(p)
    BY SeatedTells
  <2>4. At(dataPath)' = At(dataPath) /\ Maps(dataPath)' = Maps(dataPath)
    BY <1>4
  <2> QED BY <1>1, <2>2, <2>3, <2>4
<1>6. sh'[s].dataId # NoFile => sh'[s].dataId < fresh
  BY <1>1 DEF MappingKnown
<1>7. Steady => (At(sh[s].dataId) <= At(dataPath))'
  BY <1>1, <1>2, <1>4 DEF MappingKnown
<1>8. At(sh[s].dataId)' = At(sh'[s].dataId) /\ At(dataPath)' = At(dataPath')
  BY DEF At
<1> QED BY <1>1, <1>3, <1>5, <1>6, <1>7, <1>8, SeatedTells DEF MappingKnown

LEMMA ItemsStay ==
  ASSUME IInv, NEW s \in Shell, sh'[s].items = sh[s].items,
         sh'[s].unwritten = sh[s].unwritten, sh'[s].own = sh[s].own,
         Doing(s)' = Doing(s) \/ (Doing(s) # "exec" /\ Doing(s)' \notin {"exec", "flush"}),
         sh'[s].pc # "dead", sh'[s].pc = "remap" => sh'[s].then # "none"
  PROVE  ItemsKnown(s)' /\ ItemCmds(s)' = ItemCmds(s)
<1>1. ItemsKnown(s)
  BY ShellTells
<1> QED BY <1>1 DEF ItemsKnown, ItemCmds

(* What a shell resolved is found again in what it maps.                   *)
LEMMA OwnStays ==
  ASSUME IInv, Seated, NEW s \in Shell, sh'[s].pc \notin Vacuuming,
         ItemCmds(s)' = ItemCmds(s), sh'[s].own = sh[s].own,
         sh'[s].mapped = sh[s].mapped, sh'[s].untouchable = sh[s].untouchable,
         Unsettled(s)' \/ ~Unsettled(s)
  PROVE  OwnKept(s)'
<1>1. OwnKept(s) /\ OnMapping(s)' = OnMapping(s)
  BY ShellTells DEF OnMapping, Seated
<1>2. ~Building(s)'
  BY DEF Vacuuming, Building
<1> QED BY <1>1, <1>2, SeatedTells DEF OwnKept, Vacuuming

LEMMA OwnTaken ==
  ASSUME IInv, Seated, NEW s \in Shell, sh'[s].pc \notin Vacuuming,
         ItemCmds(s)' = ItemCmds(s), sh'[s].own = sh[s].own,
         sh'[s].mapped = Maps(dataPath),
         sh'[s].untouchable = (dataPath # NoFile /\ file[dataPath].kind = "foreign")
  PROVE  OwnKept(s)'
<1>1. OwnKept(s) /\ Types /\ FilesKnown
  BY ShellTells DEF IInv
<1>2. ~Building(s)'
  BY DEF Vacuuming, Building
<1>3. Steady /\ ~sh'[s].untouchable => OnMapping(s)' = OnPath
  <2>1. CASE dataPath = NoFile
    BY <2>1 DEF OnMapping, OnPath, Maps
  <2>2. CASE dataPath # NoFile
    <3>1. dataPath \in Inode /\ file[dataPath].kind \in {"ours", "foreign", "corrupt"}
      BY <1>1, <2>2, PathTells DEF Types
    <3> QED BY <1>1, <2>2, <3>1 DEF OnMapping, OnPath, Maps, FilesKnown, Seated
  <2> QED BY <2>1, <2>2
<1> QED BY <1>1, <1>2, <1>3, SeatedTells DEF OwnKept, Vacuuming

LEMMA LogTells ==
  ASSUME Types
  PROVE  InLog \subseteq Command
BY DEF Types, InLog, ToSet

LEMMA OneShell ==
  ASSUME Types, NEW s \in Shell, NEW m \in Memories, sh' = [sh EXCEPT ![s] = m]
  PROVE  sh'[s] = m /\ sh'[s] \in Memories /\ sh' \in [Shell -> Memories] /\ OnlyOf(s)
BY DEF Types, OnlyOf

-----------------------------------------------------------------------------
(* Each step of a shell keeps the invariant: those that touch its memory    *)
(* alone first.                                                            *)

LEMMA StartKnows ==
  ASSUME IInv, NEW s \in Shell, Start(s)
  PROVE  IInv'
<1>f. Types /\ sh[s] \in Memories /\ sh \in [Shell -> Memories] /\ dataPath \in Paths
  BY ShellTells, PathTells
<1>n. /\ sh'[s].pc = "boot_map" /\ sh'[s].dataId = dataPath
      /\ sh'[s].items = sh[s].items /\ sh'[s].unwritten = sh[s].unwritten
      /\ sh'[s].mapped = sh[s].mapped /\ sh'[s].untouchable = sh[s].untouchable
      /\ sh'[s].abandoned = sh[s].abandoned /\ sh'[s].own = sh[s].own
      /\ sh'[s].vac = sh[s].vac /\ sh'[s].then = sh[s].then
      /\ sh'[s] \in Memories /\ sh' \in [Shell -> Memories] /\ OnlyOf(s) /\ Still /\ Seated
  BY <1>f DEF Start, Memories, Pcs, OnlyOf, Still, Seated, disk
<1>g. sh[s].pc = "dead"
  BY DEF Start
<1>1. VacuumKeeps(s)' /\ Guarded(s)'
  BY <1>n, OutsideKnows DEF Vacuuming
<1>2. MappingKnown(s)'
  BY <1>n, MappingNoted DEF Unsettled
<1>3. ItemsKnown(s)' /\ ItemCmds(s)' = ItemCmds(s)
  BY <1>g, <1>n, ItemsStay DEF Doing
<1>4. OwnKept(s)'
  BY <1>g, <1>n, <1>3, OwnStays DEF Unsettled, Vacuuming
<1> QED BY <1>n, <1>1, <1>2, <1>3, <1>4, QuietStep DEF ShellKnown

LEMMA BootMapKnows ==
  ASSUME IInv, NEW s \in Shell, BootMap(s)
  PROVE  IInv'
<1>f. Types /\ sh[s] \in Memories /\ sh \in [Shell -> Memories] /\ dataPath \in Paths
  BY ShellTells, PathTells
<1>p. MapTier1(sh[s], dataPath) = [sh[s] EXCEPT !.mapped = Maps(dataPath),
                                       !.untouchable = dataPath # NoFile
                                         /\ file[dataPath].kind = "foreign"]
      /\ Maps(dataPath) \in Paths
  BY <1>f, MapTier1Tells
<1>n. /\ sh'[s].pc = "boot_log" /\ sh'[s].mapped = Maps(dataPath)
      /\ sh'[s].untouchable = (dataPath # NoFile /\ file[dataPath].kind = "foreign")
      /\ sh'[s].items = sh[s].items /\ sh'[s].unwritten = sh[s].unwritten
      /\ sh'[s].dataId = sh[s].dataId /\ sh'[s].abandoned = sh[s].abandoned
      /\ sh'[s].own = sh[s].own /\ sh'[s].vac = sh[s].vac
      /\ sh'[s].then = sh[s].then
      /\ sh'[s] \in Memories /\ sh' \in [Shell -> Memories] /\ OnlyOf(s) /\ Still /\ Seated
  <2> DEFINE n == [[sh[s] EXCEPT !.mapped = Maps(dataPath),
                              !.untouchable = dataPath # NoFile /\ file[dataPath].kind = "foreign"]
                   EXCEPT !.pc = "boot_log"]
  <2>1. n \in Memories
    BY <1>f, <1>p DEF Memories, Pcs
  <2>2. sh' = [sh EXCEPT ![s] = n] /\ Still /\ Seated
    BY <1>f, <1>p DEF BootMap, Still, Seated, disk
  <2>3. /\ sh'[s].pc = "boot_log" /\ sh'[s].mapped = Maps(dataPath)
      /\ sh'[s].untouchable = (dataPath # NoFile /\ file[dataPath].kind = "foreign")
      /\ sh'[s].items = sh[s].items /\ sh'[s].unwritten = sh[s].unwritten
      /\ sh'[s].dataId = sh[s].dataId /\ sh'[s].abandoned = sh[s].abandoned
      /\ sh'[s].own = sh[s].own /\ sh'[s].vac = sh[s].vac
      /\ sh'[s].then = sh[s].then
    BY <1>f, <1>p, <2>2 DEF Memories
  <2> HIDE DEF n
  <2> QED BY <1>f, <2>1, <2>2, <2>3, OneShell
<1>g. sh[s].pc = "boot_map"
  BY DEF BootMap
<1>1. VacuumKeeps(s)' /\ Guarded(s)'
  BY <1>n, OutsideKnows DEF Vacuuming
<1>2. MappingKnown(s)'
  BY <1>g, <1>n, MappingTaken
<1>3. ItemsKnown(s)' /\ ItemCmds(s)' = ItemCmds(s)
  BY <1>g, <1>n, ItemsStay DEF Doing
<1>4. OwnKept(s)'
  BY <1>n, <1>3, OwnTaken DEF Vacuuming
<1> QED BY <1>n, <1>1, <1>2, <1>3, <1>4, QuietStep DEF ShellKnown

LEMMA BootLogKnows ==
  ASSUME IInv, NEW s \in Shell, BootLog(s)
  PROVE  IInv'
<1>f. Types /\ sh[s] \in Memories /\ sh \in [Shell -> Memories] /\ dataPath \in Paths
  BY ShellTells, PathTells
<1>l. InLog \subseteq Command
  BY <1>f, LogTells
<1>n. /\ sh'[s].pc = "idle" /\ sh'[s].items = sh[s].items
      /\ sh'[s].unwritten = sh[s].unwritten /\ sh'[s].mapped = sh[s].mapped
      /\ sh'[s].untouchable = sh[s].untouchable /\ sh'[s].dataId = sh[s].dataId
      /\ sh'[s].abandoned = sh[s].abandoned /\ sh'[s].own = sh[s].own
      /\ sh'[s].vac = sh[s].vac /\ sh'[s].then = sh[s].then
      /\ sh'[s] \in Memories /\ sh' \in [Shell -> Memories] /\ OnlyOf(s) /\ Still /\ Seated
  BY <1>f, <1>l DEF BootLog, Memories, Pcs, OnlyOf, Still, Seated, disk
<1>g. sh[s].pc = "boot_log"
  BY DEF BootLog
<1>1. VacuumKeeps(s)' /\ Guarded(s)'
  BY <1>n, OutsideKnows DEF Vacuuming
<1>2. MappingKnown(s)'
  BY <1>g, <1>n, MappingStays DEF Unsettled
<1>3. ItemsKnown(s)' /\ ItemCmds(s)' = ItemCmds(s)
  BY <1>g, <1>n, ItemsStay DEF Doing
<1>4. OwnKept(s)'
  BY <1>g, <1>n, <1>3, OwnStays DEF Unsettled, Vacuuming
<1> QED BY <1>n, <1>1, <1>2, <1>3, <1>4, QuietStep DEF ShellKnown

LEMMA RemapKnows ==
  ASSUME IInv, NEW s \in Shell, Remap(s)
  PROVE  IInv'
<1>f. Types /\ sh[s] \in Memories /\ sh \in [Shell -> Memories] /\ dataPath \in Paths
  BY ShellTells, PathTells
<1>p. MapTier1(sh[s], dataPath) = [sh[s] EXCEPT !.mapped = Maps(dataPath),
                                       !.untouchable = dataPath # NoFile
                                         /\ file[dataPath].kind = "foreign"]
      /\ Maps(dataPath) \in Paths
  BY <1>f, MapTier1Tells
<1>g. sh[s].pc = "remap"
  BY DEF Remap
<1>h. sh[s].then \in {"idle", "exec", "count"}
  BY <1>f, <1>g, ShellTells DEF ItemsKnown, Memories
<1>n. /\ sh'[s].pc = sh[s].then /\ sh'[s].mapped = Maps(dataPath)
      /\ sh'[s].untouchable = (dataPath # NoFile /\ file[dataPath].kind = "foreign")
      /\ sh'[s].then = "none" /\ sh'[s].items = sh[s].items
      /\ sh'[s].unwritten = sh[s].unwritten /\ sh'[s].dataId = sh[s].dataId
      /\ sh'[s].abandoned = sh[s].abandoned /\ sh'[s].own = sh[s].own
      /\ sh'[s].vac = sh[s].vac
      /\ sh'[s] \in Memories /\ sh' \in [Shell -> Memories] /\ OnlyOf(s) /\ Still /\ Seated
  <2> DEFINE n == [[sh[s] EXCEPT !.mapped = Maps(dataPath),
                              !.untouchable = dataPath # NoFile /\ file[dataPath].kind = "foreign"]
                   EXCEPT !.pc = sh[s].then, !.then = "none"]
  <2>1. n \in Memories
    BY <1>f, <1>p, <1>h DEF Memories, Pcs
  <2>2. sh' = [sh EXCEPT ![s] = n] /\ Still /\ Seated
    BY <1>f, <1>p DEF Remap, Still, Seated, disk
  <2>3. /\ sh'[s].pc = sh[s].then /\ sh'[s].mapped = Maps(dataPath)
      /\ sh'[s].untouchable = (dataPath # NoFile /\ file[dataPath].kind = "foreign")
      /\ sh'[s].then = "none" /\ sh'[s].items = sh[s].items
      /\ sh'[s].unwritten = sh[s].unwritten /\ sh'[s].dataId = sh[s].dataId
      /\ sh'[s].abandoned = sh[s].abandoned /\ sh'[s].own = sh[s].own
      /\ sh'[s].vac = sh[s].vac
    BY <1>f, <1>p, <2>2 DEF Memories
  <2> HIDE DEF n
  <2> QED BY <1>f, <2>1, <2>2, <2>3, OneShell
<1>1. VacuumKeeps(s)' /\ Guarded(s)'
  BY <1>h, <1>n, OutsideKnows DEF Vacuuming
<1>2. MappingKnown(s)'
  BY <1>g, <1>n, MappingTaken
<1>3. ItemsKnown(s)' /\ ItemCmds(s)' = ItemCmds(s)
  BY <1>g, <1>h, <1>n, ItemsStay DEF Doing
<1>4. OwnKept(s)'
  BY <1>g, <1>h, <1>n, <1>3, OwnTaken DEF Vacuuming
<1> QED BY <1>n, <1>1, <1>2, <1>3, <1>4, QuietStep DEF ShellKnown

LEMMA VacuumMapKnows ==
  ASSUME IInv, NEW s \in Shell, VacuumMap(s)
  PROVE  IInv'
<1>f. Types /\ sh[s] \in Memories /\ sh \in [Shell -> Memories] /\ dataPath \in Paths
  BY ShellTells, PathTells
<1>p. MapTier1(sh[s], dataPath) = [sh[s] EXCEPT !.mapped = Maps(dataPath),
                                       !.untouchable = dataPath # NoFile
                                         /\ file[dataPath].kind = "foreign"]
      /\ Maps(dataPath) \in Paths
  BY <1>f, MapTier1Tells
<1>n. /\ sh'[s].pc = "vac_log" /\ sh'[s].mapped = Maps(dataPath)
      /\ sh'[s].untouchable = (dataPath # NoFile /\ file[dataPath].kind = "foreign")
      /\ sh'[s].items = sh[s].items /\ sh'[s].unwritten = sh[s].unwritten
      /\ sh'[s].dataId = sh[s].dataId /\ sh'[s].abandoned = sh[s].abandoned
      /\ sh'[s].own = sh[s].own /\ sh'[s].vac = sh[s].vac
      /\ sh'[s].then = sh[s].then
      /\ sh'[s] \in Memories /\ sh' \in [Shell -> Memories] /\ OnlyOf(s) /\ Still /\ Seated
  <2> DEFINE n == [[sh[s] EXCEPT !.mapped = Maps(dataPath),
                              !.untouchable = dataPath # NoFile /\ file[dataPath].kind = "foreign"]
                   EXCEPT !.pc = "vac_log"]
  <2>1. n \in Memories
    BY <1>f, <1>p DEF Memories, Pcs
  <2>2. sh' = [sh EXCEPT ![s] = n] /\ Still /\ Seated
    BY <1>f, <1>p DEF VacuumMap, Still, Seated, disk
  <2>3. /\ sh'[s].pc = "vac_log" /\ sh'[s].mapped = Maps(dataPath)
      /\ sh'[s].untouchable = (dataPath # NoFile /\ file[dataPath].kind = "foreign")
      /\ sh'[s].items = sh[s].items /\ sh'[s].unwritten = sh[s].unwritten
      /\ sh'[s].dataId = sh[s].dataId /\ sh'[s].abandoned = sh[s].abandoned
      /\ sh'[s].own = sh[s].own /\ sh'[s].vac = sh[s].vac
      /\ sh'[s].then = sh[s].then
    BY <1>f, <1>p, <2>2 DEF Memories
  <2> HIDE DEF n
  <2> QED BY <1>f, <2>1, <2>2, <2>3, OneShell
<1>g. sh[s].pc = "vac_map"
  BY DEF VacuumMap
<1>1. VacuumKeeps(s)' /\ Guarded(s)'
  BY <1>n, OutsideKnows DEF Vacuuming
<1>2. MappingKnown(s)'
  BY <1>g, <1>n, MappingTaken
<1>3. ItemsKnown(s)' /\ ItemCmds(s)' = ItemCmds(s)
  BY <1>g, <1>n, ItemsStay DEF Doing
<1>4. OwnKept(s)'
  BY <1>n, <1>3, OwnTaken DEF Vacuuming
<1> QED BY <1>n, <1>1, <1>2, <1>3, <1>4, QuietStep DEF ShellKnown

LEMMA VacuumLogKnows ==
  ASSUME IInv, NEW s \in Shell, VacuumLog(s)
  PROVE  IInv'
<1>f. Types /\ sh[s] \in Memories /\ sh \in [Shell -> Memories] /\ dataPath \in Paths
  BY ShellTells, PathTells
<1>l. InLog \subseteq Command
  BY <1>f, LogTells
<1>n. /\ sh'[s].pc = "idle" /\ sh'[s].items = sh[s].items
      /\ sh'[s].unwritten = sh[s].unwritten /\ sh'[s].mapped = sh[s].mapped
      /\ sh'[s].untouchable = sh[s].untouchable /\ sh'[s].dataId = sh[s].dataId
      /\ sh'[s].abandoned = sh[s].abandoned /\ sh'[s].own = sh[s].own
      /\ sh'[s].vac = sh[s].vac /\ sh'[s].then = sh[s].then
      /\ sh'[s] \in Memories /\ sh' \in [Shell -> Memories] /\ OnlyOf(s) /\ Still /\ Seated
  BY <1>f, <1>l DEF VacuumLog, Memories, Pcs, OnlyOf, Still, Seated, disk
<1>g. sh[s].pc = "vac_log"
  BY DEF VacuumLog
<1>1. VacuumKeeps(s)' /\ Guarded(s)'
  BY <1>n, OutsideKnows DEF Vacuuming
<1>2. MappingKnown(s)'
  BY <1>g, <1>n, MappingStays DEF Unsettled
<1>3. ItemsKnown(s)' /\ ItemCmds(s)' = ItemCmds(s)
  BY <1>g, <1>n, ItemsStay DEF Doing
<1>4. OwnKept(s)'
  BY <1>g, <1>n, <1>3, OwnStays DEF Unsettled, Vacuuming
<1> QED BY <1>n, <1>1, <1>2, <1>3, <1>4, QuietStep DEF ShellKnown

LEMMA CountKnows ==
  ASSUME IInv, NEW s \in Shell, Count(s)
  PROVE  IInv'
<1>f. Types /\ sh[s] \in Memories /\ sh \in [Shell -> Memories] /\ dataPath \in Paths
  BY ShellTells, PathTells
<1>g. sh[s].pc = "count"
  BY DEF Count
<1>c. sh'[s].pc \in {"idle", "vac_read"}
  BY <1>f DEF Count, Memories
<1>k. PICK c \in Int, p \in {"idle", "vac_read"} : sh' = [sh EXCEPT ![s].countdown = c, ![s].pc = p]
  <2>1. sh[s].countdown \in Int /\ world.frequency \in Nat \ {0}
    BY <1>f, HistoryAssumption DEF Types, Memories
  <2>2. PICK k \in (IF sh[s].countdown = -1 THEN 0..(world.frequency - 1) ELSE {sh[s].countdown}) :
          sh' = [sh EXCEPT ![s].countdown = IF k > 0 THEN k - 1 ELSE world.frequency - 1,
                           ![s].pc = IF k > 0 THEN "idle" ELSE "vac_read"]
    BY DEF Count
  <2>3. k \in Int /\ k - 1 \in Int /\ world.frequency - 1 \in Int
    BY <2>1
  <2>4. CASE k > 0
    BY <2>2, <2>3, <2>4
  <2>5. CASE ~(k > 0)
    BY <2>2, <2>3, <2>5
  <2> QED BY <2>4, <2>5
<1>n. /\ sh'[s].items = sh[s].items /\ sh'[s].unwritten = sh[s].unwritten
      /\ sh'[s].mapped = sh[s].mapped /\ sh'[s].untouchable = sh[s].untouchable
      /\ sh'[s].dataId = sh[s].dataId /\ sh'[s].abandoned = sh[s].abandoned
      /\ sh'[s].own = sh[s].own /\ sh'[s].vac = sh[s].vac
      /\ sh'[s].then = sh[s].then
      /\ sh'[s] \in Memories /\ sh' \in [Shell -> Memories] /\ OnlyOf(s) /\ Still /\ Seated
  <2>1. Still /\ Seated
    BY DEF Count, Still, Seated, disk
  <2> DEFINE n == [sh[s] EXCEPT !.countdown = c, !.pc = p]
  <2>3. n \in Memories
    BY <1>f DEF Memories, Pcs
  <2>4. sh' = [sh EXCEPT ![s] = n]
    BY <1>f, <1>k
  <2>5. /\ sh'[s].items = sh[s].items /\ sh'[s].unwritten = sh[s].unwritten
      /\ sh'[s].mapped = sh[s].mapped /\ sh'[s].untouchable = sh[s].untouchable
      /\ sh'[s].dataId = sh[s].dataId /\ sh'[s].abandoned = sh[s].abandoned
      /\ sh'[s].own = sh[s].own /\ sh'[s].vac = sh[s].vac
      /\ sh'[s].then = sh[s].then
    BY <1>f, <2>4 DEF Memories
  <2> HIDE DEF n
  <2> QED BY <1>f, <2>1, <2>3, <2>4, <2>5, OneShell
<1>1. VacuumKeeps(s)' /\ Guarded(s)'
  BY <1>c, <1>n, OutsideKnows DEF Vacuuming
<1>2. MappingKnown(s)'
  BY <1>g, <1>n, MappingStays DEF Unsettled
<1>3. ItemsKnown(s)' /\ ItemCmds(s)' = ItemCmds(s)
  BY <1>c, <1>g, <1>n, ItemsStay DEF Doing
<1>4. OwnKept(s)'
  BY <1>g, <1>n, <1>3, <1>c, OwnStays DEF Unsettled, Vacuuming
<1> QED BY <1>n, <1>1, <1>2, <1>3, <1>4, QuietStep DEF ShellKnown

LEMMA NoteTells ==
  ASSUME NEW m \in Memories
  PROVE  /\ Note(m) \in Memories
         /\ Note(m).items = m.items /\ Note(m).unwritten = m.unwritten
         /\ Note(m).own = m.own /\ Note(m).mapped = m.mapped /\ Note(m).dataId = m.dataId
         /\ Note(m).abandoned = m.abandoned /\ Note(m).untouchable = m.untouchable
<1>1. Note(m) = [m EXCEPT !.reload = m.reload \/ dataPath # m.dataId]
  BY DEF Note, Memories
<1> QED BY <1>1 DEF Memories

(* What publish leaves, wherever it is called.                             *)
Publishing(s, m, next, p) ==
  /\ Seated /\ m \in Memories /\ next \in {"idle", "exec", "count"}
  /\ p = Publish(m, next) /\ sh' = [sh EXCEPT ![s] = p]
  /\ m.mapped = sh[s].mapped /\ m.dataId = sh[s].dataId
  /\ m.abandoned = sh[s].abandoned /\ ~Unsettled(s)
Published(s, m, next) ==
  /\ sh'[s] \in Memories /\ sh' \in [Shell -> Memories] /\ OnlyOf(s)
  /\ sh'[s].items = m.items /\ sh'[s].unwritten = m.unwritten /\ sh'[s].own = m.own
  /\ sh'[s].mapped = m.mapped /\ sh'[s].untouchable = m.untouchable
  /\ sh'[s].pc \in {"remap", next} /\ (sh'[s].pc = "remap" => sh'[s].then # "none")
  /\ Doing(s)' = next
  /\ MappingKnown(s)' /\ VacuumKeeps(s)' /\ Guarded(s)'
LEMMA PublishKnows ==
  ASSUME IInv, NEW s \in Shell, NEW m, NEW next, NEW p, Publishing(s, m, next, p)
  PROVE  Published(s, m, next)
<1>a. /\ Seated /\ m \in Memories /\ next \in {"idle", "exec", "count"}
      /\ p = Publish(m, next) /\ sh' = [sh EXCEPT ![s] = p]
      /\ m.mapped = sh[s].mapped /\ m.dataId = sh[s].dataId
      /\ m.abandoned = sh[s].abandoned /\ ~Unsettled(s)
  BY DEF Publishing
<1>f. Types
  BY ShellTells
<1>1. /\ sh'[s] = Publish(m, next) /\ sh'[s] \in Memories /\ sh' \in [Shell -> Memories]
      /\ OnlyOf(s)
  BY <1>f, <1>a, PublishTells, OneShell
<1>2. /\ sh'[s].items = m.items /\ sh'[s].unwritten = m.unwritten /\ sh'[s].own = m.own
      /\ sh'[s].mapped = m.mapped /\ sh'[s].untouchable = m.untouchable
      /\ sh'[s].abandoned = m.abandoned
      /\ \/ sh'[s].pc = "remap" /\ sh'[s].then = next /\ sh'[s].dataId = dataPath
         \/ sh'[s].pc = next /\ sh'[s].dataId = m.dataId
  BY <1>f, <1>a, <1>1, PublishTells
<1>3. Doing(s)' = next
  BY <1>a, <1>2 DEF Doing
<1>4. MappingKnown(s)'
  <2>1. CASE sh'[s].pc = "remap" /\ sh'[s].then = next /\ sh'[s].dataId = dataPath
    BY <1>a, <1>2, <2>1, MappingNoted DEF Unsettled
  <2>2. CASE sh'[s].pc = next /\ sh'[s].dataId = m.dataId
    BY <1>a, <1>2, <2>2, MappingStays DEF Unsettled
  <2> QED BY <1>2, <2>1, <2>2
<1>5. VacuumKeeps(s)' /\ Guarded(s)'
  BY <1>a, <1>2, OutsideKnows DEF Vacuuming
<1> QED BY <1>a, <1>1, <1>2, <1>3, <1>4, <1>5 DEF Published

LEMMA DrainWatchKnows ==
  ASSUME IInv, NEW s \in Shell, DrainWatch(s)
  PROVE  IInv'
<1>f. Types /\ sh[s] \in Memories
  BY ShellTells
<1>g. sh[s].pc \in {"idle", "exec"} /\ ~Unsettled(s) /\ Still /\ Seated
  BY DEF DrainWatch, Unsettled, Still, Seated, disk
<1> DEFINE m == Note([sh[s] EXCEPT !.notified = FALSE])
           p == Publish(m, sh[s].pc)
<1>m. /\ m \in Memories /\ m.items = sh[s].items /\ m.unwritten = sh[s].unwritten
      /\ m.own = sh[s].own /\ m.mapped = sh[s].mapped /\ m.dataId = sh[s].dataId
      /\ m.abandoned = sh[s].abandoned /\ m.untouchable = sh[s].untouchable
  <2>1. [sh[s] EXCEPT !.notified = FALSE] \in Memories
    BY <1>f DEF Memories
  <2>2. /\ [sh[s] EXCEPT !.notified = FALSE].items = sh[s].items
        /\ [sh[s] EXCEPT !.notified = FALSE].unwritten = sh[s].unwritten
        /\ [sh[s] EXCEPT !.notified = FALSE].own = sh[s].own
        /\ [sh[s] EXCEPT !.notified = FALSE].mapped = sh[s].mapped
        /\ [sh[s] EXCEPT !.notified = FALSE].dataId = sh[s].dataId
        /\ [sh[s] EXCEPT !.notified = FALSE].abandoned = sh[s].abandoned
        /\ [sh[s] EXCEPT !.notified = FALSE].untouchable = sh[s].untouchable
    BY <1>f DEF Memories
  <2> QED BY <2>1, <2>2, NoteTells
<1>s. sh' = [sh EXCEPT ![s] = p]
  BY DEF DrainWatch
<1> HIDE DEF m
<1>p. p = Publish(m, sh[s].pc)
  OBVIOUS
<1> HIDE DEF p
<1>n. /\ sh' \in [Shell -> Memories] /\ OnlyOf(s)
      /\ sh'[s].items = sh[s].items /\ sh'[s].unwritten = sh[s].unwritten
      /\ sh'[s].own = sh[s].own /\ sh'[s].mapped = sh[s].mapped
      /\ sh'[s].untouchable = sh[s].untouchable
      /\ sh'[s].pc \in {"remap", "idle", "exec"} /\ (sh'[s].pc = "remap" => sh'[s].then # "none")
      /\ Doing(s)' = sh[s].pc /\ MappingKnown(s)' /\ VacuumKeeps(s)' /\ Guarded(s)'
  <2>1. Publishing(s, m, sh[s].pc, p)
    BY <1>g, <1>m, <1>s, <1>p DEF Publishing
  <2>2. Published(s, m, sh[s].pc)
    BY <2>1, PublishKnows
  <2> QED BY <1>g, <1>m, <2>2 DEF Published
<1>3. ItemsKnown(s)' /\ ItemCmds(s)' = ItemCmds(s)
  BY <1>g, <1>n, ItemsStay DEF Doing
<1>4. OwnKept(s)'
  BY <1>g, <1>n, <1>3, OwnStays DEF Vacuuming
<1> QED BY <1>g, <1>n, <1>3, <1>4, QuietStep DEF ShellKnown

(* add: what it drops from the end was never to be kept.                   *)
LEMMA AddKnows ==
  ASSUME IInv, NEW s \in Shell, NEW c \in world.commands, Add(s, c)
  PROVE  IInv'
<1>f. Types /\ sh[s] \in Memories /\ ItemsKnown(s) /\ OwnKept(s) /\ c \in Command
  BY ShellTells, HistoryAssumption DEF Types
<1>g. sh[s].pc = "idle" /\ ~Unsettled(s) /\ Still /\ Seated
  BY DEF Add, Unsettled, Still, Seated, disk
<1> DEFINE old == sh[s].items
           D == {i \in DOMAIN old : DiskItem(old[i].cmd)}
           K == Max({0} \cup D)
           kept == SubSeq(old, 1, K)
           again == kept # <<>> /\ Last(kept).cmd = c
           items == IF again THEN [kept EXCEPT ![Len(kept)].pending = TRUE]
                             ELSE Append(kept, [cmd |-> c, pending |-> TRUE])
           cursor == IF again THEN Len(kept) - 1 ELSE Len(kept)
<1>1. /\ old \in Seq(Item) /\ Len(old) \in Nat /\ DOMAIN old = 1..Len(old)
      /\ \A i \in DOMAIN old : ~old[i].pending
  BY <1>f, <1>g DEF Memories, ItemsKnown, Doing
<1>2. K \in 0..Len(old) /\ \A i \in D : i <= K
  <2>1. {0} \cup D \subseteq 0..Len(old)
    BY <1>1
  <2> HIDE DEF D
  <2> QED BY <1>1, <2>1, HasMax
<1> HIDE DEF K
<1>3. kept \in Seq(Item) /\ Len(kept) = K /\ \A i \in 1..K : kept[i] = old[i]
  BY <1>1, <1>2
<1> HIDE DEF kept
<1>4. /\ items \in Seq(Item) /\ cursor \in Nat /\ Len(items) = cursor + 1
      /\ \A i \in 1..Len(items) : items[i].pending => i = Len(items)
      /\ \A i \in 1..K : items[i].cmd = kept[i].cmd
      /\ K <= Len(items)
  <2>1. CASE again
    <3>1. K >= 1 /\ K \in Nat /\ kept[K] \in Item
      BY <1>1, <1>2, <1>3, <2>1
    <3>2. items = [kept EXCEPT ![K].pending = TRUE] /\ cursor = K - 1
      BY <1>3, <2>1
    <3>3. [kept[K] EXCEPT !.pending = TRUE] \in Item
      BY <3>1 DEF Item
    <3>4. items \in Seq(Item) /\ Len(items) = K
      BY <1>3, <3>1, <3>2, <3>3
    <3>5. \A i \in 1..K : items[i].cmd = kept[i].cmd /\ (i # K => items[i] = kept[i])
      BY <1>3, <3>1, <3>2 DEF Item
    <3> QED BY <1>1, <1>2, <1>3, <3>1, <3>2, <3>4, <3>5
  <2>2. CASE ~again
    <3>1. items = Append(kept, [cmd |-> c, pending |-> TRUE]) /\ cursor = K
      BY <1>3, <2>2
    <3>2. [cmd |-> c, pending |-> TRUE] \in Item
      BY <1>f DEF Item
    <3>3. /\ items \in Seq(Item) /\ Len(items) = K + 1
          /\ \A i \in 1..K : items[i] = kept[i]
      BY <1>2, <1>3, <3>1, <3>2
    <3> QED BY <1>1, <1>2, <1>3, <3>1, <3>3
  <2> QED BY <2>1, <2>2
<1> DEFINE m == [sh[s] EXCEPT !.items = items,
                              !.unwritten = IF @ > cursor THEN cursor ELSE @]
           p == Publish(m, "exec")
<1>m. /\ m \in Memories /\ m.items = items /\ m.unwritten \in Nat /\ m.unwritten <= cursor
      /\ m.own = sh[s].own /\ m.mapped = sh[s].mapped /\ m.dataId = sh[s].dataId
      /\ m.abandoned = sh[s].abandoned /\ m.untouchable = sh[s].untouchable
  <2> HIDE DEF items, cursor
  <2>1. sh[s].unwritten \in Nat
    BY <1>f DEF Memories
  <2>2. PICK u \in Nat : u = (IF sh[s].unwritten > cursor THEN cursor ELSE sh[s].unwritten)
                         /\ u <= cursor
    BY <1>4, <2>1
  <2>3. m = [[sh[s] EXCEPT !.items = items] EXCEPT !.unwritten = u]
    BY <1>f, <2>2 DEF Memories
  <2> QED BY <1>f, <1>4, <2>2, <2>3 DEF Memories
<1>s. sh' = [sh EXCEPT ![s] = p]
  BY DEF Add, kept, K
<1> HIDE DEF m
<1>p. p = Publish(m, "exec")
  OBVIOUS
<1> HIDE DEF p
<1> HIDE DEF items, cursor
<1>n. /\ sh' \in [Shell -> Memories] /\ OnlyOf(s)
      /\ sh'[s].items = items /\ sh'[s].unwritten = m.unwritten
      /\ sh'[s].own = sh[s].own /\ sh'[s].mapped = sh[s].mapped
      /\ sh'[s].untouchable = sh[s].untouchable
      /\ sh'[s].pc \in {"remap", "exec"} /\ (sh'[s].pc = "remap" => sh'[s].then # "none")
      /\ Doing(s)' = "exec" /\ MappingKnown(s)' /\ VacuumKeeps(s)' /\ Guarded(s)'
  <2>1. Publishing(s, m, "exec", p)
    BY <1>g, <1>m, <1>s, <1>p DEF Publishing
  <2>2. Published(s, m, "exec")
    BY <2>1, PublishKnows
  <2> QED BY <1>g, <1>m, <2>2 DEF Published
<1>5. m.unwritten < Len(items) /\ DOMAIN items = 1..Len(items)
  BY <1>4, <1>m
<1>6. ItemsKnown(s)'
  BY <1>f, <1>n, <1>4, <1>5, <1>m DEF ItemsKnown
<1>7. ItemCmds(s) \ Secret \subseteq ItemCmds(s)'
  <2> SUFFICES ASSUME NEW i \in DOMAIN old, old[i].cmd \notin Secret
               PROVE  old[i].cmd \in ItemCmds(s)'
    BY DEF ItemCmds
  <2>1. i \in 1..K
    BY <1>1, <1>2 DEF DiskItem
  <2>2. items[i].cmd = old[i].cmd /\ i \in DOMAIN items
    BY <1>2, <1>3, <1>4, <1>5, <2>1
  <2> QED BY <1>n, <2>2 DEF ItemCmds
<1>8. OwnKept(s)'
  <2>1. OnMapping(s)' = OnMapping(s) /\ sh[s].own \cap Secret = {}
    BY <1>f, <1>g, <1>n DEF OnMapping, Still, ItemsKnown
  <2>2. ~Building(s)' /\ sh'[s].pc \notin Vacuuming
    BY <1>n DEF Building, Vacuuming
  <2> QED BY <1>f, <1>g, <1>n, <1>7, <2>1, <2>2, StillTells DEF OwnKept, Vacuuming
<1> QED BY <1>g, <1>n, <1>6, <1>8, QuietStep DEF ShellKnown

(* resolve_pending: the last item is the session's own from here on.       *)
LEMMA ResolveKnows ==
  ASSUME IInv, NEW s \in Shell, Resolve(s)
  PROVE  IInv'
<1>f. Types /\ sh[s] \in Memories /\ ItemsKnown(s) /\ OwnKept(s)
  BY ShellTells
<1>g. sh[s].pc = "exec" /\ ~Unsettled(s) /\ Still /\ Seated
  BY DEF Resolve, Unsettled, Still, Seated, disk
<1> DEFINE old == sh[s].items
           n == Len(old)
           items == [old EXCEPT ![n].pending = FALSE]
           own == IF DiskItem(Last(old).cmd) THEN sh[s].own \cup {Last(old).cmd} ELSE sh[s].own
<1>1. /\ old \in Seq(Item) /\ n \in Nat /\ n >= 1 /\ DOMAIN old = 1..n
      /\ sh[s].unwritten < n /\ sh[s].unwritten \in Nat
      /\ old[n] \in Item /\ Last(old) = old[n]
      /\ \A i \in 1..n : old[i].pending => i = n
  BY <1>f, <1>g DEF Memories, ItemsKnown, Doing, Last
<1>2. /\ items \in Seq(Item) /\ Len(items) = n /\ DOMAIN items = 1..n
      /\ \A i \in 1..n : ~items[i].pending /\ items[i].cmd = old[i].cmd
  <2>1. [old[n] EXCEPT !.pending = FALSE] \in Item
    BY <1>1 DEF Item
  <2>2. items \in Seq(Item) /\ Len(items) = n
    BY <1>1, <2>1
  <2>3. \A i \in 1..n : items[i].cmd = old[i].cmd /\ (i # n => items[i] = old[i])
    BY <1>1 DEF Item
  <2>4. ~items[n].pending
    BY <1>1 DEF Item
  <2> QED BY <1>1, <2>2, <2>3, <2>4
<1>3. own \subseteq Command /\ own \cap Secret = {} /\ own \subseteq sh[s].own \cup {old[n].cmd}
  BY <1>f, <1>1 DEF Memories, Item, ItemsKnown, DiskItem
<1> HIDE DEF items, own
<1>m. /\ sh'[s].items = items /\ sh'[s].own = own /\ sh'[s].pc = "flush"
      /\ sh'[s].unwritten = sh[s].unwritten /\ sh'[s].mapped = sh[s].mapped
      /\ sh'[s].dataId = sh[s].dataId /\ sh'[s].abandoned = sh[s].abandoned
      /\ sh'[s].untouchable = sh[s].untouchable
      /\ sh' \in [Shell -> Memories] /\ OnlyOf(s)
  <2> DEFINE r == [Note(sh[s]) EXCEPT !.items = items, !.own = own, !.pc = "flush"]
  <2>1. Note(sh[s]) \in Memories /\ Note(sh[s]) = [sh[s] EXCEPT !.reload = Note(sh[s]).reload]
    BY <1>f DEF Note, Memories
  <2>2. r \in Memories
    BY <1>2, <1>3, <2>1 DEF Memories, Pcs
  <2>3. /\ r.items = items /\ r.own = own /\ r.pc = "flush"
        /\ r.unwritten = sh[s].unwritten /\ r.mapped = sh[s].mapped
        /\ r.dataId = sh[s].dataId /\ r.abandoned = sh[s].abandoned
        /\ r.untouchable = sh[s].untouchable
    BY <1>f, <2>1 DEF Memories
  <2>4. sh' = [sh EXCEPT ![s] = r]
    <3>1. Note(sh[s]).items = old /\ Note(sh[s]).own = sh[s].own
      BY <1>f, <2>1 DEF Memories
    <3> QED BY <3>1 DEF Resolve, items, own
  <2> HIDE DEF r
  <2> QED BY <1>f, <2>2, <2>3, <2>4, OneShell
<1>4. VacuumKeeps(s)' /\ Guarded(s)'
  BY <1>g, <1>m, OutsideKnows DEF Vacuuming
<1>5. MappingKnown(s)'
  BY <1>g, <1>m, MappingStays DEF Unsettled
<1>6. ItemsKnown(s)'
  BY <1>1, <1>2, <1>3, <1>m DEF ItemsKnown, Doing
<1>7. ItemCmds(s)' = ItemCmds(s) /\ old[n].cmd \in ItemCmds(s)
  BY <1>1, <1>2, <1>m DEF ItemCmds
<1>8. OwnKept(s)'
  <2>1. OnMapping(s)' = OnMapping(s)
    BY <1>g, <1>m DEF OnMapping, Still
  <2>2. ~Building(s)' /\ sh'[s].pc \notin Vacuuming
    BY <1>m DEF Building, Vacuuming
  <2> QED BY <1>f, <1>g, <1>m, <1>3, <1>7, <2>1, <2>2, StillTells DEF OwnKept, Vacuuming
<1> QED BY <1>g, <1>m, <1>4, <1>5, <1>6, <1>8, QuietStep DEF ShellKnown

-----------------------------------------------------------------------------
(* The steps of a vacuum that touch memory alone.                          *)

LEMMA NoVacuumType ==
  NoVacuum \in Vacuums
BY DEF NoVacuum, Vacuums, Paths

LEMMA GiveUpTells ==
  ASSUME NEW m \in Memories
  PROVE  /\ GiveUp(m) \in Memories /\ GiveUp(m).pc = "idle" /\ GiveUp(m).vac = NoVacuum
         /\ GiveUp(m).items = m.items /\ GiveUp(m).unwritten = m.unwritten
         /\ GiveUp(m).own = m.own /\ GiveUp(m).mapped = m.mapped
         /\ GiveUp(m).dataId = m.dataId /\ GiveUp(m).then = m.then
         /\ GiveUp(m).untouchable = m.untouchable /\ GiveUp(m).abandoned = m.abandoned
<1>1. GiveUp(m) = [[m EXCEPT !.pc = "idle"] EXCEPT !.vac = NoVacuum]
  BY DEF GiveUp
<1> QED BY <1>1, NoVacuumType DEF Memories, Pcs

LEMMA SessionTells ==
  ASSUME IInv, NEW s \in Shell, sh[s].pc = "vac_read"
  PROVE  Session(sh[s]) \subseteq Command /\ ItemCmds(s) \ Secret \subseteq Session(sh[s])
<1>1. /\ sh[s].items \in Seq(Item) /\ DOMAIN sh[s].items = 1..Len(sh[s].items)
      /\ \A i \in DOMAIN sh[s].items : sh[s].items[i] \in Item
  BY ShellTells DEF Memories
<1>2. \A i \in DOMAIN sh[s].items : ~sh[s].items[i].pending
  BY ShellTells DEF ItemsKnown, Doing
<1>3. Session(sh[s]) \subseteq Command
  BY <1>1 DEF Session, Item
<1> QED BY <1>2, <1>3 DEF ItemCmds, Session, DiskItem

LEMMA VacuumReadKnows ==
  ASSUME IInv, NEW s \in Shell, VacuumRead(s)
  PROVE  IInv'
<1>f. Types /\ sh[s] \in Memories /\ sh \in [Shell -> Memories] /\ OwnKept(s)
  BY ShellTells
<1>g. sh[s].pc = "vac_read" /\ Still /\ Seated
  BY DEF VacuumRead, Still, Seated, disk
<1>1. CASE sh' = [sh EXCEPT ![s] = GiveUp(sh[s])]
  <2>n. /\ sh'[s].pc = "idle" /\ sh'[s].items = sh[s].items
        /\ sh'[s].unwritten = sh[s].unwritten /\ sh'[s].own = sh[s].own
        /\ sh'[s].mapped = sh[s].mapped /\ sh'[s].dataId = sh[s].dataId
        /\ sh'[s].untouchable = sh[s].untouchable /\ sh'[s].abandoned = sh[s].abandoned
        /\ sh' \in [Shell -> Memories] /\ OnlyOf(s)
    <3> DEFINE m == GiveUp(sh[s])
    <3>1. /\ m \in Memories /\ m.pc = "idle" /\ m.items = sh[s].items
          /\ m.unwritten = sh[s].unwritten /\ m.own = sh[s].own
          /\ m.mapped = sh[s].mapped /\ m.dataId = sh[s].dataId
          /\ m.untouchable = sh[s].untouchable /\ m.abandoned = sh[s].abandoned
      BY <1>f, GiveUpTells
    <3> HIDE DEF m
    <3>2. sh' = [sh EXCEPT ![s] = m]
      BY <1>1 DEF m
    <3> QED BY <1>f, <3>1, <3>2, OneShell
  <2>1. VacuumKeeps(s)' /\ Guarded(s)'
    BY <1>g, <2>n, OutsideKnows DEF Vacuuming
  <2>2. MappingKnown(s)'
    BY <1>g, <2>n, MappingStays DEF Unsettled
  <2>3. ItemsKnown(s)' /\ ItemCmds(s)' = ItemCmds(s)
    BY <1>g, <2>n, ItemsStay DEF Doing
  <2>4. OwnKept(s)'
    BY <1>g, <2>n, <2>3, OwnStays DEF Unsettled, Vacuuming
  <2> QED BY <1>g, <2>n, <2>1, <2>2, <2>3, <2>4, QuietStep DEF ShellKnown
<1>2. CASE sh' = [sh EXCEPT ![s].pc = "vac_build",
                            ![s].vac = [NoVacuum EXCEPT !.session = Session(sh[s]),
                                                        !.log = InLog,
                                                        !.len = Len(log)]]
  <2> DEFINE v == [NoVacuum EXCEPT !.session = Session(sh[s]), !.log = InLog,
                                   !.len = Len(log)]
             m == [sh[s] EXCEPT !.pc = "vac_build", !.vac = v]
  <2>v. v \in Vacuums /\ v.session = Session(sh[s]) /\ v.log = InLog
    <3>1. InLog \subseteq Command /\ Len(log) \in Nat /\ Session(sh[s]) \subseteq Command
      BY <1>f, <1>g, LogTells, SessionTells DEF Types
    <3> QED BY <3>1 DEF NoVacuum, Vacuums, Paths
  <2> HIDE DEF v
  <2>n. /\ sh'[s].pc = "vac_build" /\ sh'[s].items = sh[s].items
        /\ sh'[s].unwritten = sh[s].unwritten /\ sh'[s].own = sh[s].own
        /\ sh'[s].mapped = sh[s].mapped /\ sh'[s].dataId = sh[s].dataId
        /\ sh'[s].untouchable = sh[s].untouchable /\ sh'[s].abandoned = sh[s].abandoned
        /\ sh'[s].vac = v
        /\ sh' \in [Shell -> Memories] /\ OnlyOf(s)
    <3>1. /\ m \in Memories /\ m.pc = "vac_build" /\ m.items = sh[s].items
          /\ m.unwritten = sh[s].unwritten /\ m.own = sh[s].own
          /\ m.mapped = sh[s].mapped /\ m.dataId = sh[s].dataId
          /\ m.untouchable = sh[s].untouchable /\ m.abandoned = sh[s].abandoned
          /\ m.vac = v
      BY <1>f, <2>v DEF Memories, Pcs
    <3>2. sh' = [sh EXCEPT ![s] = m]
      BY <1>2 DEF v
    <3> HIDE DEF m
    <3> QED BY <1>f, <3>1, <3>2, OneShell
  <2>0. Building(s)' /\ ~Built(s)' /\ sh'[s].pc \notin {"vac_check", "vac_truncate"}
    BY <2>n DEF Building, Built
  <2>1. VacuumKeeps(s)'
    <3>1. Safe \subseteq InLog \cup Aside \cup OnPath
      BY DEF IInv
    <3>2. Safe' \subseteq sh'[s].vac.log \cup Aside' \cup OnPath'
      BY <1>g, <2>v, <2>n, <3>1, StillTells
    <3> QED BY <2>0, <3>2 DEF VacuumKeeps
  <2>2. Guarded(s)'
    <3>1. (LocksWork => ~sh[s].abandoned)'
      BY <1>g, <2>n, ShellTells, StillTells DEF Guarded
    <3> QED BY <2>0, <2>n, <3>1 DEF Guarded
  <2>3. MappingKnown(s)'
    BY <1>g, <2>n, MappingStays DEF Unsettled
  <2>4. ItemsKnown(s)' /\ ItemCmds(s)' = ItemCmds(s)
    BY <1>g, <2>n, ItemsStay DEF Doing
  <2>5. OwnKept(s)'
    <3>1. OnMapping(s)' = OnMapping(s)
      BY <1>g, <2>n DEF OnMapping, Still
    <3>2. ItemCmds(s)' \ Secret \subseteq sh'[s].vac.session
      BY <1>g, <2>n, <2>v, <2>4, SessionTells
    <3>3. ~Unsettled(s)
      BY <1>g DEF Unsettled
    <3> QED BY <1>f, <1>g, <2>n, <2>4, <3>1, <3>2, <3>3, StillTells DEF OwnKept
  <2> QED BY <1>g, <2>n, <2>1, <2>2, <2>3, <2>4, <2>5, QuietStep DEF ShellKnown
<1> QED BY <1>1, <1>2 DEF VacuumRead

LEMMA VacuumOpenKnows ==
  ASSUME IInv, NEW s \in Shell, VacuumOpen(s)
  PROVE  IInv'
<1>f. /\ Types /\ sh[s] \in Memories /\ sh \in [Shell -> Memories] /\ OwnKept(s)
      /\ VacuumKeeps(s) /\ Guarded(s) /\ dataPath \in Paths /\ sh[s].vac \in Vacuums
  BY ShellTells, PathTells DEF Memories
<1>g. sh[s].pc = "vac_open" /\ Still /\ Seated
  BY DEF VacuumOpen, Still, Seated, disk
<1> DEFINE v == [sh[s].vac EXCEPT !.target = dataPath]
           m == [sh[s] EXCEPT !.pc = "vac_lock", !.vac = v]
<1>v. /\ v \in Vacuums /\ v.session = sh[s].vac.session /\ v.log = sh[s].vac.log
      /\ v.merged = sh[s].vac.merged /\ v.before = sh[s].vac.before
      /\ v.corrupt = sh[s].vac.corrupt /\ v.target = dataPath
  BY <1>f DEF Vacuums
<1>n. /\ sh'[s].pc = "vac_lock" /\ sh'[s].items = sh[s].items
      /\ sh'[s].unwritten = sh[s].unwritten /\ sh'[s].own = sh[s].own
      /\ sh'[s].mapped = sh[s].mapped /\ sh'[s].dataId = sh[s].dataId
      /\ sh'[s].untouchable = sh[s].untouchable /\ sh'[s].abandoned = sh[s].abandoned
      /\ sh'[s].vac = v
      /\ sh' \in [Shell -> Memories] /\ OnlyOf(s)
  <2>2. sh' = [sh EXCEPT ![s] = m]
    BY <1>f DEF VacuumOpen
  <2> HIDE DEF v
  <2>1. /\ m \in Memories /\ m.pc = "vac_lock" /\ m.items = sh[s].items
        /\ m.unwritten = sh[s].unwritten /\ m.own = sh[s].own
        /\ m.mapped = sh[s].mapped /\ m.dataId = sh[s].dataId
        /\ m.untouchable = sh[s].untouchable /\ m.abandoned = sh[s].abandoned
        /\ m.vac = v
    BY <1>f, <1>v DEF Memories, Pcs
  <2> HIDE DEF m
  <2> QED BY <1>f, <2>1, <2>2, OneShell
<1> HIDE DEF v
<1>0. Building(s)' /\ Built(s)' /\ sh'[s].pc = "vac_lock" /\ Building(s) /\ Built(s)
  BY <1>g, <1>n DEF Building, Built
<1>1. VacuumKeeps(s)'
  <2>1. Safe' \subseteq sh'[s].vac.log \cup Aside' \cup OnPath'
    BY <1>f, <1>g, <1>0, <1>n, <1>v, StillTells DEF VacuumKeeps
  <2>2. Safe' \subseteq sh'[s].vac.merged \cup Aside'
    BY <1>f, <1>g, <1>0, <1>n, <1>v, StillTells DEF VacuumKeeps
  <2>3. sh'[s].vac.log \cup sh'[s].vac.session \subseteq sh'[s].vac.merged
    BY <1>f, <1>0, <1>n, <1>v DEF VacuumKeeps
  <2> QED BY <1>0, <2>1, <2>2, <2>3 DEF VacuumKeeps
<1>2. Guarded(s)'
  <2>1. /\ sh'[s].vac.before \in Inode
        /\ file'[sh'[s].vac.before].cmds \subseteq sh'[s].vac.merged
        /\ file'[sh'[s].vac.before].kind # "foreign"
        /\ sh'[s].vac.before < fresh'
    BY <1>f, <1>g, <1>0, <1>n, <1>v DEF Guarded, Still
  <2>2. Steady => /\ ~sh'[s].vac.corrupt /\ dataPath' # NoFile
                  /\ sh'[s].vac.before <= dataPath'
                  /\ sh'[s].vac.target = dataPath
    BY <1>f, <1>g, <1>0, <1>n, <1>v DEF Guarded, Still
  <2>3. dataPath # NoFile => dataPath <= dataPath'
    <3>1. dataPath # NoFile => dataPath \in Nat /\ dataPath' = dataPath
      BY <1>f, <1>g, PathTells, HistoryAssumption DEF Still, Inode
    <3> QED BY <3>1
  <2>4. Steady /\ "foreign file" \notin world.faults =>
          ~(dataPath # NoFile /\ file[dataPath].kind = "foreign")
    BY <1>f, <1>0 DEF Guarded
  <2>5. (LocksWork => ~sh[s].abandoned)'
    BY <1>f, <1>g, <1>n, StillTells DEF Guarded
  <2>6. dataPath' = dataPath /\ file' = file /\ world' = world /\ Steady' = Steady
    BY <1>g, StillTells DEF Still
  <2> QED BY <1>0, <2>1, <2>2, <2>3, <2>4, <2>5, <2>6 DEF Guarded
<1>3. MappingKnown(s)'
  BY <1>g, <1>n, MappingStays DEF Unsettled
<1>4. ItemsKnown(s)' /\ ItemCmds(s)' = ItemCmds(s)
  BY <1>g, <1>n, ItemsStay DEF Doing
<1>5. OwnKept(s)'
  <2>1. OnMapping(s)' = OnMapping(s)
    BY <1>g, <1>n DEF OnMapping, Still
  <2>2. ItemCmds(s)' \ Secret \subseteq sh'[s].vac.session
    BY <1>f, <1>0, <1>n, <1>v, <1>4 DEF OwnKept
  <2>3. ~Unsettled(s)
    BY <1>g DEF Unsettled
  <2> QED BY <1>f, <1>g, <1>n, <1>4, <2>1, <2>2, <2>3, StillTells DEF OwnKept
<1> QED BY <1>g, <1>n, <1>1, <1>2, <1>3, <1>4, <1>5, QuietStep DEF ShellKnown

LEMMA VacuumCheckKnows ==
  ASSUME IInv, NEW s \in Shell, VacuumCheck(s)
  PROVE  IInv'
<1>f. Types /\ sh[s] \in Memories /\ sh \in [Shell -> Memories] /\ OwnKept(s) /\ VacuumKeeps(s)
  BY ShellTells
<1>g. sh[s].pc = "vac_check" /\ Still /\ Seated
  BY DEF VacuumCheck, Still, Seated, disk
<1>c. PICK next \in {"vac_truncate", "vac_forget"} : sh' = [sh EXCEPT ![s].pc = next]
  BY DEF VacuumCheck
<1>n. /\ sh'[s].pc = next /\ sh'[s].items = sh[s].items
      /\ sh'[s].unwritten = sh[s].unwritten /\ sh'[s].own = sh[s].own
      /\ sh'[s].mapped = sh[s].mapped /\ sh'[s].dataId = sh[s].dataId
      /\ sh'[s].untouchable = sh[s].untouchable /\ sh'[s].abandoned = sh[s].abandoned
      /\ sh' \in [Shell -> Memories] /\ OnlyOf(s)
  <2> DEFINE m == [sh[s] EXCEPT !.pc = next]
  <2>1. /\ m \in Memories /\ m.pc = next /\ m.items = sh[s].items
        /\ m.unwritten = sh[s].unwritten /\ m.own = sh[s].own
        /\ m.mapped = sh[s].mapped /\ m.dataId = sh[s].dataId
        /\ m.untouchable = sh[s].untouchable /\ m.abandoned = sh[s].abandoned
    BY <1>f, <1>c DEF Memories, Pcs
  <2>2. sh' = [sh EXCEPT ![s] = m]
    BY <1>c
  <2> HIDE DEF m
  <2> QED BY <1>f, <2>1, <2>2, OneShell
<1>0. ~Building(s)' /\ ~Built(s)' /\ ~Building(s)
  BY <1>c, <1>g, <1>n DEF Building, Built
<1>1. VacuumKeeps(s)'
  <2>1. Safe' \subseteq Aside' \cup OnPath'
    BY <1>f, <1>g, StillTells DEF VacuumKeeps
  <2> QED BY <1>0, <2>1 DEF VacuumKeeps
<1>2. Guarded(s)'
  <2>1. (LocksWork => ~sh[s].abandoned)'
    BY <1>g, <1>n, ShellTells, StillTells DEF Guarded
  <2> QED BY <1>0, <1>c, <1>n, <2>1 DEF Guarded
<1>3. MappingKnown(s)'
  BY <1>g, <1>n, MappingStays DEF Unsettled
<1>4. ItemsKnown(s)' /\ ItemCmds(s)' = ItemCmds(s)
  BY <1>c, <1>g, <1>n, ItemsStay DEF Doing
<1>5. OwnKept(s)'
  <2>1. OnMapping(s)' = OnMapping(s)
    BY <1>g, <1>n DEF OnMapping, Still
  <2>2. ~Unsettled(s)
    BY <1>g DEF Unsettled
  <2> QED BY <1>f, <1>g, <1>n, <1>0, <1>4, <2>1, <2>2, StillTells DEF OwnKept
<1> QED BY <1>g, <1>n, <1>1, <1>2, <1>3, <1>4, <1>5, QuietStep DEF ShellKnown

(* What it wrote a shell finds in tier 1 from here on.                     *)
LEMMA VacuumForgetKnows ==
  ASSUME IInv, NEW s \in Shell, VacuumForget(s)
  PROVE  IInv'
<1>f. /\ Types /\ sh[s] \in Memories /\ sh \in [Shell -> Memories] /\ OwnKept(s)
      /\ ItemsKnown(s) /\ dataPath \in Paths
  BY ShellTells, PathTells
<1>g. sh[s].pc = "vac_forget" /\ Still /\ Seated
  BY DEF VacuumForget, Still, Seated, disk
<1> DEFINE old == sh[s].items
           at == sh[s].unwritten
           written == SubSeq(old, 1, at)
           spared == Spared(written)
           later == SubSeq(old, at + 1, Len(old))
           items == spared \o later
           Resolved == {x \in Item : ~x.pending}
<1>1. /\ old \in Seq(Resolved) /\ at \in Nat /\ at <= Len(old) /\ Len(old) \in Nat
  <2>1. old \in Seq(Item) /\ at \in Nat /\ at <= Len(old) /\ Len(old) \in Nat
    BY <1>f DEF Memories, ItemsKnown
  <2>2. \A i \in 1..Len(old) : old[i] \in Resolved
    BY <1>f, <1>g, <2>1 DEF ItemsKnown, Doing
  <2>3. old \in Seq(Resolved)
    <3> HIDE DEF Resolved
    <3> QED BY <2>1, <2>2
  <2> QED BY <2>1, <2>3
<1>2. written \in Seq(Resolved) /\ later \in Seq(Resolved)
  <2> HIDE DEF Resolved
  <2> QED BY <1>1
<1>3. spared \in Seq(Resolved)
  BY <1>2, SparedType
<1>4. /\ items \in Seq(Resolved) /\ Len(spared) \in Nat /\ Len(spared) <= Len(items)
      /\ Len(items) \in Nat
  <2> HIDE DEF Resolved, spared, later
  <2> QED BY <1>2, <1>3
<1>5. /\ items \in Seq(Item) /\ DOMAIN items = 1..Len(items)
      /\ \A i \in DOMAIN items : ~items[i].pending
  <2> HIDE DEF items
  <2>1. \A i \in 1..Len(items) : items[i] \in Resolved
    BY <1>4
  <2> QED BY <1>4, <2>1
<1> HIDE DEF items, spared
<1> DEFINE m == [sh[s] EXCEPT !.items = items, !.unwritten = Len(spared),
                              !.dataId = dataPath, !.vac = NoVacuum, !.pc = "vac_map"]
<1>n. /\ sh'[s].pc = "vac_map" /\ sh'[s].items = items
      /\ sh'[s].unwritten = Len(spared) /\ sh'[s].own = sh[s].own
      /\ sh'[s].mapped = sh[s].mapped /\ sh'[s].dataId = dataPath
      /\ sh'[s].abandoned = sh[s].abandoned
      /\ sh' \in [Shell -> Memories] /\ OnlyOf(s)
  <2>1. /\ m \in Memories /\ m.pc = "vac_map" /\ m.items = items
        /\ m.unwritten = Len(spared) /\ m.own = sh[s].own
        /\ m.mapped = sh[s].mapped /\ m.dataId = dataPath
        /\ m.abandoned = sh[s].abandoned
    BY <1>f, <1>4, <1>5, NoVacuumType DEF Memories, Pcs
  <2>2. sh' = [sh EXCEPT ![s] = m]
    BY DEF VacuumForget, CursorAfter, items, spared
  <2> HIDE DEF m
  <2> QED BY <1>f, <2>1, <2>2, OneShell
<1>6. VacuumKeeps(s)' /\ Guarded(s)'
  BY <1>g, <1>n, OutsideKnows DEF Vacuuming
<1>7. MappingKnown(s)'
  BY <1>g, <1>n, MappingNoted DEF Unsettled
<1>8. ItemsKnown(s)'
  BY <1>f, <1>n, <1>4, <1>5 DEF ItemsKnown, Doing
<1>9. OwnKept(s)'
  <2>1. ~Building(s)' /\ Unsettled(s)'
          /\ sh'[s].pc \notin {"vac_check", "vac_truncate", "vac_forget"}
    BY <1>n DEF Building, Unsettled
  <2>2. Steady /\ LocksWork => sh[s].own \subseteq OnPath
    BY <1>f, <1>g DEF OwnKept, ItemsKnown
  <2> QED BY <1>g, <1>n, <2>1, <2>2, StillTells DEF OwnKept
<1> QED BY <1>g, <1>n, <1>6, <1>7, <1>8, <1>9, QuietStep DEF ShellKnown

-----------------------------------------------------------------------------
(* The steps others can see.                                               *)

LEMMA NotifiedTells ==
  ASSUME NEW mem \in [Shell -> Memories]
  PROVE  /\ Notified(mem) \in [Shell -> Memories]
         /\ \A q \in Shell : \/ Notified(mem)[q] = mem[q]
                             \/ Notified(mem)[q] = [mem[q] EXCEPT !.notified = TRUE]
<1>1. \A q \in Shell : \/ Notified(mem)[q] = mem[q]
                       \/ Notified(mem)[q] = [mem[q] EXCEPT !.notified = TRUE]
  BY DEF Notified
<1>2. \A q \in Shell : [mem[q] EXCEPT !.notified = TRUE] \in Memories
  <2> TAKE q \in Shell
  <2>1. mem[q] \in Memories
    OBVIOUS
  <2> QED BY <2>1 DEF Memories
<1>3. Notified(mem) = [q \in Shell |-> Notified(mem)[q]]
  BY DEF Notified
<1> QED BY <1>1, <1>2, <1>3

(* What a step of s has to show of the disk, of the others and of s.       *)
LEMMA LoudStep ==
  ASSUME IInv, NEW s \in Shell, Types', FilesKnown', Grows,
         (Safe \subseteq InLog \cup Aside \cup OnPath)',
         \A q \in Shell \ {s} : Same(q),
         \A q \in Shell \ {s} : InVacuum(q) => Safe' \subseteq Safe,
         \A q \in Shell \ {s} : Steady /\ LocksWork /\ sh[q].pc = "vac_rename" =>
                                  dataPath' = dataPath /\ holder'[dataPath] = q,
         ShellKnown(s)'
  PROVE  IInv'
<1>1. ASSUME NEW q \in Shell PROVE ShellKnown(q)'
  <2>1. CASE q = s
    BY <2>1
  <2>2. CASE q # s
    <3>1. SameMemory(q)
      BY <2>2, SameTells DEF IInv
    <3> QED BY <2>2, <3>1, OthersKnow
  <2> QED BY <2>1, <2>2
<1> QED BY <1>1 DEF IInv

LEMMA SeatedGrows ==
  ASSUME Types, Seated, aside \subseteq aside',
         Safe' \cap (Aside \cup OnPath) \subseteq (Aside \cup OnPath)'
  PROVE  Grows
<1>1. fresh \in Nat
  BY PathTells
<1>2. At(dataPath) \in Int /\ At(dataPath)' = At(dataPath)
  BY PathTells, SeatedTells
<1>3. At(dataPath) <= At(dataPath)'
  BY <1>2
<1>4. OnPath \subseteq OnPath'
  BY SeatedTells
<1>5. /\ world' = world /\ fresh' >= fresh /\ file' = file /\ dataPath' = dataPath
  BY <1>1 DEF Seated
<1> QED BY <1>3, <1>4, <1>5 DEF Grows

LEMMA MappingGrows ==
  ASSUME IInv, Types', Grows, NEW s \in Shell, sh'[s].mapped = sh[s].mapped,
         sh'[s].dataId = sh[s].dataId, Unsettled(s)' \/ ~Unsettled(s), sh[s].pc # "dead"
  PROVE  MappingKnown(s)' /\ OnMapping(s)' = OnMapping(s)
<1>f. /\ Types /\ MappingKnown(s) /\ sh[s].dataId \in Paths /\ sh[s].mapped \in Paths
  BY ShellTells DEF Memories
<1>g. /\ Steady' = Steady /\ fresh' >= fresh /\ fresh \in Nat /\ fresh' \in Nat
      /\ \A i \in Inode : i < fresh => file'[i] = file[i]
      /\ Steady => At(dataPath) <= At(dataPath)'
  <2>1. fresh \in Nat /\ fresh' \in Nat
    BY <1>f, HistoryAssumption DEF Types, Inode
  <2> QED BY <1>f, <2>1, GrowsAside DEF Grows
<1>1. (sh[s].dataId # NoFile => sh[s].dataId < fresh)'
      /\ (sh[s].mapped # NoFile => sh[s].mapped < fresh)'
  BY <1>f, <1>g, HistoryAssumption DEF MappingKnown, Paths, Inode
<1>a. /\ \A p \in Paths : At(p) \in Int /\ At(p)' = At(p)
      /\ At(dataPath) \in Int /\ At(dataPath)' \in Int
      /\ At(sh[s].dataId) \in Int /\ At(sh[s].dataId)' = At(sh[s].dataId)
  BY <1>f, PathTells, HistoryAssumption DEF At, Types
<1>2. ASSUME Steady, ~Unsettled(s)
      PROVE  \E p \in Paths : /\ At(sh[s].dataId) <= At(p) /\ At(p) <= At(dataPath)'
                              /\ sh[s].mapped = Maps(p)'
  <2>1. PICK p \in Paths : /\ At(sh[s].dataId) <= At(p) /\ At(p) <= At(dataPath)
                           /\ sh[s].mapped = Maps(p)
    BY <1>f, <1>2 DEF MappingKnown
  <2>2. p # NoFile => p \in Inode /\ p < fresh
    BY <1>f, <2>1, PathTells, HistoryAssumption DEF Paths, Inode, At
  <2>3. Maps(p)' = Maps(p)
    BY <1>g, <2>2 DEF Maps
  <2>4. At(p) <= At(dataPath)'
    BY <1>a, <1>g, <1>2, <2>1
  <2> QED BY <2>1, <2>3, <2>4
<1>3. ASSUME Steady
      PROVE  At(sh[s].dataId) <= At(dataPath)'
  BY <1>a, <1>f, <1>g, <1>3 DEF MappingKnown
<1>4. OnMapping(s)' = OnMapping(s)
  BY <1>f, <1>g DEF MappingKnown, OnMapping, Paths
<1>5. MappingKnown(s)'
  BY <1>a, <1>g, <1>1, <1>2, <1>3 DEF MappingKnown
<1> QED BY <1>4, <1>5

(* What own leaves to show where the disk only grew.                       *)
LEMMA OwnGrows ==
  ASSUME IInv, Grows, NEW s \in Shell, ~Unsettled(s),
         Building(s)' => ItemCmds(s)' \ Secret \subseteq sh'[s].vac.session,
         Steady /\ LocksWork /\ sh'[s].pc \in {"vac_check", "vac_truncate", "vac_forget"} =>
           ItemCmds(s)' \ Secret \subseteq OnPath',
         ItemCmds(s)' = ItemCmds(s), sh'[s].own = sh[s].own,
         OnMapping(s)' = OnMapping(s), sh'[s].untouchable = sh[s].untouchable
  PROVE  OwnKept(s)'
<1>1. OwnKept(s) /\ Types
  BY ShellTells
<1>2. /\ Steady' = Steady /\ LocksWork' = LocksWork
      /\ Steady /\ LocksWork => OnPath \subseteq OnPath'
  BY <1>1, GrowsAside DEF Grows
<1> QED BY <1>1, <1>2 DEF OwnKept

(* A shell outside its vacuum has nothing to show of it.                   *)
LEMMA OutsideGrows ==
  ASSUME IInv, Grows, NEW s \in Shell, sh'[s].pc \notin Vacuuming,
         sh'[s].abandoned = sh[s].abandoned
  PROVE  VacuumKeeps(s)' /\ Guarded(s)'
<1>1. ~Built(s)' /\ ~Building(s)'
  BY DEF Vacuuming, Built, Building
<1>2. VacuumKeeps(s)'
  BY <1>1 DEF VacuumKeeps, Vacuuming
<1>3. (LocksWork => ~sh[s].abandoned)'
  BY ShellTells, GrowsAside DEF Guarded
<1> QED BY <1>1, <1>3, <1>2 DEF Guarded, Vacuuming

(* Where no path moves, neither does what a renaming vacuum holds.         *)
LEMMA LocksStay ==
  ASSUME IInv, dataPath' = dataPath,
         NEW q \in Shell, dataPath # NoFile /\ holder[dataPath] = q => holder'[dataPath] = q
  PROVE  Steady /\ LocksWork /\ sh[q].pc = "vac_rename" =>
           dataPath' = dataPath /\ holder'[dataPath] = q
BY ShellTells DEF Guarded, Built

LEMMA FlushItemKnows ==
  ASSUME IInv, NEW s \in Shell, FlushItem(s)
  PROVE  IInv'
<1>f. /\ Types /\ sh[s] \in Memories /\ sh \in [Shell -> Memories]
      /\ ItemsKnown(s) /\ OwnKept(s)
  BY ShellTells
<1>g. /\ sh[s].pc = "flush" /\ ~Unsettled(s) /\ Seated /\ aside' = aside /\ holder' = holder
  BY DEF FlushItem, Unsettled, Seated
<1> DEFINE old == sh[s].items
           at == sh[s].unwritten
           c == old[at + 1].cmd
           m == [sh[s] EXCEPT !.unwritten = @ + 1]
           next == IF DiskItem(c) THEN "count" ELSE "idle"
<1>1. /\ old \in Seq(Item) /\ at \in Nat /\ at < Len(old) /\ Len(old) \in Nat
      /\ c \in Command /\ \A i \in DOMAIN old : ~old[i].pending
  <2>1. old \in Seq(Item) /\ at \in Nat /\ at < Len(old) /\ Len(old) \in Nat
        /\ \A i \in DOMAIN old : ~old[i].pending
    BY <1>f, <1>g DEF Memories, ItemsKnown, Doing
  <2>2. old[at + 1] \in Item
    BY <2>1
  <2> QED BY <2>1, <2>2 DEF Item
<1>m. /\ m \in Memories /\ m.items = old /\ m.unwritten = at + 1 /\ m.own = sh[s].own
      /\ m.mapped = sh[s].mapped /\ m.dataId = sh[s].dataId /\ m.pc = sh[s].pc
      /\ m.abandoned = sh[s].abandoned /\ m.untouchable = sh[s].untouchable
  <2>1. PICK k \in Nat : k = at + 1
    BY <1>1
  <2>2. m = [sh[s] EXCEPT !.unwritten = k]
    BY <2>1
  <2> HIDE DEF m
  <2>3. m \in Memories /\ m.unwritten = k
    BY <1>f, <2>2 DEF Memories
  <2>4. /\ m.items = old /\ m.own = sh[s].own
        /\ m.mapped = sh[s].mapped /\ m.dataId = sh[s].dataId /\ m.pc = sh[s].pc
        /\ m.abandoned = sh[s].abandoned /\ m.untouchable = sh[s].untouchable
    BY <1>f, <2>2 DEF Memories
  <2> QED BY <2>1, <2>3, <2>4
<1>s. sh' = [sh EXCEPT ![s] = IF m.unwritten < Len(old) THEN m ELSE Publish(m, next)]
  <2> HIDE DEF next
  <2>1. sh' = [sh EXCEPT ![s] = IF m.unwritten < Len(old) THEN m ELSE
                                  Publish(m, IF DiskItem(c) THEN "count" ELSE "idle")]
    BY DEF FlushItem
  <2> QED BY <2>1 DEF next
<1>l. \/ /\ log' = Append(log, c) /\ durable' = durable \cup {c}
         /\ raced' = IF \E q \in Shell \ {s} : InVacuum(q) THEN raced \cup {c} ELSE raced
      \/ /\ log' \in {log, Append(log, Torn)} /\ durable' = durable /\ raced' = raced
  BY DEF FlushItem
<1>t. next \in {"idle", "exec", "count"}
  OBVIOUS
<1> HIDE DEF m, next, c
<1>n. /\ sh' \in [Shell -> Memories] /\ OnlyOf(s)
      /\ sh'[s].items = old /\ sh'[s].own = sh[s].own /\ sh'[s].unwritten = at + 1
      /\ sh'[s].mapped = sh[s].mapped /\ sh'[s].untouchable = sh[s].untouchable
      /\ sh'[s].pc \notin Vacuuming \cup {"dead"} /\ sh'[s].abandoned = sh[s].abandoned
      /\ sh'[s].pc = "remap" => sh'[s].then # "none"
      /\ Doing(s)' # "exec" /\ (Doing(s)' = "flush" => at + 1 < Len(old))
      /\ MappingKnown(s)'
  <2>1. CASE m.unwritten < Len(old)
    <3>1. sh' = [sh EXCEPT ![s] = m]
      BY <1>s, <2>1
    <3>2. sh'[s] = m /\ sh' \in [Shell -> Memories] /\ OnlyOf(s)
      BY <1>f, <1>m, <3>1, OneShell
    <3>3. MappingKnown(s)'
      BY <1>g, <1>m, <3>2, MappingStays
    <3> QED BY <1>g, <1>m, <2>1, <3>2, <3>3 DEF Doing, Vacuuming
  <2>2. CASE ~(m.unwritten < Len(old))
    <3> DEFINE p == Publish(m, next)
    <3>p. p = Publish(m, next)
      OBVIOUS
    <3>1. sh' = [sh EXCEPT ![s] = p]
      BY <1>s, <2>2
    <3> HIDE DEF p
    <3>2. Publishing(s, m, next, p)
      BY <1>g, <1>m, <1>t, <3>1, <3>p DEF Publishing
    <3>3. Published(s, m, next)
      BY <3>2, PublishKnows
    <3>4. sh' \in [Shell -> Memories] /\ OnlyOf(s)
      BY <3>3 DEF Published
    <3>5. sh'[s].items = m.items /\ sh'[s].unwritten = m.unwritten /\ sh'[s].own = m.own
      BY <3>3 DEF Published
    <3>6. sh'[s].mapped = m.mapped /\ sh'[s].untouchable = m.untouchable
      BY <3>3 DEF Published
    <3>7. Doing(s)' = next
      BY <3>3 DEF Published
    <3>8. sh'[s].pc = "remap" => sh'[s].then # "none"
      BY <3>3 DEF Published
    <3>9. MappingKnown(s)'
      BY <3>3 DEF Published
    <3>10. sh'[s].pc \in {"remap", "idle", "count"}
      BY <3>7 DEF Doing, next
    <3>11. sh'[s].abandoned = m.abandoned
      <4>1. sh'[s] = p
        BY <1>f, <3>1
      <4> QED BY <1>f, <1>m, <1>t, <3>p, <4>1, PublishTells
    <3> QED BY <1>m, <1>t, <3>3, <3>4, <3>5, <3>6, <3>7, <3>8, <3>9, <3>10, <3>11
            DEF Vacuuming, next
  <2> QED BY <2>1, <2>2
<1>2. Safe' \subseteq Safe \cup {c} /\ \A q \in Shell \ {s} : InVacuum(q) => Safe' \subseteq Safe
  BY <1>l DEF Safe
<1>3. InLog \subseteq InLog' /\ log' \in Seq(Command \cup {Torn})
      /\ (Safe' \subseteq Safe \/ c \in InLog')
  <2>1. log \in Seq(Command \cup {Torn}) /\ c # Torn
    BY <1>f, <1>1, HistoryAssumption DEF Types, Torn
  <2>2. CASE log' = Append(log, c)
    <3>1. ToSet(log') = ToSet(log) \cup {c} /\ log' \in Seq(Command \cup {Torn})
      BY <1>1, <2>1, <2>2 DEF ToSet
    <3> QED BY <2>1, <3>1 DEF InLog
  <2>3. CASE log' \in {log, Append(log, Torn)} /\ durable' = durable /\ raced' = raced
    <3>1. ToSet(log) \subseteq ToSet(log') /\ log' \in Seq(Command \cup {Torn})
      BY <2>1, <2>3 DEF ToSet
    <3> QED BY <2>3, <3>1 DEF InLog, Safe
  <2> QED BY <1>l, <2>2, <2>3
<1>4. Aside' = Aside /\ OnPath' = OnPath
  BY <1>g, SeatedTells DEF Aside, Seated
<1>5. Grows
  BY <1>f, <1>g, <1>4, SeatedGrows
<1>6. (Safe \subseteq InLog \cup Aside \cup OnPath)'
  BY <1>2, <1>3, <1>4 DEF IInv
<1>7. Types' /\ FilesKnown'
  <2>1. durable' \subseteq Command /\ raced' \subseteq Command
    BY <1>f, <1>1, <1>l DEF Types
  <2>2. Types'
    BY <1>f, <1>g, <1>n, <1>3, <2>1 DEF Types, Seated
  <2>3. FilesKnown'
    BY <1>g, SeatedTells DEF IInv, FilesKnown, Seated
  <2> QED BY <2>2, <2>3
<1>8. ShellKnown(s)'
  <2>1. VacuumKeeps(s)' /\ Guarded(s)'
    BY <1>n, <1>g, OutsideKnows
  <2>2. ItemsKnown(s)' /\ ItemCmds(s)' = ItemCmds(s)
    BY <1>f, <1>n, <1>1 DEF ItemsKnown, ItemCmds
  <2>3. OwnKept(s)'
    BY <1>g, <1>n, <2>2, OwnStays
  <2> QED BY <1>n, <2>1, <2>2, <2>3 DEF ShellKnown
<1>9. \A q \in Shell \ {s} : Same(q)
  BY <1>n DEF Same, OnlyOf
<1>10. \A q \in Shell \ {s} : Steady /\ LocksWork /\ sh[q].pc = "vac_rename" =>
                                dataPath' = dataPath /\ holder'[dataPath] = q
  BY <1>g, LocksStay DEF Seated
<1> QED BY <1>2, <1>5, <1>6, <1>7, <1>8, <1>9, <1>10, LoudStep

LEMMA VacuumTruncateKnows ==
  ASSUME IInv, NEW s \in Shell, VacuumTruncate(s)
  PROVE  IInv'
<1>f. /\ Types /\ sh[s] \in Memories /\ sh \in [Shell -> Memories]
      /\ VacuumKeeps(s) /\ OwnKept(s)
  BY ShellTells
<1>g. /\ sh[s].pc = "vac_truncate" /\ ~Unsettled(s) /\ Seated /\ aside' = aside
      /\ holder' = holder /\ durable' = durable /\ raced' = raced /\ log' = <<>>
  BY DEF VacuumTruncate, Unsettled, Seated
<1>n. /\ sh'[s].pc = "vac_forget" /\ sh'[s].items = sh[s].items
      /\ sh'[s].unwritten = sh[s].unwritten /\ sh'[s].own = sh[s].own
      /\ sh'[s].mapped = sh[s].mapped /\ sh'[s].dataId = sh[s].dataId
      /\ sh'[s].untouchable = sh[s].untouchable /\ sh'[s].abandoned = sh[s].abandoned
      /\ sh' \in [Shell -> Memories] /\ OnlyOf(s)
  <2> DEFINE m == [sh[s] EXCEPT !.pc = "vac_forget"]
  <2>1. /\ m \in Memories /\ m.pc = "vac_forget" /\ m.items = sh[s].items
        /\ m.unwritten = sh[s].unwritten /\ m.own = sh[s].own
        /\ m.mapped = sh[s].mapped /\ m.dataId = sh[s].dataId
        /\ m.untouchable = sh[s].untouchable /\ m.abandoned = sh[s].abandoned
    BY <1>f DEF Memories, Pcs
  <2>2. sh' = [sh EXCEPT ![s] = m]
    BY DEF VacuumTruncate
  <2> HIDE DEF m
  <2> QED BY <1>f, <2>1, <2>2, OneShell
<1>1. Safe' = Safe /\ Aside' = Aside /\ OnPath' = OnPath /\ Safe \subseteq Aside \cup OnPath
  BY <1>f, <1>g, SeatedTells DEF Safe, Aside, VacuumKeeps, Seated
<1>2. Grows
  BY <1>f, <1>g, <1>1, SeatedGrows
<1>3. (Safe \subseteq InLog \cup Aside \cup OnPath)'
  BY <1>1
<1>4. Types'
  BY <1>f, <1>g, <1>n, NothingIsASeq DEF Types, Seated
<1>5. FilesKnown'
  BY <1>g, SeatedTells DEF IInv, FilesKnown, Seated
<1>6. ShellKnown(s)'
  <2>0. ~Building(s)' /\ ~Built(s)' /\ sh'[s].pc = "vac_forget"
    BY <1>n DEF Building, Built
  <2>1. VacuumKeeps(s)'
    BY <2>0 DEF VacuumKeeps
  <2>2. Guarded(s)'
    <3>1. (LocksWork => ~sh[s].abandoned)'
      BY <1>g, <1>n, ShellTells, SeatedTells DEF Guarded
    <3> QED BY <2>0, <3>1 DEF Guarded
  <2>3. MappingKnown(s)'
    BY <1>g, <1>n, MappingStays DEF Unsettled
  <2>4. ItemsKnown(s)' /\ ItemCmds(s)' = ItemCmds(s)
    BY <1>g, <1>n, ItemsStay DEF Doing
  <2>5. OwnKept(s)'
    <3>1. OnMapping(s)' = OnMapping(s)
      BY <1>g, <1>n DEF OnMapping, Seated
    <3> QED BY <1>f, <1>g, <1>n, <2>0, <2>4, <3>1, SeatedTells DEF OwnKept
  <2> QED BY <2>1, <2>2, <2>3, <2>4, <2>5 DEF ShellKnown
<1>7. \A q \in Shell \ {s} : Same(q)
  BY <1>n DEF Same, OnlyOf
<1>8. \A q \in Shell \ {s} : Steady /\ LocksWork /\ sh[q].pc = "vac_rename" =>
                               dataPath' = dataPath /\ holder'[dataPath] = q
  BY <1>g, LocksStay DEF Seated
<1>9. \A q \in Shell \ {s} : InVacuum(q) => Safe' \subseteq Safe
  BY <1>1
<1> QED BY <1>2, <1>3, <1>4, <1>5, <1>6, <1>7, <1>8, <1>9, LoudStep

(* The memory a step gives s, notified or not.                             *)
Becomes(s, x) ==
  /\ sh'[s].pc = x.pc /\ sh'[s].then = x.then /\ sh'[s].items = x.items
  /\ sh'[s].unwritten = x.unwritten /\ sh'[s].mapped = x.mapped
  /\ sh'[s].untouchable = x.untouchable /\ sh'[s].dataId = x.dataId
  /\ sh'[s].abandoned = x.abandoned /\ sh'[s].own = x.own /\ sh'[s].vac = x.vac

LEMMA AfterTells ==
  ASSUME Types, NEW s \in Shell, NEW x \in Memories,
         NEW after, after = [sh EXCEPT ![s] = x], sh' \in {after, Notified(after)}
  PROVE  /\ sh' \in [Shell -> Memories] /\ \A q \in Shell \ {s} : Same(q)
         /\ Becomes(s, x)
<1>1. /\ after \in [Shell -> Memories] /\ after[s] = x
      /\ \A q \in Shell \ {s} : after[q] = sh[q]
  BY DEF Types
<1>2. /\ sh' \in [Shell -> Memories]
      /\ \A q \in Shell : \/ sh'[q] = after[q]
                          \/ sh'[q] = [after[q] EXCEPT !.notified = TRUE]
  BY <1>1, NotifiedTells
<1>3. \A q \in Shell \ {s} : Same(q)
  BY <1>1, <1>2 DEF Same
<1>4. sh'[s] = x \/ sh'[s] = [x EXCEPT !.notified = TRUE]
  BY <1>1, <1>2
<1>5. Becomes(s, x)
  <2>1. CASE sh'[s] = x
    BY <2>1 DEF Becomes
  <2>2. CASE sh'[s] = [x EXCEPT !.notified = TRUE]
    BY <2>2 DEF Becomes, Memories
  <2> QED BY <1>4, <2>1, <2>2
<1> QED BY <1>2, <1>3, <1>5

(* A vacuum that gives up keeps what it knew.                              *)
LEMMA GaveUp ==
  ASSUME IInv, Types', Grows, NEW s \in Shell, sh[s].pc \in Vacuuming,
         Becomes(s, GiveUp(sh[s]))
  PROVE  ShellKnown(s)'
<1>f. /\ sh[s] \in Memories /\ ItemsKnown(s) /\ ~Unsettled(s)
      /\ sh[s].pc \notin {"dead", "exec", "flush", "remap"}
  BY ShellTells DEF Vacuuming, Unsettled
<1>n. /\ sh'[s].pc = "idle" /\ sh'[s].items = sh[s].items
      /\ sh'[s].unwritten = sh[s].unwritten /\ sh'[s].own = sh[s].own
      /\ sh'[s].mapped = sh[s].mapped /\ sh'[s].dataId = sh[s].dataId
      /\ sh'[s].untouchable = sh[s].untouchable /\ sh'[s].abandoned = sh[s].abandoned
  BY <1>f, GiveUpTells DEF Becomes
<1>1. VacuumKeeps(s)' /\ Guarded(s)'
  BY <1>n, OutsideGrows DEF Vacuuming
<1>2. MappingKnown(s)' /\ OnMapping(s)' = OnMapping(s)
  BY <1>f, <1>n, MappingGrows
<1>3. ItemsKnown(s)' /\ ItemCmds(s)' = ItemCmds(s)
  BY <1>f, <1>n, ItemsStay DEF Doing
<1>4. OwnKept(s)'
  <2>1. ~Building(s)'
    BY <1>n DEF Building
  <2> QED BY <1>f, <1>n, <1>2, <1>3, <2>1, OwnGrows
<1> QED BY <1>1, <1>2, <1>3, <1>4 DEF ShellKnown

(* Opening the path with O_CREAT.                                          *)
LEMMA OpenGrows ==
  ASSUME IInv, NEW s \in Shell, VacuumBuild(s)
  PROVE  /\ Grows /\ Aside' = Aside /\ OnPath' = OnPath /\ Safe' = Safe /\ FilesKnown'
         /\ dataPath' \in Inode /\ dataPath' < fresh' /\ file' = file
         /\ fresh' \in 1..(MaxFile + 1) /\ dataPath' \in 0..(fresh' - 1)
         /\ aside \subseteq 0..(fresh' - 1)
         /\ dataPath # NoFile => dataPath' = dataPath
<1>f. /\ Types /\ FilesKnown /\ fresh \in Nat /\ fresh >= 1 /\ MaxFile \in Nat
      /\ NoFile \notin Inode /\ aside \subseteq Inode /\ \A i \in aside : i < fresh
      /\ dataPath # NoFile => dataPath \in Inode /\ dataPath < fresh
      /\ fresh \in 1..(MaxFile + 1) /\ aside \subseteq 0..(fresh - 1)
  BY ShellTells, PathTells DEF IInv, Types
<1>g. /\ world' = world /\ file' = file /\ aside' = aside /\ log' = log
      /\ holder' = holder /\ durable' = durable /\ raced' = raced
      /\ dataPath' = IF dataPath = NoFile THEN fresh ELSE dataPath
      /\ fresh' = IF dataPath = NoFile THEN fresh + 1 ELSE fresh
      /\ dataPath = NoFile => fresh <= MaxFile
  BY DEF VacuumBuild
<1>1. /\ Aside' = Aside /\ Safe' = Safe /\ Steady' = Steady /\ LocksWork' = LocksWork
  BY <1>g DEF Aside, Safe, Steady, LocksWork
<1>2. CASE dataPath = NoFile
  <2>1. dataPath' = fresh /\ fresh' = fresh + 1 /\ fresh <= MaxFile /\ fresh \in Inode
    BY <1>f, <1>g, <1>2 DEF Inode
  <2>2. OnPath = {} /\ OnPath' = {}
    <3>1. file[fresh] = Empty /\ dataPath' # NoFile
      BY <1>f, <2>1 DEF FilesKnown
    <3> QED BY <1>2, <1>g, <2>1, <3>1 DEF OnPath, Empty
  <2>3. Grows
    <3>1. At(dataPath) <= At(dataPath)'
      BY <1>2, <1>f, <2>1 DEF At
    <3>2. file'[dataPath'].kind = "ours"
      BY <1>f, <1>g, <2>1 DEF FilesKnown, Empty
    <3>3. fresh' >= fresh
      BY <1>f, <2>1
    <3> QED BY <1>1, <1>g, <2>2, <3>1, <3>2, <3>3 DEF Grows
  <2>4. /\ fresh' \in 1..(MaxFile + 1) /\ dataPath' \in 0..(fresh' - 1)
        /\ aside \subseteq 0..(fresh' - 1) /\ dataPath' < fresh'
    BY <1>f, <2>1
  <2>5. FilesKnown'
    <3>1. \A i \in Inode : i \in Nat /\ (i >= fresh' => i >= fresh)
      BY <1>f, <2>1 DEF Inode
    <3> QED BY <1>f, <1>g, <1>1, <3>1 DEF FilesKnown
  <2> QED BY <1>1, <1>2, <1>g, <2>1, <2>2, <2>3, <2>4, <2>5
<1>3. CASE dataPath # NoFile
  <2>1. Seated /\ dataPath' = dataPath /\ fresh' = fresh
    BY <1>3, <1>g DEF Seated
  <2>2. OnPath' = OnPath
    BY <2>1, SeatedTells
  <2>3. Grows
    BY <1>1, <1>f, <1>g, <2>1, <2>2, SeatedGrows
  <2>4. dataPath' \in 0..(fresh' - 1)
    BY <1>3, <1>f, <2>1 DEF Inode
  <2>5. FilesKnown'
    BY <1>f, <1>g, <1>1, <2>1 DEF FilesKnown
  <2> QED BY <1>1, <1>3, <1>f, <1>g, <2>1, <2>2, <2>3, <2>4, <2>5
<1> QED BY <1>2, <1>3

(* The two ways to write the memory of a shell that has built its blob.    *)
FieldByField(s, a, b, c) ==
  [sh EXCEPT ![s].pc = "vac_open", ![s].vac.before = a, ![s].vac.corrupt = b,
             ![s].vac.merged = c]
AtOnce(s, a, b, c) ==
  [sh EXCEPT ![s] = [sh[s] EXCEPT !.pc = "vac_open",
     !.vac = [sh[s].vac EXCEPT !.before = a, !.corrupt = b, !.merged = c]]]

LEMMA BuiltForm ==
  ASSUME NEW s \in Shell, sh \in [Shell -> Memories], NEW a, NEW b, NEW c
  PROVE  FieldByField(s, a, b, c) = AtOnce(s, a, b, c)
BY DEF FieldByField, AtOnce

LEMMA VacuumBuildKnows ==
  ASSUME IInv, NEW s \in Shell, VacuumBuild(s)
  PROVE  IInv'
<1>f. /\ Types /\ sh[s] \in Memories /\ sh \in [Shell -> Memories] /\ FilesKnown
      /\ VacuumKeeps(s) /\ Guarded(s) /\ OwnKept(s) /\ sh[s].vac \in Vacuums
  BY ShellTells DEF IInv, Memories
<1>o. /\ Grows /\ Aside' = Aside /\ OnPath' = OnPath /\ Safe' = Safe
      /\ FilesKnown' /\ dataPath' \in Inode /\ dataPath' < fresh' /\ file' = file
  BY OpenGrows
<1>p. /\ fresh' \in 1..(MaxFile + 1) /\ dataPath' \in 0..(fresh' - 1)
      /\ aside \subseteq 0..(fresh' - 1)
      /\ dataPath # NoFile => dataPath' = dataPath
  BY OpenGrows
<1>g. /\ sh[s].pc = "vac_build" /\ world' = world /\ aside' = aside /\ log' = log
      /\ holder' = holder /\ durable' = durable /\ raced' = raced
      /\ Steady' = Steady /\ LocksWork' = LocksWork
  BY DEF VacuumBuild, Steady, LocksWork
<1> DEFINE old == file[dataPath']
           merged == Merged(sh[s], old)
<1>k. PICK corrupt : corrupt \in BOOLEAN /\ corrupt = (old.kind = "corrupt")
  OBVIOUS
<1> DEFINE v == [sh[s].vac EXCEPT !.before = dataPath', !.corrupt = corrupt,
                                  !.merged = merged]
           built == [sh[s] EXCEPT !.pc = "vac_open", !.vac = v]
<1>b. /\ old \in [kind : {"ours", "foreign", "corrupt"}, cmds : SUBSET Command]
      /\ OnPath' = old.cmds
  <2>1. old \in [kind : {"ours", "foreign", "corrupt"}, cmds : SUBSET Command]
    BY <1>f, <1>o DEF Types
  <2>2. dataPath' # NoFile
    BY <1>f, <1>o, PathTells
  <2> QED BY <1>o, <2>1, <2>2 DEF OnPath
<1>v. /\ v \in Vacuums /\ v.before = dataPath' /\ v.corrupt = (old.kind = "corrupt")
      /\ v.merged = merged /\ v.log = sh[s].vac.log /\ v.session = sh[s].vac.session
      /\ merged = old.cmds \cup sh[s].vac.log \cup sh[s].vac.session
  <2>1. merged = old.cmds \cup sh[s].vac.log \cup sh[s].vac.session
    BY DEF Merged
  <2>2. merged \subseteq Command
    BY <1>b, <1>f, <2>1 DEF Vacuums
  <2>3. dataPath' \in Paths
    BY <1>o DEF Paths
  <2> HIDE DEF merged, old
  <2> QED BY <1>f, <1>k, <2>1, <2>2, <2>3 DEF Vacuums
<1>m. /\ built \in Memories /\ built.pc = "vac_open" /\ built.vac = v
      /\ built.items = sh[s].items /\ built.unwritten = sh[s].unwritten
      /\ built.own = sh[s].own /\ built.mapped = sh[s].mapped
      /\ built.dataId = sh[s].dataId /\ built.untouchable = sh[s].untouchable
      /\ built.abandoned = sh[s].abandoned
  <2> HIDE DEF v
  <2> QED BY <1>f, <1>v DEF Memories, Pcs
<1>a. \/ sh' \in {[sh EXCEPT ![s] = GiveUp(sh[s])], Notified([sh EXCEPT ![s] = GiveUp(sh[s])])}
      \/ /\ sh' \in {[sh EXCEPT ![s] = built], Notified([sh EXCEPT ![s] = built])}
         /\ old.kind # "foreign"
  <2> DEFINE full == [sh EXCEPT ![s].pc = "vac_open", ![s].vac.before = dataPath',
                                ![s].vac.corrupt = corrupt, ![s].vac.merged = merged]
             given == [sh EXCEPT ![s] = GiveUp(sh[s])]
             mem == IF Refused(old) THEN {given}
                    ELSE {full} \cup (IF May("failed write") THEN {given} ELSE {})
  <2>1. PICK after \in mem : sh' = IF dataPath = NoFile THEN Notified(after) ELSE after
    BY <1>k DEF VacuumBuild
  <2>2. full = [sh EXCEPT ![s] = built]
    <3> HIDE DEF old, merged
    <3>1. full = FieldByField(s, dataPath', corrupt, merged)
      BY DEF FieldByField
    <3>2. [sh EXCEPT ![s] = built] = AtOnce(s, dataPath', corrupt, merged)
      BY DEF AtOnce
    <3>3. FieldByField(s, dataPath', corrupt, merged) = AtOnce(s, dataPath', corrupt, merged)
      BY <1>f, BuiltForm
    <3> HIDE DEF full, built
    <3> QED BY <3>1, <3>2, <3>3
  <2> HIDE DEF full, built, given, merged
  <2>3. sh' \in {given, Notified(given)} \/ (sh' \in {full, Notified(full)} /\ ~Refused(old))
    BY <2>1
  <2>4. old.kind # "foreign" <=> ~Refused(old)
    BY DEF Refused
  <2> HIDE DEF old
  <2> QED BY <2>2, <2>3, <2>4 DEF given
<1>s. PICK x \in Memories :
        /\ sh' \in [Shell -> Memories] /\ (\A q \in Shell \ {s} : Same(q)) /\ Becomes(s, x)
        /\ x = GiveUp(sh[s]) \/ (x = built /\ old.kind # "foreign")
  <2> DEFINE g == GiveUp(sh[s])
  <2>g. g \in Memories /\ g = GiveUp(sh[s])
    BY <1>f, GiveUpTells
  <2>b. built \in Memories
    BY <1>m
  <2>a. \/ sh' \in {[sh EXCEPT ![s] = g], Notified([sh EXCEPT ![s] = g])}
        \/ /\ sh' \in {[sh EXCEPT ![s] = built], Notified([sh EXCEPT ![s] = built])}
           /\ old.kind # "foreign"
    BY <1>a
  <2> HIDE DEF g, built, old
  <2>1. CASE sh' \in {[sh EXCEPT ![s] = g], Notified([sh EXCEPT ![s] = g])}
    BY <1>f, <2>g, <2>1, AfterTells
  <2>2. CASE /\ sh' \in {[sh EXCEPT ![s] = built], Notified([sh EXCEPT ![s] = built])}
             /\ old.kind # "foreign"
    BY <1>f, <2>b, <2>2, AfterTells
  <2> QED BY <2>a, <2>1, <2>2
<1> HIDE DEF built, v, merged
<1>1. Types'
  BY <1>f, <1>g, <1>o, <1>p, <1>s DEF Types
<1>2. (Safe \subseteq InLog \cup Aside \cup OnPath)'
  <2>1. InLog' = InLog
    BY <1>g DEF InLog
  <2> QED BY <1>o, <2>1 DEF IInv
<1>3. \A q \in Shell \ {s} : Steady /\ LocksWork /\ sh[q].pc = "vac_rename" =>
                               dataPath' = dataPath /\ holder'[dataPath] = q
  <2> SUFFICES ASSUME NEW q \in Shell, Steady, LocksWork, sh[q].pc = "vac_rename"
               PROVE  dataPath' = dataPath /\ holder'[dataPath] = q
    OBVIOUS
  <2>1. Guarded(q)
    BY ShellTells
  <2>2. dataPath # NoFile /\ holder[dataPath] = q
    BY <2>1 DEF Guarded, Built
  <2> QED BY <1>g, <1>p, <2>2
<1>4. \A q \in Shell \ {s} : InVacuum(q) => Safe' \subseteq Safe
  BY <1>o
<1>5. ShellKnown(s)'
  <2>1. CASE x = GiveUp(sh[s])
    BY <1>1, <1>g, <1>o, <1>s, <2>1, GaveUp DEF Vacuuming
  <2>2. CASE x = built /\ old.kind # "foreign"
    <3>n. /\ sh'[s].pc = "vac_open" /\ sh'[s].items = sh[s].items
          /\ sh'[s].unwritten = sh[s].unwritten /\ sh'[s].own = sh[s].own
          /\ sh'[s].mapped = sh[s].mapped /\ sh'[s].dataId = sh[s].dataId
          /\ sh'[s].untouchable = sh[s].untouchable /\ sh'[s].abandoned = sh[s].abandoned
          /\ sh'[s].vac = v
      BY <1>m, <1>s, <2>2 DEF Becomes
    <3>0. Building(s)' /\ Built(s)' /\ Building(s) /\ ~Unsettled(s)
      BY <1>g, <3>n DEF Building, Built, Unsettled
    <3>1. VacuumKeeps(s)'
      <4>1. Safe' \subseteq sh'[s].vac.log \cup Aside' \cup OnPath'
        BY <1>f, <1>o, <1>v, <3>0, <3>n DEF VacuumKeeps
      <4>2. Safe' \subseteq sh'[s].vac.merged \cup Aside'
        BY <1>b, <1>o, <1>v, <3>n, <4>1
      <4>3. sh'[s].vac.log \cup sh'[s].vac.session \subseteq sh'[s].vac.merged
        BY <1>v, <3>n
      <4> QED BY <3>n, <4>1, <4>2, <4>3 DEF VacuumKeeps
    <3>2. Guarded(s)'
      <4>1. /\ sh'[s].vac.before \in Inode
            /\ file'[sh'[s].vac.before].cmds \subseteq sh'[s].vac.merged
            /\ file'[sh'[s].vac.before].kind # "foreign"
            /\ sh'[s].vac.before < fresh'
        BY <1>o, <1>v, <2>2, <3>n
      <4>2. Steady => ~sh'[s].vac.corrupt
        BY <1>f, <1>o, <1>v, <3>n DEF FilesKnown
      <4>3. dataPath' # NoFile /\ sh'[s].vac.before <= dataPath'
        <5>1. dataPath' \in Nat /\ NoFile \notin Inode
          BY <1>o, HistoryAssumption DEF Inode
        <5> QED BY <1>o, <1>v, <3>n, <5>1
      <4>4. ~(dataPath' # NoFile /\ file'[dataPath'].kind = "foreign")
        BY <1>o, <2>2
      <4>5. (LocksWork => ~sh[s].abandoned)'
        BY <1>f, <1>g, <3>n DEF Guarded
      <4> QED BY <3>n, <4>1, <4>2, <4>3, <4>4, <4>5, <1>g DEF Guarded
    <3>3. MappingKnown(s)' /\ OnMapping(s)' = OnMapping(s)
      BY <1>1, <1>g, <1>o, <3>0, <3>n, MappingGrows
    <3>4. ItemsKnown(s)' /\ ItemCmds(s)' = ItemCmds(s)
      BY <1>g, <3>n, ItemsStay DEF Doing
    <3>5. OwnKept(s)'
      <4>1. ItemCmds(s)' \ Secret \subseteq sh'[s].vac.session
        BY <1>f, <1>v, <3>0, <3>n, <3>4 DEF OwnKept
      <4> QED BY <1>o, <3>0, <3>3, <3>4, <3>n, <4>1, OwnGrows
    <3> QED BY <3>1, <3>2, <3>3, <3>4, <3>5 DEF ShellKnown
  <2> QED BY <1>s, <2>1, <2>2
<1> QED BY <1>1, <1>2, <1>3, <1>4, <1>5, <1>o, <1>s, LoudStep

(* The lock: nothing on the disk moves, and nobody's lock is taken away.   *)
LEMMA LockStep ==
  ASSUME IInv, NEW s \in Shell, Seated, UNCHANGED <<aside, log, durable, raced>>,
         holder' \in [Inode -> Shell \cup {NoShell}],
         \A q \in Shell \ {s} : dataPath # NoFile /\ holder[dataPath] = q => holder'[dataPath] = q,
         sh' \in [Shell -> Memories], OnlyOf(s), ShellKnown(s)'
  PROVE  IInv'
<1>f. Types /\ FilesKnown
  BY DEF IInv
<1>1. Safe' = Safe /\ Aside' = Aside /\ OnPath' = OnPath /\ InLog' = InLog
  BY SeatedTells DEF Safe, Aside, InLog, Seated
<1>2. Grows
  BY <1>f, <1>1, SeatedGrows
<1>3. Types' /\ FilesKnown'
  <2>1. Types'
    BY <1>f DEF Types, Seated
  <2>2. FilesKnown'
    BY <1>f, SeatedTells DEF FilesKnown, Seated
  <2> QED BY <2>1, <2>2
<1>4. (Safe \subseteq InLog \cup Aside \cup OnPath)'
  BY <1>1 DEF IInv
<1>5. \A q \in Shell \ {s} : Same(q)
  BY DEF Same, OnlyOf
<1>6. \A q \in Shell \ {s} : Steady /\ LocksWork /\ sh[q].pc = "vac_rename" =>
                               dataPath' = dataPath /\ holder'[dataPath] = q
  BY LocksStay DEF Seated
<1>7. \A q \in Shell \ {s} : InVacuum(q) => Safe' \subseteq Safe
  BY <1>1
<1> QED BY <1>2, <1>3, <1>4, <1>5, <1>6, <1>7, LoudStep

(* Where the vacuum goes once it has, or does without, the lock.           *)
Going(s, m) ==
  IF Unmoved(m)
  THEN [m EXCEPT !.pc = IF m.vac.corrupt THEN "vac_aside" ELSE "vac_rename"]
  ELSE IF m.vac.tries + 1 < MaxTries
  THEN [m EXCEPT !.pc = "vac_build", !.vac.tries = @ + 1]
  ELSE GiveUp(m)

LEMMA GoingTells ==
  ASSUME NEW s \in Shell, NEW m \in Memories
  PROVE  /\ Going(s, m) \in Memories
         /\ Going(s, m).items = m.items /\ Going(s, m).unwritten = m.unwritten
         /\ Going(s, m).own = m.own /\ Going(s, m).mapped = m.mapped
         /\ Going(s, m).dataId = m.dataId /\ Going(s, m).untouchable = m.untouchable
         /\ Going(s, m).abandoned = m.abandoned
         /\ \/ /\ Unmoved(m) /\ Going(s, m).vac = m.vac
               /\ Going(s, m).pc = IF m.vac.corrupt THEN "vac_aside" ELSE "vac_rename"
            \/ /\ ~Unmoved(m) /\ Going(s, m).pc = "vac_build"
               /\ Going(s, m).vac = [m.vac EXCEPT !.tries = @ + 1]
            \/ ~Unmoved(m) /\ Going(s, m).pc = "idle" /\ Going(s, m).vac = NoVacuum
<1>1. CASE Unmoved(m)
  <2> DEFINE next == IF m.vac.corrupt THEN "vac_aside" ELSE "vac_rename"
  <2>1. next \in Pcs
    BY DEF Pcs
  <2> HIDE DEF next
  <2>2. Going(s, m) = [m EXCEPT !.pc = next]
    BY <1>1 DEF Going, next
  <2>3. Going(s, m) \in Memories /\ Going(s, m).pc = next
    BY <2>1, <2>2 DEF Memories
  <2>4. /\ Going(s, m).items = m.items /\ Going(s, m).unwritten = m.unwritten
        /\ Going(s, m).own = m.own /\ Going(s, m).mapped = m.mapped
        /\ Going(s, m).dataId = m.dataId /\ Going(s, m).untouchable = m.untouchable
        /\ Going(s, m).abandoned = m.abandoned /\ Going(s, m).vac = m.vac
    BY <2>2 DEF Memories
  <2> QED BY <1>1, <2>3, <2>4 DEF next
<1>2. CASE ~Unmoved(m) /\ m.vac.tries + 1 < MaxTries
  <2> DEFINE v == [m.vac EXCEPT !.tries = @ + 1]
  <2>1. v \in Vacuums
    <3>1. m.vac \in Vacuums
      BY DEF Memories
    <3>2. PICK k \in Nat : k = m.vac.tries + 1
      BY <3>1 DEF Vacuums
    <3> QED BY <3>1, <3>2 DEF Vacuums
  <2>2. Going(s, m) = [m EXCEPT !.pc = "vac_build", !.vac = v]
    BY <1>2 DEF Going, Memories
  <2>5. v = [m.vac EXCEPT !.tries = @ + 1]
    OBVIOUS
  <2> HIDE DEF v
  <2>3. Going(s, m) \in Memories /\ Going(s, m).pc = "vac_build" /\ Going(s, m).vac = v
    BY <2>1, <2>2 DEF Memories, Pcs
  <2>4. /\ Going(s, m).items = m.items /\ Going(s, m).unwritten = m.unwritten
        /\ Going(s, m).own = m.own /\ Going(s, m).mapped = m.mapped
        /\ Going(s, m).dataId = m.dataId /\ Going(s, m).untouchable = m.untouchable
        /\ Going(s, m).abandoned = m.abandoned
    BY <2>2 DEF Memories
  <2> QED BY <1>2, <2>3, <2>4, <2>5
<1>3. CASE ~Unmoved(m) /\ ~(m.vac.tries + 1 < MaxTries)
  <2>1. Going(s, m) = GiveUp(m)
    BY <1>3 DEF Going
  <2> QED BY <1>3, <2>1, GiveUpTells
<1> QED BY <1>1, <1>2, <1>3

LEMMA EitherTells ==
  ASSUME NEW e, NEW S, NEW b \in {FALSE, (e \in S)}
  PROVE  b \in BOOLEAN /\ (b = FALSE \/ (b = TRUE /\ e \in S))
<1>0. b = FALSE \/ b = (e \in S)
  OBVIOUS
<1>1. CASE e \in S
  BY <1>1
<1>2. CASE ~(e \in S)
  <2>1. CASE b = FALSE
    BY <2>1
  <2>2. CASE b = (e \in S)
    <3>1. (e \in S) = FALSE
      BY <1>2
    <3> QED BY <2>2, <3>1
  <2> QED BY <1>0, <2>1, <2>2
<1> QED BY <1>1, <1>2

(* A lock that is slow may be given up for good.                           *)
LEMMA SlowTells ==
  ASSUME NEW b \in {FALSE, May("slow lock")}
  PROVE  b \in BOOLEAN /\ (b = FALSE \/ (b = TRUE /\ May("slow lock")))
<1>1. PICK e, S : e = "slow lock" /\ S = world.faults
  OBVIOUS
<1>2. b \in {FALSE, (e \in S)} /\ (May("slow lock") <=> e \in S)
  BY <1>1 DEF May
<1>3. b \in BOOLEAN /\ (b = FALSE \/ (b = TRUE /\ e \in S))
  BY <1>2, EitherTells
<1> QED BY <1>2, <1>3

LEMMA VacuumLockKnows ==
  ASSUME IInv, NEW s \in Shell, VacuumLock(s)
  PROVE  IInv'
<1>f. /\ Types /\ sh[s] \in Memories /\ sh \in [Shell -> Memories]
      /\ VacuumKeeps(s) /\ Guarded(s) /\ OwnKept(s) /\ sh[s].vac \in Vacuums
      /\ sh[s].vac.before \in Paths /\ sh[s].vac.target \in Paths /\ sh[s].abandoned \in BOOLEAN
  BY ShellTells DEF Memories, Vacuums
<1>g. /\ sh[s].pc = "vac_lock" /\ ~Unsettled(s) /\ Seated
      /\ UNCHANGED <<aside, log, durable, raced>> /\ Building(s) /\ Built(s)
  BY DEF VacuumLock, Unsettled, Seated, disk, Building, Built
<1> DEFINE m == sh[s]
           target == m.vac.target
           lockable == target # NoFile /\ ~m.abandoned
           going == Going(s, m)
<1>a. \/ /\ lockable /\ holder[target] = NoShell
         /\ holder' = IF Unmoved(m) THEN LockHeld(target, s) ELSE holder
         /\ \E slow \in {FALSE, May("slow lock")} :
              sh' = [sh EXCEPT ![s] = [going EXCEPT !.abandoned = slow]]
      \/ /\ ~lockable \/ May("refused lock")
         /\ sh' = [sh EXCEPT ![s] = going] /\ holder' = holder
  BY DEF VacuumLock, Going
<1>m. /\ going \in Memories /\ going.items = m.items /\ going.unwritten = m.unwritten
      /\ going.own = m.own /\ going.mapped = m.mapped /\ going.dataId = m.dataId
      /\ going.untouchable = m.untouchable /\ going.abandoned = m.abandoned
  BY <1>f, GoingTells
<1>w. \/ /\ Unmoved(m) /\ going.vac = m.vac
         /\ going.pc = IF m.vac.corrupt THEN "vac_aside" ELSE "vac_rename"
      \/ /\ ~Unmoved(m) /\ going.pc = "vac_build" /\ going.vac = [m.vac EXCEPT !.tries = @ + 1]
      \/ ~Unmoved(m) /\ going.pc = "idle" /\ going.vac = NoVacuum
  BY <1>f, GoingTells
<1> HIDE DEF going
<1>s. PICK x \in Memories :
        /\ sh' = [sh EXCEPT ![s] = x] /\ x.pc = going.pc /\ x.vac = going.vac
        /\ x.items = m.items /\ x.unwritten = m.unwritten /\ x.own = m.own
        /\ x.mapped = m.mapped /\ x.dataId = m.dataId /\ x.untouchable = m.untouchable
        /\ \/ x.abandoned = m.abandoned \/ x.abandoned = FALSE
           \/ x.abandoned = TRUE /\ May("slow lock")
  <2>1. CASE sh' = [sh EXCEPT ![s] = going]
    BY <1>m, <2>1
  <2>2. ASSUME NEW slow \in {FALSE, May("slow lock")},
               sh' = [sh EXCEPT ![s] = [going EXCEPT !.abandoned = slow]]
        PROVE  \E x \in Memories :
                 /\ sh' = [sh EXCEPT ![s] = x] /\ x.pc = going.pc /\ x.vac = going.vac
                 /\ x.items = m.items /\ x.unwritten = m.unwritten /\ x.own = m.own
                 /\ x.mapped = m.mapped /\ x.dataId = m.dataId /\ x.untouchable = m.untouchable
                 /\ \/ x.abandoned = m.abandoned \/ x.abandoned = FALSE
                    \/ x.abandoned = TRUE /\ May("slow lock")
    <3> DEFINE x == [going EXCEPT !.abandoned = slow]
    <3>1. slow \in BOOLEAN /\ (slow = FALSE \/ (slow = TRUE /\ May("slow lock")))
      BY <2>2, SlowTells
    <3>2. x \in Memories /\ x.abandoned = slow
      BY <1>m, <3>1 DEF Memories
    <3>3. /\ x.pc = going.pc /\ x.vac = going.vac
          /\ x.items = m.items /\ x.unwritten = m.unwritten /\ x.own = m.own
          /\ x.mapped = m.mapped /\ x.dataId = m.dataId /\ x.untouchable = m.untouchable
      BY <1>m DEF Memories
    <3>4. sh' = [sh EXCEPT ![s] = x]
      BY <2>2
    <3> HIDE DEF x
    <3> QED BY <3>1, <3>2, <3>3, <3>4
  <2> QED BY <1>a, <2>1, <2>2
<1>n. /\ sh' \in [Shell -> Memories] /\ OnlyOf(s) /\ sh'[s] = x
  BY <1>f, <1>s, OneShell
<1>l. (LocksWork => ~sh[s].abandoned)'
  <2>1. LocksWork => ~m.abandoned /\ ~May("slow lock")
    BY <1>f DEF Guarded, LocksWork, May
  <2> QED BY <1>g, <1>n, <1>s, <2>1, SeatedTells
<1>h. /\ holder' \in [Inode -> Shell \cup {NoShell}]
      /\ \A q \in Shell \ {s} : dataPath # NoFile /\ holder[dataPath] = q => holder'[dataPath] = q
  <2>1. holder \in [Inode -> Shell \cup {NoShell}] /\ NoShell \notin Shell
    BY <1>f, HistoryAssumption DEF Types
  <2>2. CASE holder' = holder
    BY <2>1, <2>2
  <2>3. CASE holder' = LockHeld(target, s) /\ holder[target] = NoShell
    <3>1. dataPath # NoFile => dataPath \in Inode
      BY <1>f, PathTells
    <3>2. \A i \in Inode : holder'[i] = IF i = target THEN s ELSE holder[i]
      BY <2>1, <2>3 DEF LockHeld
    <3>3. holder' \in [Inode -> Shell \cup {NoShell}]
      BY <2>1, <2>3 DEF LockHeld
    <3> HIDE DEF target
    <3> QED BY <2>1, <2>3, <3>1, <3>2, <3>3
  <2> QED BY <1>a, <2>2, <2>3
<1>1. VacuumKeeps(s)'
  <2>1. /\ sh'[s].pc # "idle" => sh'[s].vac.log = m.vac.log /\ sh'[s].vac.merged = m.vac.merged
                                 /\ sh'[s].vac.session = m.vac.session
        /\ sh'[s].pc \in {"vac_aside", "vac_rename", "vac_build", "idle"}
    <3>1. sh'[s].pc = going.pc /\ sh'[s].vac = going.vac
      BY <1>n, <1>s
    <3>2. CASE Unmoved(m)
      <4>1. going.vac = m.vac /\ going.pc \in {"vac_aside", "vac_rename"}
        BY <1>w, <3>2
      <4> QED BY <3>1, <4>1
    <3>3. CASE ~Unmoved(m)
      <4>1. CASE going.pc = "vac_build" /\ going.vac = [m.vac EXCEPT !.tries = @ + 1]
        <5>1. m.vac \in Vacuums
          BY <1>f
        <5> QED BY <3>1, <4>1, <5>1 DEF Vacuums
      <4>2. CASE going.pc = "idle"
        BY <3>1, <4>2
      <4> QED BY <1>w, <3>3, <4>1, <4>2
    <3> QED BY <3>2, <3>3
  <2>2. Safe' = Safe /\ Aside' = Aside /\ OnPath' = OnPath
    BY <1>g, SeatedTells DEF Safe, Aside, Seated
  <2>3. (Building(s) => Safe \subseteq sh[s].vac.log \cup Aside \cup OnPath)'
    BY <1>f, <1>g, <2>1, <2>2 DEF VacuumKeeps, Building
  <2>4. (Built(s) => Safe \subseteq sh[s].vac.merged \cup Aside)'
    BY <1>f, <1>g, <2>1, <2>2 DEF VacuumKeeps, Built
  <2>5. (Built(s) => sh[s].vac.log \cup sh[s].vac.session \subseteq sh[s].vac.merged)'
    BY <1>f, <1>g, <2>1 DEF VacuumKeeps, Built
  <2> QED BY <2>1, <2>3, <2>4, <2>5 DEF VacuumKeeps
<1>2. Guarded(s)'
  <2>1. CASE sh'[s].pc \in {"vac_build", "idle"}
    BY <1>l, <2>1 DEF Guarded, Built
  <2>2. CASE /\ Unmoved(m) /\ going.vac = m.vac
             /\ going.pc = IF m.vac.corrupt THEN "vac_aside" ELSE "vac_rename"
    <3>1. sh'[s].vac = m.vac /\ sh'[s].pc \in {"vac_aside", "vac_rename"}
          /\ (~m.vac.corrupt => sh'[s].pc = "vac_rename")
      BY <1>n, <1>s, <2>2
    <3>2. /\ sh'[s].vac.before \in Inode
          /\ file'[sh'[s].vac.before].cmds \subseteq sh'[s].vac.merged
          /\ file'[sh'[s].vac.before].kind # "foreign"
          /\ sh'[s].vac.before < fresh'
      BY <1>f, <1>g, <3>1 DEF Guarded, Seated
    <3>3. Steady => /\ sh'[s].pc # "vac_aside" /\ ~sh'[s].vac.corrupt
                    /\ dataPath' # NoFile /\ sh'[s].vac.before <= dataPath'
      BY <1>f, <1>g, <3>1 DEF Guarded, Seated
    <3>4. Steady /\ "foreign file" \notin world.faults =>
            ~(dataPath' # NoFile /\ file'[dataPath'].kind = "foreign")
      BY <1>f, <1>g DEF Guarded, Seated
    <3>5. ASSUME Steady, LocksWork
          PROVE  dataPath' = sh'[s].vac.before /\ holder'[dataPath'] = s
      <4>1. /\ target # NoFile /\ m.vac.before <= target /\ target <= dataPath
            /\ dataPath # NoFile /\ ~m.abandoned
        BY <1>f, <1>g, <3>5 DEF Guarded
      <4>2. dataPath = m.vac.before
        BY <2>2, <4>1 DEF Unmoved
      <4>3. target = dataPath
        <5>1. target \in Nat /\ dataPath \in Nat
          BY <1>f, <4>1, PathTells, HistoryAssumption DEF Paths, Inode
        <5> QED BY <4>1, <4>2, <5>1
      <4>4. holder' = LockHeld(target, s)
        BY <1>a, <2>2, <3>5, <4>1 DEF LocksWork, May
      <4>5. holder \in [Inode -> Shell \cup {NoShell}] /\ target \in Inode
        BY <1>f, <4>1 DEF Types, Paths
      <4>6. holder'[target] = s /\ dataPath' = dataPath
        BY <1>g, <4>4, <4>5 DEF LockHeld, Seated
      <4> QED BY <3>1, <4>2, <4>3, <4>6
    <3>6. /\ Steady' = Steady /\ LocksWork' = LocksWork /\ world' = world
          /\ sh'[s].pc # "vac_lock"
      BY <1>g, <3>1, SeatedTells DEF Seated
    <3> QED BY <1>l, <3>1, <3>2, <3>3, <3>4, <3>5, <3>6 DEF Guarded
  <2> QED BY <1>n, <1>s, <1>w, <2>1, <2>2
<1>3. sh'[s].pc \in {"vac_aside", "vac_rename", "vac_build", "idle"}
  BY <1>n, <1>s, <1>w
<1>4. MappingKnown(s)'
  BY <1>g, <1>n, <1>s, MappingStays
<1>5. ItemsKnown(s)' /\ ItemCmds(s)' = ItemCmds(s)
  BY <1>3, <1>g, <1>n, <1>s, ItemsStay DEF Doing
<1>6. OwnKept(s)'
  <2>1. OnMapping(s)' = OnMapping(s)
    BY <1>g, <1>n, <1>s DEF OnMapping, Seated
  <2>2. Building(s)' => ItemCmds(s)' \ Secret \subseteq sh'[s].vac.session
    <3>1. sh'[s].pc # "idle" => sh'[s].vac.session = m.vac.session
      BY <1>f, <1>n, <1>s, <1>w DEF Vacuums
    <3> QED BY <1>f, <1>g, <1>5, <3>1 DEF OwnKept, Building
  <2>3. sh'[s].own = sh[s].own /\ sh'[s].untouchable = sh[s].untouchable
    BY <1>n, <1>s
  <2>4. sh'[s].pc \notin {"vac_check", "vac_truncate", "vac_forget"} /\ ~Unsettled(s)'
    BY <1>3 DEF Unsettled
  <2> QED BY <1>5, <1>f, <1>g, <2>1, <2>2, <2>3, <2>4, SeatedTells DEF OwnKept
<1> QED BY <1>1, <1>2, <1>4, <1>5, <1>6, <1>g, <1>h, <1>n, LockStep DEF ShellKnown

LEMMA UnlockedTells ==
  ASSUME Types, NEW s \in Shell
  PROVE  /\ Unlocked(s) \in [Inode -> Shell \cup {NoShell}]
         /\ \A q \in Shell \ {s}, i \in Inode : holder[i] = q => Unlocked(s)[i] = q
BY HistoryAssumption DEF Types, Unlocked

(* A corrupt file moved aside keeps what it held.                          *)
LEMMA VacuumAsideKnows ==
  ASSUME IInv, NEW s \in Shell, VacuumAside(s)
  PROVE  IInv'
<1>f. /\ Types /\ sh[s] \in Memories /\ sh \in [Shell -> Memories] /\ FilesKnown
      /\ VacuumKeeps(s) /\ Guarded(s) /\ OwnKept(s)
  BY ShellTells DEF IInv
<1>g. /\ sh[s].pc = "vac_aside" /\ Building(s) /\ Built(s) /\ ~Unsettled(s)
      /\ UNCHANGED <<world, file, fresh, log, durable, raced>>
  BY DEF VacuumAside, Building, Built, Unsettled
<1>t. ~Steady /\ ~Steady' /\ Safe' = Safe /\ InLog' = InLog
  BY <1>f, <1>g DEF Guarded, Steady, Safe, InLog
<1>h. holder' \in [Inode -> Shell \cup {NoShell}]
  BY <1>f, UnlockedTells DEF VacuumAside, Types
<1>p. /\ aside' = IF dataPath = NoFile THEN aside ELSE aside \cup {dataPath}
      /\ dataPath' = NoFile
  BY DEF VacuumAside
<1>1. /\ Aside \cup OnPath \subseteq Aside' /\ aside \subseteq aside'
  <2>1. \A i \in aside \cup (IF dataPath = NoFile THEN {} ELSE {dataPath}) : i \in aside'
    BY <1>p
  <2>2. file' = file
    BY <1>g
  <2> QED BY <2>1, <2>2 DEF Aside, OnPath
<1>2. Grows
  <2>1. fresh' >= fresh /\ fresh \in Nat
    BY <1>f, <1>g, PathTells
  <2> QED BY <1>1, <1>g, <1>p, <1>t, <2>1 DEF Grows
<1>3. FilesKnown'
  BY <1>f, <1>g, <1>t DEF FilesKnown
<1>4. (Safe \subseteq InLog \cup Aside \cup OnPath)'
  BY <1>1, <1>t DEF IInv
<1>5. dataPath' \in {NoFile} \cup 0..(fresh' - 1) /\ aside' \subseteq 0..(fresh' - 1)
  BY <1>f, <1>g, <1>p DEF Types
<1>s. PICK x \in Memories :
        /\ sh' \in [Shell -> Memories] /\ (\A q \in Shell \ {s} : Same(q)) /\ Becomes(s, x)
        /\ x = GiveUp(sh[s]) \/ x = [sh[s] EXCEPT !.pc = "vac_rename"]
  <2> DEFINE g == GiveUp(sh[s])
             m == [sh[s] EXCEPT !.pc = "vac_rename"]
  <2>1. g \in Memories /\ m \in Memories
    BY <1>f, GiveUpTells DEF Memories, Pcs
  <2>2. \/ sh' \in {[sh EXCEPT ![s] = g], Notified([sh EXCEPT ![s] = g])}
        \/ sh' \in {[sh EXCEPT ![s] = m], Notified([sh EXCEPT ![s] = m])}
    <3>1. [sh EXCEPT ![s].pc = "vac_rename"] = [sh EXCEPT ![s] = m]
      BY <1>f
    <3>2. CASE dataPath = NoFile
      BY <3>2 DEF VacuumAside
    <3>3. CASE dataPath # NoFile
      BY <3>1, <3>3 DEF VacuumAside
    <3> QED BY <3>2, <3>3
  <2>e. g = GiveUp(sh[s]) /\ m = [sh[s] EXCEPT !.pc = "vac_rename"]
    OBVIOUS
  <2> HIDE DEF g, m
  <2>3. CASE sh' \in {[sh EXCEPT ![s] = g], Notified([sh EXCEPT ![s] = g])}
    BY <1>f, <2>1, <2>3, <2>e, AfterTells
  <2>4. CASE sh' \in {[sh EXCEPT ![s] = m], Notified([sh EXCEPT ![s] = m])}
    BY <1>f, <2>1, <2>4, <2>e, AfterTells
  <2> QED BY <2>2, <2>3, <2>4
<1>6. Types'
  BY <1>5, <1>f, <1>g, <1>h, <1>s DEF Types
<1>7. ShellKnown(s)'
  <2>1. CASE x = GiveUp(sh[s])
    BY <1>2, <1>6, <1>g, <1>s, <2>1, GaveUp DEF Vacuuming
  <2>2. CASE x = [sh[s] EXCEPT !.pc = "vac_rename"]
    <3>n. /\ sh'[s].pc = "vac_rename" /\ sh'[s].items = sh[s].items
          /\ sh'[s].unwritten = sh[s].unwritten /\ sh'[s].own = sh[s].own
          /\ sh'[s].mapped = sh[s].mapped /\ sh'[s].dataId = sh[s].dataId
          /\ sh'[s].untouchable = sh[s].untouchable /\ sh'[s].abandoned = sh[s].abandoned
          /\ sh'[s].vac = sh[s].vac
      BY <1>f, <1>s, <2>2 DEF Becomes, Memories
    <3>1. VacuumKeeps(s)'
      BY <1>1, <1>f, <1>g, <1>t, <3>n DEF VacuumKeeps
    <3>2. Guarded(s)'
      <4>1. /\ sh'[s].vac.before \in Inode
            /\ file'[sh'[s].vac.before].cmds \subseteq sh'[s].vac.merged
            /\ file'[sh'[s].vac.before].kind # "foreign"
            /\ sh'[s].vac.before < fresh'
        BY <1>f, <1>g, <3>n DEF Guarded
      <4>2. (LocksWork => ~sh[s].abandoned)'
        BY <1>f, <1>g, <3>n DEF Guarded, LocksWork
      <4> QED BY <1>t, <4>1, <4>2 DEF Guarded
    <3>3. MappingKnown(s)' /\ OnMapping(s)' = OnMapping(s)
      BY <1>2, <1>6, <1>g, <3>n, MappingGrows
    <3>4. ItemsKnown(s)' /\ ItemCmds(s)' = ItemCmds(s)
      BY <1>g, <3>n, ItemsStay DEF Doing
    <3>5. OwnKept(s)'
      <4>1. ItemCmds(s)' \ Secret \subseteq sh'[s].vac.session
        BY <1>f, <1>g, <3>n, <3>4 DEF OwnKept
      <4> QED BY <1>t, <4>1 DEF OwnKept
    <3> QED BY <3>1, <3>2, <3>3, <3>4, <3>5 DEF ShellKnown
  <2> QED BY <1>s, <2>1, <2>2
<1>8. \A q \in Shell \ {s} : Steady /\ LocksWork /\ sh[q].pc = "vac_rename" =>
                               dataPath' = dataPath /\ holder'[dataPath] = q
  BY <1>t
<1>9. \A q \in Shell \ {s} : InVacuum(q) => Safe' \subseteq Safe
  BY <1>t
<1> QED BY <1>2, <1>3, <1>4, <1>6, <1>7, <1>8, <1>9, <1>s, LoudStep

(* A new file f at the path, with something of what was there.             *)
Replacing(f) ==
  /\ world' = world /\ fresh <= MaxFile /\ dataPath' = fresh /\ fresh' = fresh + 1
  /\ aside' = aside /\ file' = [file EXCEPT ![fresh] = f]

KeepsWhatWasThere(f) ==
  /\ Safe' = Safe /\ Safe \cap OnPath \subseteq Aside \cup f.cmds
  /\ Steady /\ LocksWork => OnPath \subseteq f.cmds
  /\ Steady /\ "foreign file" \notin world.faults => f.kind # "foreign"

LEMMA ReplacedPath ==
  ASSUME IInv, NEW f, Replacing(f)
  PROVE  /\ fresh \in Inode /\ fresh' >= fresh /\ fresh' \in Nat /\ dataPath' # NoFile
         /\ fresh' \in 1..(MaxFile + 1) /\ dataPath' \in {NoFile} \cup 0..(fresh' - 1)
         /\ aside' \subseteq 0..(fresh' - 1)
         /\ \A i \in Inode : /\ i < fresh => i # fresh
                            /\ i >= fresh' => i >= fresh /\ i # fresh
         /\ At(dataPath) <= At(dataPath)'
<1>f. /\ fresh \in Nat /\ fresh >= 1 /\ MaxFile \in Nat
      /\ NoFile \notin Inode /\ aside \subseteq 0..(fresh - 1)
      /\ dataPath # NoFile => dataPath \in Inode /\ dataPath < fresh
  BY PathTells DEF IInv, Types
<1>g. /\ fresh <= MaxFile /\ dataPath' = fresh /\ fresh' = fresh + 1 /\ aside' = aside
  BY DEF Replacing
<1>1. fresh \in Inode /\ fresh' >= fresh /\ fresh' \in Nat /\ fresh' \in 1..(MaxFile + 1)
  BY <1>f, <1>g DEF Inode
<1>2. dataPath' \in {NoFile} \cup 0..(fresh' - 1) /\ aside' \subseteq 0..(fresh' - 1)
  BY <1>f, <1>g
<1>3. \A i \in Inode : /\ i < fresh => i # fresh
                     /\ i >= fresh' => i >= fresh /\ i # fresh
  BY <1>f, <1>g DEF Inode
<1>4. At(dataPath)' = fresh /\ dataPath' # NoFile
  BY <1>1, <1>f, <1>g DEF At
<1>5. At(dataPath) <= fresh
  <2>1. CASE dataPath = NoFile
    BY <1>f, <2>1 DEF At
  <2>2. CASE dataPath # NoFile
    BY <1>f, <2>2 DEF At, Inode
  <2> QED BY <2>1, <2>2
<1> QED BY <1>1, <1>2, <1>3, <1>4, <1>5

LEMMA Replaced ==
  ASSUME IInv, NEW f \in [kind : {"ours", "foreign"}, cmds
    : SUBSET Command], Replacing(f), KeepsWhatWasThere(f)
  PROVE  /\ Grows /\ FilesKnown' /\ OnPath' = f.cmds /\ Aside' = Aside
         /\ Steady' = Steady /\ LocksWork' = LocksWork
         /\ file' \in [Inode -> [kind : {"ours", "foreign", "corrupt"}, cmds : SUBSET Command]]
<1>f. /\ FilesKnown /\ aside \subseteq Inode /\ \A i \in aside : i < fresh
      /\ file \in [Inode -> [kind : {"ours", "foreign", "corrupt"}, cmds : SUBSET Command]]
  BY PathTells DEF IInv, Types
<1>g. world' = world /\ dataPath' = fresh /\ aside' = aside /\ file' = [file EXCEPT ![fresh] = f]
  BY DEF Replacing
<1>p. /\ fresh \in Inode /\ fresh' >= fresh /\ dataPath' # NoFile
      /\ \A i \in Inode : /\ i < fresh => i # fresh
                         /\ i >= fresh' => i >= fresh /\ i # fresh
      /\ At(dataPath) <= At(dataPath)'
  BY ReplacedPath
<1>t. f \in [kind : {"ours", "foreign", "corrupt"}, cmds : SUBSET Command] /\ f.kind # "corrupt"
  OBVIOUS
<1>1. /\ file'[fresh] = f /\ \A i \in Inode : i # fresh => file'[i] = file[i]
  BY <1>f, <1>g, <1>p
<1>8. ASSUME NEW i \in Inode
      PROVE  (i < fresh => file'[i] = file[i]) /\ (i >= fresh' => file'[i] = Empty)
  <2>1. (i < fresh => i # fresh) /\ (i >= fresh' => i >= fresh /\ i # fresh)
    <3>1. i \in Nat /\ fresh \in Nat /\ fresh' = fresh + 1
      BY HistoryAssumption, PathTells DEF IInv, Inode, Replacing
    <3> QED BY <3>1
  <2>2. (i # fresh => file'[i] = file[i]) /\ (i >= fresh => file[i] = Empty)
    BY <1>1, <1>f DEF FilesKnown
  <2> QED BY <2>1, <2>2
<1>2. file' \in [Inode -> [kind : {"ours", "foreign", "corrupt"}, cmds : SUBSET Command]]
  BY <1>f, <1>g, <1>t
<1>3. OnPath' = f.cmds
  BY <1>1, <1>g, <1>p DEF OnPath
<1>4. Aside' = Aside
  <2>1. \A i \in aside : file'[i] = file[i]
    BY <1>8, <1>f
  <2>2. {file'[i].cmds : i \in aside} = {file[i].cmds : i \in aside}
    BY <2>1
  <2>3. aside' = aside
    BY <1>g
  <2> QED BY <2>2, <2>3 DEF Aside
<1>5. Steady' = Steady /\ LocksWork' = LocksWork
  BY <1>g DEF Steady, LocksWork
<1>6. Grows
  <2>1. Safe' \cap (Aside \cup OnPath) \subseteq (Aside \cup OnPath)'
    BY <1>3, <1>4 DEF KeepsWhatWasThere
  <2>2. Steady /\ LocksWork => OnPath \subseteq OnPath'
    BY <1>3 DEF KeepsWhatWasThere
  <2>3. Steady /\ "foreign file" \notin world.faults => file'[dataPath'].kind # "foreign"
    BY <1>1, <1>g DEF KeepsWhatWasThere
  <2>4. \A i \in Inode : i < fresh => file'[i] = file[i]
    BY <1>8
  <2> QED BY <1>g, <1>p, <2>1, <2>2, <2>3, <2>4 DEF Grows
<1>7. FilesKnown'
  <2>1. Steady => \A i \in Inode : file'[i].kind # "corrupt"
    BY <1>1, <1>f, <1>t DEF FilesKnown
  <2>2. \A i \in Inode : i >= fresh' => file'[i] = Empty
    BY <1>8
  <2> QED BY <1>5, <1>f, <1>g, <2>1, <2>2 DEF FilesKnown
<1> QED BY <1>2, <1>3, <1>4, <1>5, <1>6, <1>7

LEMMA VacuumRenameKnows ==
  ASSUME IInv, NEW s \in Shell, VacuumRename(s)
  PROVE  IInv'
<1>f. /\ Types /\ sh[s] \in Memories /\ sh \in [Shell -> Memories] /\ sh[s].vac \in Vacuums
      /\ VacuumKeeps(s) /\ Guarded(s) /\ OwnKept(s) /\ holder \in [Inode -> Shell \cup {NoShell}]
  BY ShellTells DEF Types, Memories
<1>g. /\ sh[s].pc = "vac_rename" /\ Building(s) /\ Built(s) /\ ~Unsettled(s)
      /\ UNCHANGED <<world, aside, log, durable, raced>>
      /\ fresh <= MaxFile /\ dataPath' = fresh /\ fresh' = fresh + 1
      /\ holder' = Unlocked(s)
  BY DEF VacuumRename, Building, Built, Unsettled
<1> DEFINE f == [kind |-> "ours", cmds |-> sh[s].vac.merged]
<1>1. f \in [kind : {"ours", "foreign"}, cmds : SUBSET Command]
      /\ file' = [file EXCEPT ![fresh] = f] /\ f.cmds = sh[s].vac.merged /\ f.kind = "ours"
  BY <1>f DEF VacuumRename, Vacuums
<1> HIDE DEF f
<1>r. Replacing(f)
  BY <1>1, <1>g DEF Replacing
<1>2. Safe' = Safe /\ Safe \subseteq f.cmds \cup Aside /\ InLog' = InLog
  BY <1>1, <1>f, <1>g DEF Safe, VacuumKeeps, InLog
<1>3. Steady /\ LocksWork => /\ OnPath \subseteq f.cmds /\ dataPath \in Inode
                             /\ holder[dataPath] = s
  BY <1>1, <1>f, <1>g DEF Guarded, OnPath
<1>4. /\ Grows /\ FilesKnown' /\ OnPath' = f.cmds /\ Aside' = Aside
      /\ Steady' = Steady /\ LocksWork' = LocksWork
      /\ file' \in [Inode -> [kind : {"ours", "foreign", "corrupt"}, cmds : SUBSET Command]]
  <2>1. KeepsWhatWasThere(f)
    BY <1>1, <1>2, <1>3 DEF KeepsWhatWasThere
  <2> QED BY <1>1, <1>r, <2>1, Replaced
<1>p. /\ fresh' \in 1..(MaxFile + 1) /\ dataPath' \in {NoFile} \cup 0..(fresh' - 1)
      /\ aside' \subseteq 0..(fresh' - 1)
  BY <1>r, ReplacedPath
<1>5. (Safe \subseteq InLog \cup Aside \cup OnPath)'
  BY <1>2, <1>4
<1> DEFINE v == [NoVacuum EXCEPT !.len = sh[s].vac.len]
           m == [sh[s] EXCEPT !.pc = "vac_check", !.vac = v]
<1>v. v \in Vacuums
  BY <1>f, NoVacuumType DEF Vacuums
<1>e. m = [sh[s] EXCEPT !.pc = "vac_check", !.vac = v]
  OBVIOUS
<1>6. sh' = Notified([sh EXCEPT ![s] = m])
  BY <1>f DEF VacuumRename
<1> HIDE DEF v
<1>m. m \in Memories
  BY <1>f, <1>v DEF Memories, Pcs
<1> HIDE DEF m
<1>7. sh' \in [Shell -> Memories] /\ (\A q \in Shell \ {s} : Same(q)) /\ Becomes(s, m)
  BY <1>6, <1>f, <1>m, AfterTells
<1>n. /\ sh'[s].pc = "vac_check" /\ sh'[s].items = sh[s].items
      /\ sh'[s].unwritten = sh[s].unwritten /\ sh'[s].own = sh[s].own
      /\ sh'[s].mapped = sh[s].mapped /\ sh'[s].dataId = sh[s].dataId
      /\ sh'[s].untouchable = sh[s].untouchable /\ sh'[s].abandoned = sh[s].abandoned
  BY <1>7, <1>e, <1>f DEF Becomes, Memories
<1>8. Types'
  BY <1>4, <1>7, <1>f, <1>g, <1>p, UnlockedTells DEF Types
<1>9. ShellKnown(s)'
  <2>0. ~Building(s)' /\ ~Built(s)' /\ Safe' \subseteq Aside' \cup OnPath'
    BY <1>2, <1>4, <1>n DEF Building, Built
  <2>1. VacuumKeeps(s)'
    BY <2>0 DEF VacuumKeeps
  <2>2. Guarded(s)'
    <3>1. (LocksWork => ~sh[s].abandoned)'
      BY <1>4, <1>f, <1>n DEF Guarded
    <3> QED BY <1>n, <2>0, <3>1 DEF Guarded
  <2>3. MappingKnown(s)' /\ OnMapping(s)' = OnMapping(s)
    BY <1>4, <1>8, <1>g, <1>n, MappingGrows
  <2>4. ItemsKnown(s)' /\ ItemCmds(s)' = ItemCmds(s)
    BY <1>g, <1>n, ItemsStay DEF Doing
  <2>5. ItemCmds(s)' \ Secret \subseteq OnPath'
    BY <1>1, <1>4, <1>f, <1>g, <2>4 DEF OwnKept, VacuumKeeps
  <2>6. OwnKept(s)'
    BY <1>4, <1>g, <1>n, <2>0, <2>3, <2>4, <2>5, OwnGrows
  <2> QED BY <2>1, <2>2, <2>3, <2>4, <2>6 DEF ShellKnown
<1>10. \A q \in Shell \ {s} : Steady /\ LocksWork /\ sh[q].pc = "vac_rename" =>
                                dataPath' = dataPath /\ holder'[dataPath] = q
  <2> SUFFICES ASSUME NEW q \in Shell \ {s}, Steady, LocksWork, sh[q].pc = "vac_rename"
               PROVE  FALSE
    OBVIOUS
  <2>1. holder[dataPath] = q
    BY ShellTells DEF Guarded
  <2> QED BY <1>3, <2>1
<1>11. \A q \in Shell \ {s} : InVacuum(q) => Safe' \subseteq Safe
  BY <1>2
<1> QED BY <1>4, <1>5, <1>7, <1>8, <1>9, <1>10, <1>11, LoudStep

LEMMA BootType ==
  Boot \in Memories
BY NoVacuumType, NothingIsASeq DEF Boot, Memories, Pcs, Paths

LEMMA BootKnown ==
  ASSUME NEW s \in Shell, Types, sh[s] = Boot
  PROVE  ShellKnown(s)
<1>1. /\ sh[s].pc = "dead" /\ sh[s].items = <<>> /\ sh[s].unwritten = 0
      /\ sh[s].mapped = NoFile /\ sh[s].dataId = NoFile /\ ~sh[s].abandoned
      /\ sh[s].own = {} /\ DOMAIN sh[s].items = {} /\ Len(sh[s].items) = 0
  BY DEF Boot
<1>2. VacuumKeeps(s) /\ Guarded(s)
  BY <1>1 DEF VacuumKeeps, Guarded, Building, Built
<1>3. MappingKnown(s)
  BY <1>1 DEF MappingKnown, Unsettled
<1>4. ItemsKnown(s)
  BY <1>1 DEF ItemsKnown, Doing
<1>5. OwnKept(s)
  BY <1>1 DEF OwnKept, Building
<1> QED BY <1>2, <1>3, <1>4, <1>5 DEF ShellKnown

LEMMA CrashKnows ==
  ASSUME IInv, NEW s \in Shell, Crash(s)
  PROVE  IInv'
<1>f. Types /\ sh \in [Shell -> Memories]
  BY ShellTells
<1>g. Seated /\ UNCHANGED <<aside, log, durable, raced>> /\ holder' = Unlocked(s)
  BY DEF Crash, Seated, disk
<1>n. sh' \in [Shell -> Memories] /\ OnlyOf(s) /\ sh'[s] = Boot
  <2>1. sh' = [sh EXCEPT ![s] = Boot]
    BY DEF Crash
  <2> QED BY <1>f, <2>1, BootType, OneShell
<1>h. /\ holder' \in [Inode -> Shell \cup {NoShell}]
      /\ \A q \in Shell \ {s} : dataPath # NoFile /\ holder[dataPath] = q => holder'[dataPath] = q
  BY <1>f, <1>g, UnlockedTells, PathTells
<1>1. Types'
  BY <1>f, <1>g, <1>h, <1>n DEF Types, Seated
<1>2. ShellKnown(s)'
  <2>1. /\ sh'[s].pc = "dead" /\ sh'[s].items = <<>> /\ sh'[s].unwritten = 0
        /\ sh'[s].mapped = NoFile /\ sh'[s].dataId = NoFile /\ ~sh'[s].abandoned
        /\ sh'[s].own = {} /\ DOMAIN sh'[s].items = {} /\ Len(sh'[s].items) = 0
    BY <1>n DEF Boot
  <2>2. VacuumKeeps(s)' /\ Guarded(s)'
    BY <2>1 DEF VacuumKeeps, Guarded, Building, Built
  <2>3. MappingKnown(s)'
    BY <2>1 DEF MappingKnown, Unsettled
  <2>4. ItemsKnown(s)'
    BY <2>1 DEF ItemsKnown, Doing
  <2>5. OwnKept(s)'
    BY <2>1 DEF OwnKept, Building
  <2> QED BY <2>2, <2>3, <2>4, <2>5 DEF ShellKnown
<1> QED BY <1>2, <1>g, <1>h, <1>n, LockStep

LEMMA ForeignArrivesKnows ==
  ASSUME IInv, ForeignArrives
  PROVE  IInv'
<1>f. /\ Types /\ sh \in [Shell -> Memories] /\ dataPath \in Paths
      /\ file \in [Inode -> [kind : {"ours", "foreign", "corrupt"}, cmds : SUBSET Command]]
      /\ (dataPath # NoFile => dataPath \in Inode)
  BY PathTells DEF IInv, Types
<1>g. /\ UNCHANGED <<world, aside, log, holder, durable, raced>>
      /\ fresh <= MaxFile /\ dataPath' = fresh /\ fresh' = fresh + 1
      /\ "foreign file" \in world.faults /\ (dataPath # NoFile => holder[dataPath] = NoShell)
      /\ sh' = Notified(sh)
  BY DEF ForeignArrives, May
<1>1. PICK f \in [kind : {"ours", "foreign"}, cmds : SUBSET Command] :
        file' = [file EXCEPT ![fresh] = f] /\ f.cmds = OnPath
  <2> DEFINE f == [kind |-> "foreign", cmds |-> OnPath]
  <2>1. OnPath \subseteq Command
    BY <1>f DEF OnPath
  <2>2. file' = [file EXCEPT ![fresh] = f]
    BY DEF ForeignArrives, OnPath
  <2>3. f \in [kind : {"ours", "foreign"}, cmds : SUBSET Command] /\ f.cmds = OnPath
    BY <2>1
  <2> HIDE DEF f
  <2> QED BY <2>2, <2>3
<1>r. Replacing(f)
  BY <1>1, <1>g DEF Replacing
<1>2. Safe' = Safe /\ InLog' = InLog
  BY <1>g DEF Safe, InLog
<1>3. /\ Grows /\ FilesKnown' /\ OnPath' = f.cmds /\ Aside' = Aside
      /\ file' \in [Inode -> [kind : {"ours", "foreign", "corrupt"}, cmds : SUBSET Command]]
  <2>1. KeepsWhatWasThere(f)
    BY <1>1, <1>2, <1>g DEF KeepsWhatWasThere
  <2> QED BY <1>1, <1>r, <2>1, Replaced
<1>p. /\ fresh' \in 1..(MaxFile + 1) /\ dataPath' \in {NoFile} \cup 0..(fresh' - 1)
      /\ aside' \subseteq 0..(fresh' - 1)
  BY <1>r, ReplacedPath
<1>4. (Safe \subseteq InLog \cup Aside \cup OnPath)'
  BY <1>1, <1>2, <1>3 DEF IInv
<1>5. sh' \in [Shell -> Memories] /\ \A q \in Shell : Same(q)
  BY <1>f, <1>g, NotifiedTells DEF Same
<1>6. Types'
  BY <1>3, <1>5, <1>f, <1>g, <1>p DEF Types
<1>7. ASSUME NEW q \in Shell PROVE ShellKnown(q)'
  <2>1. SameMemory(q)
    BY <1>5, <1>f, SameTells
  <2>2. ASSUME Steady, LocksWork, sh[q].pc = "vac_rename" PROVE FALSE
    <3>1. holder[dataPath] = q /\ dataPath # NoFile
      BY <2>2, ShellTells DEF Guarded, Built
    <3> QED BY <1>g, <3>1, HistoryAssumption
  <2>3. InVacuum(q) => Safe' \subseteq Safe
    BY <1>2
  <2> QED BY <1>3, <1>6, <2>1, <2>2, <2>3, OthersKnow
<1> QED BY <1>3, <1>4, <1>6, <1>7 DEF IInv

LEMMA StandStill ==
  ASSUME IInv, UNCHANGED vars
  PROVE  IInv'
<1>1. Still /\ sh' = sh
  BY DEF vars, disk, Still
<1>2. Types' /\ FilesKnown'
  BY <1>1, StillTells DEF IInv, Types, FilesKnown, Still
<1>3. (Safe \subseteq InLog \cup Aside \cup OnPath)'
  BY <1>1, StillTells DEF IInv
<1>4. ASSUME NEW q \in Shell PROVE ShellKnown(q)'
  <2>1. Types /\ SameMemory(q)
    BY <1>1, SameTells DEF IInv, Same
  <2>2. Grows /\ Safe' \subseteq Safe
    BY <1>1, <2>1, StillGrows, StillTells
  <2>3. Steady /\ LocksWork /\ sh[q].pc = "vac_rename" =>
          dataPath' = dataPath /\ holder'[dataPath] = q
    BY <1>1, ShellTells DEF Guarded, Still
  <2> QED BY <1>2, <2>1, <2>2, <2>3, OthersKnow
<1> QED BY <1>2, <1>3, <1>4 DEF IInv

-----------------------------------------------------------------------------
(* The invariant and what it says.                                         *)

LEMMA InitKnows ==
  ASSUME Init
  PROVE  IInv
<1>1. PICK kind \in world.kinds :
        \E cmds \in {{}} \cup (IF kind = "ours"
                       THEN {{c} : c \in world.commands \ Secret} ELSE {}) :
         /\ dataPath = IF kind = "absent" THEN NoFile ELSE 0
         /\ file = [i \in Inode |->
                      IF i = 0 /\ kind # "absent"
                      THEN [kind |-> kind, cmds |-> cmds] ELSE Empty]
         /\ durable = cmds
  BY DEF Init
<1>2. PICK cmds \in {{}} \cup (IF kind = "ours"
                       THEN {{c} : c \in world.commands \ Secret} ELSE {}) :
         /\ dataPath = IF kind = "absent" THEN NoFile ELSE 0
         /\ file = [i \in Inode |->
                      IF i = 0 /\ kind # "absent"
                      THEN [kind |-> kind, cmds |-> cmds] ELSE Empty]
         /\ durable = cmds
  BY <1>1
<1>3. /\ world \in Worlds /\ fresh = 1 /\ aside = {} /\ log = <<>>
      /\ holder = [i \in Inode |-> NoShell] /\ sh = [s \in Shell |-> Boot] /\ raced = {}
  BY DEF Init
<1>4. kind \in {"absent", "ours", "foreign", "corrupt"} /\ world.commands \subseteq Command
  BY <1>1, <1>3, HistoryAssumption
<1>5. cmds \subseteq Command /\ (kind = "absent" => cmds = {})
  BY <1>2, <1>4
<1>6. \A i \in Inode : /\ file[i] \in [kind : {"ours", "foreign", "corrupt"}, cmds : SUBSET Command]
                       /\ (i >= 1 => file[i] = Empty)
                       /\ (kind # "corrupt" => file[i].kind # "corrupt")
  <2> TAKE i \in Inode
  <2>1. CASE i = 0 /\ kind # "absent"
    <3>1. file[i] = [kind |-> kind, cmds |-> cmds]
      BY <1>2, <2>1
    <3>2. ~(i >= 1)
      BY <2>1
    <3> QED BY <1>4, <1>5, <2>1, <3>1, <3>2
  <2>2. CASE ~(i = 0 /\ kind # "absent")
    <3>1. file[i] = Empty
      BY <1>2, <2>2
    <3> QED BY <3>1 DEF Empty
  <2> QED BY <2>1, <2>2
<1>7. Types
  <2>1. MaxFile \in Nat /\ 0 \in Inode
    BY HistoryAssumption DEF Inode
  <2>2. file \in [Inode -> [kind : {"ours", "foreign", "corrupt"}, cmds : SUBSET Command]]
    BY <1>2, <1>6
  <2>3. sh \in [Shell -> Memories]
    BY <1>3, BootType
  <2>4. fresh \in 1..(MaxFile + 1) /\ dataPath \in {NoFile} \cup 0..(fresh - 1)
        /\ aside \subseteq 0..(fresh - 1)
    BY <1>2, <1>3, <2>1
  <2>5. log \in Seq(Command \cup {Torn})
    BY <1>3, NothingIsASeq
  <2> QED BY <1>2, <1>3, <1>5, <2>2, <2>3, <2>4, <2>5 DEF Types
<1>8. FilesKnown
  <2>1. Steady => kind # "corrupt"
    BY <1>1 DEF Steady
  <2> QED BY <1>3, <1>6, <2>1 DEF FilesKnown
<1>9. Safe \subseteq OnPath
  <2>1. CASE kind = "absent"
    BY <1>2, <1>5, <2>1 DEF Safe
  <2>2. CASE kind # "absent"
    <3>1. dataPath = 0 /\ 0 \in Inode /\ 0 # NoFile
      BY <1>2, <2>2, HistoryAssumption DEF Inode
    <3>2. file[0] = [kind |-> kind, cmds |-> cmds]
      BY <1>2, <2>2, <3>1
    <3> QED BY <1>2, <3>1, <3>2 DEF Safe, OnPath
  <2> QED BY <2>1, <2>2
<1>10. \A s \in Shell : ShellKnown(s)
  BY <1>3, <1>7, BootKnown
<1> QED BY <1>7, <1>8, <1>9, <1>10 DEF IInv

LEMMA StepKnows ==
  ASSUME IInv, [Next]_vars
  PROVE  IInv'
<1>1. ASSUME NEW s \in Shell, NEW c \in world.commands, Add(s, c) PROVE IInv'
  BY <1>1, AddKnows
<1>2. ASSUME NEW s \in Shell, Advance(s) PROVE IInv'
  BY <1>2, BootMapKnows, BootLogKnows, RemapKnows, FlushItemKnows, CountKnows,
     VacuumReadKnows, VacuumBuildKnows, VacuumOpenKnows, VacuumLockKnows,
     VacuumAsideKnows, VacuumRenameKnows, VacuumCheckKnows, VacuumTruncateKnows,
     VacuumForgetKnows, VacuumMapKnows, VacuumLogKnows
  DEF Advance
<1>3. ASSUME NEW s \in Shell, Start(s) \/ DrainWatch(s) \/ Resolve(s) \/ Crash(s) PROVE IInv'
  BY <1>3, StartKnows, DrainWatchKnows, ResolveKnows, CrashKnows
<1>4. CASE ForeignArrives
  BY <1>4, ForeignArrivesKnows
<1>5. CASE Rest \/ UNCHANGED vars
  BY <1>5, StandStill DEF Rest
<1> QED BY <1>1, <1>2, <1>3, <1>4, <1>5 DEF Next

(* What the disk holds, what a vacuum is about to drop, what the lock      *)
(* stands for, and what a shell maps, at every moment of every execution.  *)
THEOREM HistoryInvariant == Spec => []IInv
<1>1. Init => IInv
  BY InitKnows
<1>2. IInv /\ [Next]_vars => IInv'
  BY StepKnows
<1> QED BY <1>1, <1>2, PTL DEF Spec

(* Only a command appended while a sibling was in its vacuum can be lost,  *)
(* whatever crashes, whoever rewrites and whichever lock is refused.       *)
THEOREM UnracedIsKept == Spec => []OnlyRacedFramesAreLost
<1>1. IInv => OnlyRacedFramesAreLost
  <2> SUFFICES ASSUME IInv PROVE Safe \subseteq OnDisk
    BY DEF OnlyRacedFramesAreLost, Safe
  <2>1. Aside \subseteq OnDisk /\ OnPath \subseteq OnDisk /\ InLog \subseteq OnDisk
    BY DEF Aside, OnPath, OnDisk
  <2> QED BY <2>1 DEF IInv
<1> QED BY <1>1, HistoryInvariant, PTL

LEMMA WorldStays ==
  ASSUME [Next]_vars
  PROVE  world' = world
<1>1. ASSUME NEW s \in Shell, NEW c \in world.commands, Add(s, c) PROVE world' = world
  BY <1>1 DEF Add
<1>2. ASSUME NEW s \in Shell, Advance(s) PROVE world' = world
  <2>1. CASE VacuumLock(s)
    BY <2>1 DEF VacuumLock
  <2>2. CASE VacuumBuild(s)
    BY <2>2 DEF VacuumBuild
  <2>3. CASE FlushItem(s)
    BY <2>3 DEF FlushItem
  <2>4. CASE BootMap(s) \/ BootLog(s) \/ Remap(s) \/ Count(s) \/ VacuumRead(s) \/ VacuumOpen(s)
    BY <2>4 DEF BootMap, BootLog, Remap, Count, VacuumRead, VacuumOpen
  <2>5. CASE VacuumAside(s) \/ VacuumRename(s) \/ VacuumCheck(s) \/ VacuumTruncate(s)
    BY <2>5 DEF VacuumAside, VacuumRename, VacuumCheck, VacuumTruncate
  <2>6. CASE VacuumForget(s) \/ VacuumMap(s) \/ VacuumLog(s)
    BY <2>6 DEF VacuumForget, VacuumMap, VacuumLog
  <2> QED BY <1>2, <2>1, <2>2, <2>3, <2>4, <2>5, <2>6 DEF Advance
<1>3. ASSUME NEW s \in Shell, Start(s) \/ DrainWatch(s) \/ Resolve(s) \/ Crash(s)
      PROVE  world' = world
  BY <1>3 DEF Start, DrainWatch, Resolve, Crash
<1>4. CASE ForeignArrives
  BY <1>4 DEF ForeignArrives
<1>5. CASE Rest \/ UNCHANGED vars
  BY <1>5 DEF Rest, vars
<1> QED BY <1>1, <1>2, <1>3, <1>4, <1>5 DEF Next

(* With tier 1 readable from the start, a session sees what it resolved,   *)
(* and a mapping that is out of date is noticed at the next look.          *)
THEOREM ViewStaysUp == Spec /\ Steady => []ViewKeepsUp
<1>1. IInv /\ Steady => ViewKeepsUp
  <2> SUFFICES ASSUME IInv, Steady PROVE ViewKeepsUp
    OBVIOUS
  <2>1. OwnCommandsVisible
    <3> SUFFICES ASSUME NEW s \in Shell, LocksWork, sh[s].pc = "idle", ~sh[s].untouchable
                 PROVE  sh[s].own \subseteq ViewOf(sh[s])
      BY DEF OwnCommandsVisible
    <3>1. sh[s].own \subseteq ItemCmds(s) \cup OnMapping(s)
      BY ShellTells DEF OwnKept, Unsettled
    <3>2. \A i \in DOMAIN sh[s].items : ~sh[s].items[i].pending
      BY ShellTells DEF ItemsKnown, Doing
    <3> QED BY <3>1, <3>2 DEF ViewOf, ItemCmds, OnMapping
  <2>2. StaleMappingIsNoticeable
    <3> SUFFICES ASSUME NEW s \in Shell, sh[s].pc \in {"idle", "exec"},
                        sh[s].dataId = dataPath
                 PROVE  sh[s].mapped = Maps(dataPath)
      BY DEF StaleMappingIsNoticeable, Maps
    <3>1. PICK p \in Paths : /\ At(sh[s].dataId) <= At(p) /\ At(p) <= At(dataPath)
                             /\ sh[s].mapped = Maps(p)
      BY ShellTells DEF MappingKnown, Unsettled
    <3>2. At(p) = At(dataPath) /\ dataPath \in Paths
      <4>1. At(p) \in Int /\ At(dataPath) \in Int /\ dataPath \in Paths
        BY PathTells DEF IInv
      <4> QED BY <3>1, <4>1
    <3>3. p = dataPath
      BY <3>2, HistoryAssumption DEF At, Paths, Inode
    <3> QED BY <3>1, <3>3
  <2> QED BY <2>1, <2>2 DEF ViewKeepsUp
<1>2. Steady /\ [Next]_vars => Steady'
  BY WorldStays DEF Steady
<1> QED BY <1>1, <1>2, HistoryInvariant, PTL DEF Spec

-----------------------------------------------------------------------------
(* What may be put in the place of a file.                                 *)

Replaceable == Steady /\ (LocksWork \/ "foreign file" \notin world.faults)
Merges ==
  dataPath # NoFile =>
    /\ LocksWork /\ dataPath' # NoFile => file[dataPath].cmds \subseteq file'[dataPath'].cmds
    /\ file[dataPath].kind = "foreign" => dataPath' = dataPath

LEMMA SameFileMerges ==
  ASSUME dataPath # NoFile => dataPath' = dataPath /\ file' = file
  PROVE  Merges
BY DEF Merges

LEMMA RenameMerges ==
  ASSUME IInv, Replaceable, NEW s \in Shell, VacuumRename(s)
  PROVE  Merges
<1>g. /\ sh[s].pc = "vac_rename" /\ Built(s) /\ Guarded(s) /\ Types /\ FilesKnown
      /\ dataPath' = fresh
           /\ file' = [file EXCEPT ![fresh] = [kind |-> "ours", cmds |-> sh[s].vac.merged]]
  BY ShellTells DEF VacuumRename, Built, IInv
<1>1. fresh \in Inode /\ fresh <= MaxFile
  BY <1>g, PathTells DEF VacuumRename, Inode
<1>2. file'[dataPath'].cmds = sh[s].vac.merged
  BY <1>1, <1>g DEF Types
<1>3. LocksWork => dataPath = sh[s].vac.before /\ file[dataPath].cmds \subseteq sh[s].vac.merged
                   /\ file[dataPath].kind # "foreign"
  BY <1>g DEF Guarded, Replaceable
<1>4. ~LocksWork /\ dataPath # NoFile => file[dataPath].kind # "foreign"
  BY <1>g DEF Guarded, Replaceable
<1> QED BY <1>2, <1>3, <1>4 DEF Merges

LEMMA ForeignMerges ==
  ASSUME IInv, ForeignArrives
  PROVE  Merges
<1>g. /\ Types /\ dataPath' = fresh
      /\ file' = [file EXCEPT ![fresh] =
           [kind |-> "foreign", cmds |-> IF dataPath = NoFile THEN {} ELSE file[dataPath].cmds]]
      /\ dataPath # NoFile => file[dataPath].kind = "ours"
  BY DEF ForeignArrives, IInv
<1>1. fresh \in Inode
  <2>1. fresh <= MaxFile
    BY DEF ForeignArrives
  <2>2. fresh \in Nat /\ MaxFile \in Nat
    BY <1>g, PathTells
  <2> QED BY <2>1, <2>2 DEF Inode
<1>2. dataPath # NoFile => file'[dataPath'].cmds = file[dataPath].cmds
  BY <1>1, <1>g DEF Types
<1> QED BY <1>2, <1>g DEF Merges

LEMMA StepMerges ==
  ASSUME IInv, Replaceable, [Next]_vars
  PROVE  Merges
<1>1. ASSUME NEW s \in Shell, NEW c \in world.commands, Add(s, c) PROVE Merges
  BY <1>1, SameFileMerges DEF Add, disk
<1>2. ASSUME NEW s \in Shell, Advance(s) PROVE Merges
  <2>1. CASE VacuumAside(s)
    BY <2>1, ShellTells DEF VacuumAside, Guarded, Built, Replaceable
  <2>2. CASE VacuumRename(s)
    BY <2>2, RenameMerges
  <2>3. CASE VacuumBuild(s)
    BY <2>3, OpenGrows, SameFileMerges
  <2>4. CASE FlushItem(s)
    BY <2>4, SameFileMerges DEF FlushItem
  <2>5. CASE VacuumTruncate(s)
    BY <2>5, SameFileMerges DEF VacuumTruncate
  <2>6. CASE BootMap(s) \/ BootLog(s) \/ Remap(s) \/ Count(s) \/ VacuumRead(s) \/ VacuumOpen(s)
    BY <2>6, SameFileMerges DEF disk, BootMap, BootLog, Remap, Count, VacuumRead, VacuumOpen
  <2>7. CASE VacuumLock(s) \/ VacuumCheck(s) \/ VacuumForget(s) \/ VacuumMap(s) \/ VacuumLog(s)
    BY <2>7, SameFileMerges
    DEF disk, VacuumLock, VacuumCheck, VacuumForget, VacuumMap, VacuumLog
  <2> QED BY <1>2, <2>1, <2>2, <2>3, <2>4, <2>5, <2>6, <2>7 DEF Advance
<1>3. ASSUME NEW s \in Shell, Start(s) \/ DrainWatch(s) \/ Resolve(s) \/ Crash(s) PROVE Merges
  BY <1>3, SameFileMerges DEF disk, Start, DrainWatch, Resolve, Crash
<1>4. CASE ForeignArrives
  BY <1>4, ForeignMerges
<1>5. CASE Rest \/ UNCHANGED vars
  BY <1>5, SameFileMerges DEF Rest, vars, disk
<1> QED BY <1>1, <1>2, <1>3, <1>4, <1>5 DEF Next

(* Where tier 1 is readable from the start, and locks are granted or no    *)
(* other program writes it, a rename merges what it replaces, and a file   *)
(* in another format stays.                                                *)
THEOREM RenamesMerge == Spec /\ Replaceable => RenameMergesWhatItReplaces
<1>1. IInv /\ Replaceable /\ [Next]_vars => Merges
  BY StepMerges
<1>2. Replaceable /\ [Next]_vars => Replaceable'
  BY WorldStays DEF Replaceable, Steady, LocksWork
<1> QED BY <1>1, <1>2, HistoryInvariant, PTL DEF Spec, RenameMergesWhatItReplaces, Merges
=====
