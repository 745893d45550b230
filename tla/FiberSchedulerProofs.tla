------------------------ MODULE FiberSchedulerProofs ------------------------
(***************************************************************************)
(* The scheduler's safety, for every set of fibers and of groups: type     *)
(* correctness, the exactness of the ready list and of the wake queue, the *)
(* single runner, the agreement of the counters with the fibers, and the   *)
(* refinement of FiberWakes.                                               *)
(***************************************************************************)
EXTENDS FiberScheduler, FiniteSetTheorems, SequenceTheorems, TLAPS

-----------------------------------------------------------------------------
(* Sequences without repetitions *)

(* Appending an element a list does not hold keeps it free of repeats. *)
LEMMA AppendFresh ==
  ASSUME NEW S, NEW s \in Seq(S), NEW e \in S
  PROVE  /\ Append(s, e) \in Seq(S)
         /\ ToSet(Append(s, e)) = ToSet(s) \cup {e}
         /\ NoRepeats(s) /\ e \notin ToSet(s) => NoRepeats(Append(s, e))
<1>1. /\ Append(s, e) \in Seq(S)
      /\ Len(Append(s, e)) = Len(s) + 1
      /\ \A i \in 1..Len(s) : Append(s, e)[i] = s[i]
      /\ Append(s, e)[Len(s) + 1] = e
      /\ DOMAIN s = 1..Len(s) /\ Len(s) \in Nat
      /\ DOMAIN Append(s, e) = 1..(Len(s) + 1)
  BY AppendProperties, LenProperties
<1>2. ToSet(Append(s, e)) = ToSet(s) \cup {e}
  BY <1>1 DEF ToSet
<1>3. ASSUME NoRepeats(s), e \notin ToSet(s)
      PROVE  NoRepeats(Append(s, e))
  BY <1>1, <1>3 DEF NoRepeats, ToSet
<1> QED BY <1>1, <1>2, <1>3

(* Where a position is cut out, the elements after it move down by one. *)
LEMMA RemoveAtIndices ==
  ASSUME NEW S, NEW s \in Seq(S), NEW i \in DOMAIN s
  PROVE  /\ RemoveAt(s, i) \in Seq(S) /\ Len(RemoveAt(s, i)) = Len(s) - 1
         /\ DOMAIN RemoveAt(s, i) = 1..(Len(s) - 1)
         /\ \A j \in 1..(Len(s) - 1) :
              RemoveAt(s, i)[j] = IF j < i THEN s[j] ELSE s[j + 1]
<1> DEFINE a == SubSeq(s, 1, i - 1)
           b == SubSeq(s, i + 1, Len(s))
<1>1. DOMAIN s = 1..Len(s) /\ Len(s) \in Nat /\ i \in 1..Len(s)
  BY LenProperties
<1>2. /\ a \in Seq(S) /\ Len(a) = i - 1
      /\ \A j \in 1..(i - 1) : a[j] = s[j]
  <2>1. \A j \in 1..(i - 1) : s[j] \in S  BY <1>1, ElementOfSeq
  <2> QED BY <2>1, <1>1, SubSeqProperties
<1>3. /\ b \in Seq(S) /\ Len(b) = Len(s) - i
      /\ \A j \in 1..(Len(s) - i) : b[j] = s[i + j]
  <2>1. \A j \in (i + 1)..Len(s) : s[j] \in S  BY <1>1, ElementOfSeq
  <2>2. /\ b \in Seq(S)
        /\ Len(b) = IF i + 1 <= Len(s) THEN Len(s) - (i + 1) + 1 ELSE 0
        /\ \A j \in 1..(Len(s) - (i + 1) + 1) : b[j] = s[(i + 1) + j - 1]
    BY <2>1, <1>1, SubSeqProperties
  <2> HIDE DEF b
  <2>3. ASSUME NEW j \in 1..(Len(s) - i) PROVE b[j] = s[i + j]
    <3>1. j \in 1..(Len(s) - (i + 1) + 1) /\ (i + 1) + j - 1 = i + j  BY <1>1
    <3> QED BY <2>2, <3>1
  <2>4. Len(b) = Len(s) - i  BY <2>2, <1>1
  <2> QED BY <2>2, <2>3, <2>4
<1> DEFINE r == RemoveAt(s, i)
<1>4. /\ r \in Seq(S) /\ Len(r) = Len(s) - 1 /\ DOMAIN r = 1..(Len(s) - 1)
      /\ \A j \in 1..(Len(s) - 1) : r[j] = IF j < i THEN s[j] ELSE s[j + 1]
  <2>1. r = a \o b  BY DEF RemoveAt
  <2>2. /\ a \o b \in Seq(S) /\ Len(a \o b) = Len(a) + Len(b)
        /\ \A j \in 1..(Len(a) + Len(b)) :
             (a \o b)[j] = IF j <= Len(a) THEN a[j] ELSE b[j - Len(a)]
    <3> HIDE DEF a, b
    <3> QED BY <1>2, <1>3, ConcatProperties
  <2>3. DOMAIN (a \o b) = 1..Len(a \o b)  BY <2>2, LenProperties
  <2> HIDE DEF a, b, r
  <2>4. Len(a) + Len(b) = Len(s) - 1  BY <1>1, <1>2, <1>3
  <2>5. ASSUME NEW j \in 1..(Len(s) - 1)
        PROVE  r[j] = IF j < i THEN s[j] ELSE s[j + 1]
    <3>1. r[j] = IF j <= Len(a) THEN a[j] ELSE b[j - Len(a)]
      BY <2>1, <2>2, <2>4
    <3>2. CASE j < i  BY <3>1, <3>2, <1>1, <1>2
    <3>3. CASE ~(j < i)
      <4>1. j - Len(a) \in 1..(Len(s) - i) /\ i + (j - Len(a)) = j + 1
        BY <1>1, <1>2, <3>3
      <4>2. b[j - Len(a)] = s[i + (j - Len(a))]  BY <4>1, <1>3
      <4>3. b[j - Len(a)] = s[j + 1]  BY <4>1, <4>2
      <4>4. ~(j <= Len(a))  BY <1>1, <1>2, <3>3
      <4> QED BY <4>3, <4>4, <3>1, <3>3
    <3> QED BY <3>2, <3>3
  <2> QED BY <2>1, <2>2, <2>3, <2>4, <2>5
<1> QED BY <1>4 DEF r

(* Unlinking one position removes exactly its element and repeats none. *)
LEMMA RemoveAtProperties ==
  ASSUME NEW S, NEW s \in Seq(S), NEW i \in DOMAIN s, NoRepeats(s)
  PROVE  /\ RemoveAt(s, i) \in Seq(S)
         /\ ToSet(RemoveAt(s, i)) = ToSet(s) \ {s[i]}
         /\ NoRepeats(RemoveAt(s, i))
<1> DEFINE r == RemoveAt(s, i)
<1>1. DOMAIN s = 1..Len(s) /\ Len(s) \in Nat /\ i \in 1..Len(s)
  BY LenProperties
<1>4. /\ r \in Seq(S) /\ Len(r) = Len(s) - 1 /\ DOMAIN r = 1..(Len(s) - 1)
      /\ \A j \in 1..(Len(s) - 1) : r[j] = IF j < i THEN s[j] ELSE s[j + 1]
  BY RemoveAtIndices
<1> HIDE DEF r
<1>5. ToSet(r) = ToSet(s) \ {s[i]}
  <2>1. ASSUME NEW x \in ToSet(r) PROVE x \in ToSet(s) \ {s[i]}
    <3>1. PICK j \in 1..(Len(s) - 1) : r[j] = x  BY <1>4 DEF ToSet
    <3>2. CASE j < i  BY <1>1, <1>4, <3>1, <3>2 DEF ToSet, NoRepeats
    <3>3. CASE ~(j < i)
      <4>1. j + 1 \in DOMAIN s /\ x = s[j + 1] /\ j + 1 # i
        BY <1>1, <1>4, <3>1, <3>3
      <4> QED BY <4>1, <1>1 DEF ToSet, NoRepeats
    <3> QED BY <3>2, <3>3
  <2>2. ASSUME NEW x \in ToSet(s) \ {s[i]} PROVE x \in ToSet(r)
    <3>1. PICK k \in DOMAIN s : s[k] = x  BY DEF ToSet
    <3>2. CASE k < i
      <4>1. k \in DOMAIN r /\ r[k] = x  BY <1>1, <1>4, <3>1, <3>2
      <4> QED BY <4>1 DEF ToSet
    <3>3. CASE k > i
      <4>1. k - 1 \in DOMAIN r /\ r[k - 1] = x  BY <1>1, <1>4, <3>1, <3>3
      <4> QED BY <4>1 DEF ToSet
    <3> QED BY <1>1, <3>1, <3>2, <3>3
  <2> QED BY <2>1, <2>2
<1>6. NoRepeats(r)
  BY <1>1, <1>4 DEF NoRepeats
<1> QED BY <1>4, <1>5, <1>6 DEF r

(* The position of a member is an index that holds it. *)
LEMMA PositionOfMember ==
  ASSUME NEW s, NEW f \in ToSet(s)
  PROVE  Position(s, f) \in DOMAIN s /\ s[Position(s, f)] = f
BY DEF Position, ToSet

-----------------------------------------------------------------------------
(* The two edits of the ready list *)

(* The linked fibers of a group are finitely many. *)
LEMMA LinkedFinite ==
  ASSUME NEW g, ready \in Seq(Fiber)
  PROVE  IsFiniteSet(LinkedIn(g)) /\ Cardinality(LinkedIn(g)) \in Nat
<1>1. LinkedIn(g) \subseteq Fiber
  BY LenProperties, ElementOfSeq DEF LinkedIn, ToSet
<1> QED BY <1>1, GroupAssumption, FS_Subset, FS_CardinalityType

(* link_ready: the new arrival joins the list and its group's count. *)
LEMMA LinkKeepsList ==
  ASSUME TypeOK, NoRepeats(ready), CountersExact,
         NEW f \in Fiber, f \notin ToSet(ready), link_ready(f)
  PROVE  /\ ready' \in Seq(Fiber) /\ readyIn' \in [Group -> Nat]
         /\ NoRepeats(ready') /\ ToSet(ready') = ToSet(ready) \cup {f}
         /\ CountersExact'
<1>1. /\ ready' \in Seq(Fiber) /\ NoRepeats(ready')
      /\ ToSet(ready') = ToSet(ready) \cup {f}
  BY AppendFresh DEF link_ready, TypeOK
<1>2. GroupOf[f] \in Group  BY GroupAssumption
<1>3. readyIn' \in [Group -> Nat]
  BY <1>2 DEF link_ready, TypeOK
<1>4. ASSUME NEW g \in Group PROVE readyIn'[g] = Cardinality(LinkedIn(g)')
  <2>1. CASE g = GroupOf[f]
    <3>1. LinkedIn(g)' = LinkedIn(g) \cup {f} /\ f \notin LinkedIn(g)
      BY <1>1, <2>1 DEF LinkedIn
    <3>2. Cardinality(LinkedIn(g) \cup {f}) = Cardinality(LinkedIn(g)) + 1
      BY <3>1, LinkedFinite, FS_AddElement DEF TypeOK
    <3> QED BY <1>2, <2>1, <3>1, <3>2 DEF link_ready, CountersExact, TypeOK
  <2>2. CASE g # GroupOf[f]
    <3>1. LinkedIn(g)' = LinkedIn(g)  BY <1>1, <2>2 DEF LinkedIn
    <3> QED BY <2>2, <3>1 DEF link_ready, CountersExact, TypeOK
  <2> QED BY <2>1, <2>2
<1> QED BY <1>1, <1>3, <1>4 DEF CountersExact

(* unlink_ready: exactly the fiber leaves, and its group's count follows. *)
LEMMA UnlinkKeepsList ==
  ASSUME TypeOK, NoRepeats(ready), CountersExact,
         NEW f \in Fiber, f \in ToSet(ready), unlink_ready(f)
  PROVE  /\ ready' \in Seq(Fiber) /\ readyIn' \in [Group -> Nat]
         /\ NoRepeats(ready') /\ ToSet(ready') = ToSet(ready) \ {f}
         /\ CountersExact'
<1> DEFINE i == Position(ready, f)
<1>1. i \in DOMAIN ready /\ ready[i] = f  BY PositionOfMember
<1>2. /\ ready' = RemoveAt(ready, i)
      /\ readyIn' = [readyIn EXCEPT ![GroupOf[f]] = @ - 1]
  BY DEF unlink_ready
<1>3. /\ ready' \in Seq(Fiber) /\ NoRepeats(ready')
      /\ ToSet(ready') = ToSet(ready) \ {f}
  <2> HIDE DEF i
  <2> QED BY <1>1, <1>2, RemoveAtProperties DEF TypeOK
<1>4. GroupOf[f] \in Group  BY GroupAssumption
<1>5. /\ LinkedIn(GroupOf[f])' = LinkedIn(GroupOf[f]) \ {f}
      /\ f \in LinkedIn(GroupOf[f])
  BY <1>3 DEF LinkedIn
<1>6. /\ Cardinality(LinkedIn(GroupOf[f]) \ {f})
           = Cardinality(LinkedIn(GroupOf[f])) - 1
      /\ Cardinality(LinkedIn(GroupOf[f]) \ {f}) \in Nat
  <2>1. IsFiniteSet(LinkedIn(GroupOf[f]))  BY LinkedFinite DEF TypeOK
  <2>2. IsFiniteSet(LinkedIn(GroupOf[f]) \ {f})  BY <2>1, FS_RemoveElement
  <2> QED BY <1>5, <2>1, <2>2, FS_RemoveElement, FS_CardinalityType
<1>7. readyIn' \in [Group -> Nat]
  BY <1>2, <1>4, <1>6 DEF TypeOK, CountersExact
<1>8. ASSUME NEW g \in Group PROVE readyIn'[g] = Cardinality(LinkedIn(g)')
  <2>1. CASE g = GroupOf[f]
    BY <1>2, <1>4, <1>5, <1>6, <2>1 DEF CountersExact, TypeOK
  <2>2. CASE g # GroupOf[f]
    <3>1. LinkedIn(g)' = LinkedIn(g)  BY <1>3, <2>2 DEF LinkedIn
    <3> QED BY <1>2, <2>2, <3>1 DEF CountersExact, TypeOK
  <2> QED BY <2>1, <2>2
<1> QED BY <1>3, <1>7, <1>8 DEF CountersExact

-----------------------------------------------------------------------------
(* The inductive invariant *)

LEMMA InvInit == Init => SchedulerInv
<1> SUFFICES ASSUME Init PROVE SchedulerInv  OBVIOUS
<1>1. TypeOK
  <2>1. <<>> \in Seq(Fiber)  BY EmptySeq
  <2>2. state \in [Fiber -> FiberState] /\ readyIn \in [Group -> Nat]
    BY DEF Init, FiberState
  <2> QED BY <2>1, <2>2 DEF Init, TypeOK
<1>2. ListIsExact /\ QueueIsOwed /\ CursorIsLinked /\ ResumingIsOpen
  BY DEF Init, ListIsExact, QueueIsOwed, CursorIsLinked, NoRepeats, ToSet,
         ResumingIsOpen
<1>3. OneRunnerOutsideParkedGroups
  BY GroupAssumption DEF Init, OneRunnerOutsideParkedGroups
<1>4. CountersExact
  <2>1. \A g : LinkedIn(g) = {}  BY DEF Init, LinkedIn, ToSet
  <2> QED BY <2>1, FS_EmptySet DEF Init, CountersExact
<1> QED BY <1>1, <1>2, <1>3, <1>4 DEF SchedulerInv

(* A fiber that is neither ready nor running joins the list as ready. *)
LEMMA ArriveKeepsInv ==
  ASSUME SchedulerInv, NEW f \in Fiber, state[f] \in {"unborn", "parked"},
         link_ready(f), state' = [state EXCEPT ![f] = "ready"]
  PROVE  /\ ready' \in Seq(Fiber) /\ readyIn' \in [Group -> Nat]
         /\ state' \in [Fiber -> FiberState]
         /\ ToSet(ready') = ToSet(ready) \cup {f}
         /\ ListIsExact' /\ CountersExact'
<1>1. f \notin ToSet(ready)  BY DEF SchedulerInv, ListIsExact
<1>2. /\ ready' \in Seq(Fiber) /\ readyIn' \in [Group -> Nat]
      /\ NoRepeats(ready') /\ ToSet(ready') = ToSet(ready) \cup {f}
      /\ CountersExact'
  BY <1>1, LinkKeepsList DEF SchedulerInv, ListIsExact
<1>3. state' \in [Fiber -> FiberState]
  BY DEF SchedulerInv, TypeOK, FiberState
<1>4. ListIsExact'
  BY <1>2, <1>3 DEF SchedulerInv, ListIsExact, TypeOK
<1> QED BY <1>2, <1>3, <1>4

(* The running fiber leaves the list, parked or finished. *)
LEMMA LeaveKeepsInv ==
  ASSUME SchedulerInv, current # NoFiber, resuming = NoGroup,
         NEW to \in {"parked", "finished"},
         unlink_ready(current), state' = [state EXCEPT ![current] = to],
         current' = NoFiber,
         UNCHANGED <<pending, parkedGroups, tickVars, resuming>>
  PROVE  SchedulerInv'
<1> USE DEF SchedulerInv
<1>1. current \in Fiber /\ state[current] = "running" /\ ticking
  BY DEF TypeOK, OneRunnerOutsideParkedGroups
<1>2. current \in ToSet(ready)  BY <1>1 DEF ListIsExact
<1>3. /\ ready' \in Seq(Fiber) /\ readyIn' \in [Group -> Nat]
      /\ NoRepeats(ready') /\ ToSet(ready') = ToSet(ready) \ {current}
      /\ CountersExact'
  BY <1>1, <1>2, UnlinkKeepsList DEF ListIsExact
<1>4. state' \in [Fiber -> FiberState]  BY <1>1 DEF TypeOK, FiberState
<1>5. TypeOK'
  BY <1>3, <1>4 DEF TypeOK, tickVars
<1>6. ListIsExact'
  BY <1>1, <1>3 DEF ListIsExact, TypeOK
<1>7. QueueIsOwed'
  <2>1. \A f \in ToSet(pending) : f \in Fiber /\ f # current
    BY <1>1, LenProperties, ElementOfSeq DEF QueueIsOwed, TypeOK, ToSet
  <2> QED BY <1>1, <2>1 DEF QueueIsOwed, TypeOK, group_parked
<1>8. OneRunnerOutsideParkedGroups'
  BY <1>1, GroupAssumption DEF OneRunnerOutsideParkedGroups, TypeOK
<1>9. CursorIsLinked'
  <2>1. tickNext' \notin {NoFiber, current}
        => tickNext' \in ToSet(ready') /\ ticking'
    BY <1>3 DEF CursorIsLinked, tickVars
  <2> QED BY <2>1 DEF CursorIsLinked, tickVars
<1>10. ResumingIsOpen'  BY DEF ResumingIsOpen
<1> QED BY <1>3, <1>5, <1>6, <1>7, <1>8, <1>9, <1>10

(* The successor of a linked fiber is linked, and is another fiber. *)
LEMMA SuccessorIsLinked ==
  ASSUME SchedulerInv, NEW f \in ToSet(ready)
  PROVE  ReadyNext(f) # NoFiber => ReadyNext(f) \in ToSet(ready) \ {f}
<1> DEFINE i == Position(ready, f)
<1>1. i \in DOMAIN ready /\ ready[i] = f  BY PositionOfMember
<1>2. DOMAIN ready = 1..Len(ready) /\ Len(ready) \in Nat
  BY LenProperties DEF SchedulerInv, TypeOK
<1>3. NoRepeats(ready)  BY DEF SchedulerInv, ListIsExact
<1>4. ReadyNext(f) = IF i < Len(ready) THEN ready[i + 1] ELSE NoFiber
  BY DEF ReadyNext
<1> HIDE DEF i
<1>5. CASE i < Len(ready)
  <2>1. i + 1 \in DOMAIN ready /\ i + 1 # i  BY <1>1, <1>2, <1>5
  <2>2. ready[i + 1] \in ToSet(ready)  BY <2>1 DEF ToSet
  <2>3. ready[i + 1] # f  BY <1>1, <1>3, <2>1 DEF NoRepeats
  <2> QED BY <1>4, <1>5, <2>2, <2>3
<1> QED BY <1>4, <1>5

(* Members of a sequence of fibers are fibers. *)
LEMMA MembersAreFibers ==
  ASSUME NEW s \in Seq(Fiber)
  PROVE  ToSet(s) \subseteq Fiber
BY LenProperties, ElementOfSeq DEF ToSet

(* Advance keeps the cursor on a linked fiber other than the one it leaves. *)
LEMMA AdvanceKeepsCursor ==
  ASSUME SchedulerInv, tickNext # NoFiber, Advance(tickNext)
  PROVE  /\ tickNext' # NoFiber => tickNext' \in ToSet(ready) \ {tickNext}
         /\ tickNext' \in Fiber \cup {NoFiber}
<1>1. tickNext \in ToSet(ready)  BY DEF SchedulerInv, CursorIsLinked
<1>2. tickNext' # NoFiber => tickNext' = ReadyNext(tickNext)
  BY DEF Advance
<1> QED
  BY <1>1, <1>2, SuccessorIsLinked, MembersAreFibers DEF SchedulerInv, TypeOK

(* The invariant survives each action, one lemma for each. *)
LEMMA SpawnKeepsInv ==
  ASSUME SchedulerInv, NEW f \in Fiber, Spawn(f)
  PROVE  SchedulerInv'
<1> USE DEF SchedulerInv
<1>1. /\ ready' \in Seq(Fiber) /\ readyIn' \in [Group -> Nat]
      /\ state' \in [Fiber -> FiberState]
      /\ ToSet(ready') = ToSet(ready) \cup {f}
      /\ ListIsExact' /\ CountersExact'
  BY ArriveKeepsInv DEF Spawn
<1>2. TypeOK'  BY <1>1 DEF Spawn, TypeOK, tickVars
<1>3. QueueIsOwed'
  BY <1>1 DEF Spawn, QueueIsOwed, group_parked, TypeOK
<1>4. OneRunnerOutsideParkedGroups'
  BY DEF Spawn, OneRunnerOutsideParkedGroups, TypeOK, group_parked, tickVars
<1>5. CursorIsLinked'
  BY <1>1 DEF Spawn, CursorIsLinked, tickVars
<1>6. ResumingIsOpen'  BY DEF Spawn, ResumingIsOpen
<1> QED BY <1>1, <1>2, <1>3, <1>4, <1>5, <1>6

LEMMA WakeKeepsInv ==
  ASSUME SchedulerInv, NEW f \in Fiber, Wake(f)
  PROVE  SchedulerInv'
<1> USE DEF SchedulerInv
<1>0. UNCHANGED <<parkedGroups, current, tickVars, resuming>>
  BY DEF Wake
<1>3. ResumingIsOpen'  BY <1>0 DEF ResumingIsOpen
<1>1. CASE group_parked(GroupOf[f])
  <2>1. /\ UNCHANGED <<state, listVars>>
        /\ pending' = IF f \in ToSet(pending) THEN pending
                                              ELSE Append(pending, f)
    BY <1>1 DEF Wake, wake_parked
  <2>2. /\ pending' \in Seq(Fiber) /\ NoRepeats(pending')
        /\ ToSet(pending') = ToSet(pending) \cup {f}
    BY <2>1, AppendFresh DEF TypeOK, QueueIsOwed
  <2>3. QueueIsOwed'
    BY <1>0, <1>1, <2>1, <2>2 DEF Wake, QueueIsOwed, group_parked
  <2>4. TypeOK'  BY <1>0, <2>1, <2>2 DEF TypeOK, tickVars, listVars
  <2>5. ListIsExact' /\ CountersExact'
    BY <2>1 DEF ListIsExact, CountersExact, LinkedIn, listVars
  <2>6. OneRunnerOutsideParkedGroups' /\ CursorIsLinked'
    BY <1>0, <2>1 DEF OneRunnerOutsideParkedGroups, CursorIsLinked,
                      group_parked, tickVars, listVars
  <2> QED BY <1>3, <2>3, <2>4, <2>5, <2>6
<1>2. CASE ~ group_parked(GroupOf[f])
  <2>1. /\ state[f] = "parked" /\ state' = [state EXCEPT ![f] = "ready"]
        /\ link_ready(f) /\ UNCHANGED pending /\ resuming = NoGroup
    BY <1>2 DEF Wake, wake_parked, ActorHasThread
  <2>2. /\ ready' \in Seq(Fiber) /\ readyIn' \in [Group -> Nat]
        /\ state' \in [Fiber -> FiberState]
        /\ ToSet(ready') = ToSet(ready) \cup {f}
        /\ ListIsExact' /\ CountersExact'
    BY <2>1, ArriveKeepsInv
  <2>3. TypeOK'  BY <1>0, <2>1, <2>2 DEF TypeOK, tickVars
  <2>4. QueueIsOwed'
    <3>1. f \notin ToSet(pending)
      BY <1>2, <2>1, GroupAssumption DEF QueueIsOwed
    <3> QED BY <1>0, <2>1, <3>1 DEF QueueIsOwed, group_parked, TypeOK
  <2>5. OneRunnerOutsideParkedGroups'
    BY <1>0, <2>1 DEF OneRunnerOutsideParkedGroups, TypeOK, group_parked,
                      tickVars
  <2>6. CursorIsLinked'  BY <1>0, <2>2 DEF CursorIsLinked, tickVars
  <2> QED BY <1>3, <2>2, <2>3, <2>4, <2>5, <2>6
<1> QED BY <1>1, <1>2

LEMMA ReplayKeepsInv == ASSUME SchedulerInv, ReplayWake PROVE SchedulerInv'
<1> USE DEF SchedulerInv
<1>1. PICK i \in DOMAIN pending :
        /\ resuming # NoGroup
        /\ GroupOf[pending[i]] = resuming
        /\ pending' = RemoveAt(pending, i)
        /\ IF state[pending[i]] = "parked"
           THEN /\ state' = [state EXCEPT ![pending[i]] = "ready"]
                /\ link_ready(pending[i])
           ELSE UNCHANGED <<state, listVars>>
        /\ UNCHANGED <<parkedGroups, current, tickVars, resuming>>
  BY DEF ReplayWake
<1> DEFINE f == pending[i]
<1>2. f \in ToSet(pending) /\ f \in Fiber
  BY MembersAreFibers DEF ToSet, TypeOK
<1>3. state[f] = "parked"  BY <1>2 DEF QueueIsOwed
<1>4. /\ pending' \in Seq(Fiber) /\ NoRepeats(pending')
      /\ ToSet(pending') = ToSet(pending) \ {f}
  BY <1>1, RemoveAtProperties DEF TypeOK, QueueIsOwed
<1>5. state' = [state EXCEPT ![f] = "ready"] /\ link_ready(f)
  BY <1>1, <1>3
<1> HIDE DEF f
<1>6. /\ ready' \in Seq(Fiber) /\ readyIn' \in [Group -> Nat]
      /\ state' \in [Fiber -> FiberState]
      /\ ToSet(ready') = ToSet(ready) \cup {f}
      /\ ListIsExact' /\ CountersExact'
  BY <1>2, <1>3, <1>5, ArriveKeepsInv
<1>7. TypeOK'  BY <1>1, <1>4, <1>6 DEF TypeOK, tickVars
<1>8. QueueIsOwed'
  BY <1>1, <1>4, <1>5 DEF QueueIsOwed, group_parked, TypeOK
<1>9. OneRunnerOutsideParkedGroups'
  BY <1>1, <1>3, <1>5 DEF OneRunnerOutsideParkedGroups, TypeOK, group_parked,
                          tickVars
<1>10. CursorIsLinked'  BY <1>1, <1>6 DEF CursorIsLinked, tickVars
<1>11. ResumingIsOpen'  BY <1>1 DEF ResumingIsOpen
<1> QED BY <1>6, <1>7, <1>8, <1>9, <1>10, <1>11

(* Parking a group and resuming it move nothing but the group's bit; a     *)
(* group's queued wakes stay owed because its replay is under way.         *)
LEMMA GroupsKeepInv ==
  ASSUME SchedulerInv, NEW g \in Group,
         ParkGroup(g) \/ ResumeGroup(g) \/ ResumeDone
  PROVE  SchedulerInv'
<1> USE DEF SchedulerInv
<1>1. UNCHANGED <<state, listVars, pending, current, tickVars>>
  BY DEF ParkGroup, ResumeGroup, ResumeDone
<1>2. TypeOK'
  BY <1>1 DEF ParkGroup, ResumeGroup, ResumeDone, TypeOK, tickVars, listVars
<1>3. ListIsExact' /\ CountersExact' /\ CursorIsLinked'
  BY <1>1 DEF ListIsExact, CountersExact, LinkedIn, CursorIsLinked,
              tickVars, listVars
<1>4. OneRunnerOutsideParkedGroups'
  BY <1>1 DEF ParkGroup, ResumeGroup, ResumeDone, tickVars,
              OneRunnerOutsideParkedGroups, group_parked
<1>5. QueueIsOwed'
  <2>1. pending' = pending /\ state' = state  BY <1>1
  <2>2. ToSet(pending) \subseteq Fiber  BY MembersAreFibers DEF TypeOK
  <2>3. SUFFICES ASSUME NEW f \in ToSet(pending)
                 PROVE  GroupOf[f] \in parkedGroups' \/ GroupOf[f] = resuming'
    BY <2>1 DEF QueueIsOwed, group_parked
  <2>4. GroupOf[f] \in Group  BY <2>2, GroupAssumption
  <2>5. CASE ParkGroup(g)
    BY <2>5 DEF ParkGroup, QueueIsOwed, group_parked
  <2>6. CASE ResumeGroup(g)
    <3>1. GroupOf[f] \in parkedGroups
      BY <2>4, <2>6, GroupAssumption
      DEF ResumeGroup, ActorHasThread, QueueIsOwed, group_parked
    <3> QED BY <2>6, <3>1 DEF ResumeGroup
  <2>7. CASE ResumeDone
    <3>1. GroupOf[f] # resuming  BY <2>7 DEF ResumeDone, ToSet
    <3> QED BY <2>7, <3>1 DEF ResumeDone, QueueIsOwed, group_parked
  <2> QED BY <2>5, <2>6, <2>7
<1>6. ResumingIsOpen'
  BY GroupAssumption
  DEF ParkGroup, ResumeGroup, ResumeDone, ActorHasThread, ResumingIsOpen, TypeOK
<1> QED BY <1>2, <1>3, <1>4, <1>5, <1>6

LEMMA TickBeginKeepsInv ==
  ASSUME SchedulerInv, NEW mask \in SUBSET Group, TickBegin(mask)
  PROVE  SchedulerInv'
<1> USE DEF SchedulerInv
<1>1. UNCHANGED <<state, listVars, pending, parkedGroups, current, resuming>>
  BY DEF TickBegin
<1>2. /\ ready # <<>> => /\ Head(ready) \in ToSet(ready)
                         /\ ready[Len(ready)] \in ToSet(ready)
      /\ ToSet(ready) \subseteq Fiber
  <2>1. ready \in Seq(Fiber) /\ DOMAIN ready = 1..Len(ready)
        /\ Len(ready) \in Nat
    BY LenProperties DEF TypeOK
  <2>2. ASSUME ready # <<>>
        PROVE  Head(ready) = ready[1] /\ Len(ready) # 0
    BY <2>1, <2>2, HeadTailProperties, EmptySeq
  <2> QED BY <2>1, <2>2, MembersAreFibers DEF ToSet
<1>3. TypeOK'
  BY <1>1, <1>2 DEF TickBegin, TypeOK, listVars
<1>4. ListIsExact' /\ CountersExact' /\ QueueIsOwed'
  BY <1>1 DEF ListIsExact, CountersExact, LinkedIn, QueueIsOwed, listVars,
              group_parked
<1>5. current = NoFiber
  BY DEF TickBegin, OneRunnerOutsideParkedGroups
<1>6. OneRunnerOutsideParkedGroups'
  BY <1>1, <1>5 DEF OneRunnerOutsideParkedGroups
<1>7. CursorIsLinked'
  BY <1>1, <1>2, <1>5, MembersAreFibers, GroupAssumption
  DEF TickBegin, CursorIsLinked, listVars
<1>8. ResumingIsOpen'  BY <1>1 DEF ResumingIsOpen
<1> QED BY <1>3, <1>4, <1>6, <1>7, <1>8

LEMMA WalkKeepsInv ==
  ASSUME SchedulerInv, SliceBegin \/ TickSkip \/ TickEnd
  PROVE  SchedulerInv'
<1> USE DEF SchedulerInv
<1>0. UNCHANGED <<listVars, pending, parkedGroups, resuming>>
      /\ current = NoFiber
  BY DEF SliceBegin, TickSkip, TickEnd
<1>4. ResumingIsOpen'  BY <1>0 DEF ResumingIsOpen
<1>1. CASE SliceBegin
  <2>1. /\ tickNext \in Fiber /\ state[tickNext] = "ready"
        /\ ~ group_parked(GroupOf[tickNext])
        /\ current' = tickNext /\ ticking'
        /\ state' = [state EXCEPT ![tickNext] = "running"]
    BY <1>1 DEF SliceBegin, TypeOK, is_runnable
  <2>2. /\ tickNext' # NoFiber => tickNext' \in ToSet(ready) \ {tickNext}
        /\ tickNext' \in Fiber \cup {NoFiber}
    BY <1>1, AdvanceKeepsCursor DEF SliceBegin
  <2>3. served' \in Seq(Fiber)
    BY <1>1, <2>1, AppendProperties DEF SliceBegin, TypeOK
  <2>4. TypeOK'
    BY <1>0, <1>1, <2>1, <2>2, <2>3 DEF SliceBegin, TypeOK, FiberState, listVars
  <2>5. ListIsExact' /\ CountersExact' /\ QueueIsOwed'
    BY <1>0, <2>1 DEF ListIsExact, CountersExact, LinkedIn, QueueIsOwed,
                      listVars, group_parked, TypeOK
  <2>6. OneRunnerOutsideParkedGroups'
    BY <1>0, <2>1, GroupAssumption
    DEF OneRunnerOutsideParkedGroups, group_parked, TypeOK
  <2>7. CursorIsLinked'
    BY <1>0, <2>1, <2>2 DEF CursorIsLinked, listVars
  <2> QED BY <1>4, <2>4, <2>5, <2>6, <2>7
<1>2. CASE TickSkip
  <2>1. /\ tickNext' # NoFiber => tickNext' \in ToSet(ready) \ {tickNext}
        /\ tickNext' \in Fiber \cup {NoFiber}
    BY <1>2, AdvanceKeepsCursor DEF TickSkip
  <2>2. /\ UNCHANGED <<state, current, ticking, tickMask, tickBoundary,
                        snapshot, served>>
        /\ ticking
    BY <1>2 DEF TickSkip
  <2>3. TypeOK'  BY <1>0, <2>1, <2>2 DEF TypeOK, listVars
  <2>4. ListIsExact' /\ CountersExact' /\ QueueIsOwed'
        /\ OneRunnerOutsideParkedGroups'
    BY <1>0, <2>2 DEF ListIsExact, CountersExact, LinkedIn, QueueIsOwed,
                      listVars, group_parked, OneRunnerOutsideParkedGroups
  <2>5. CursorIsLinked'
    BY <1>0, <2>1, <2>2, MembersAreFibers, GroupAssumption
    DEF CursorIsLinked, listVars, TypeOK
  <2> QED BY <1>4, <2>3, <2>4, <2>5
<1>3. CASE TickEnd
  <2>1. TypeOK'
    BY <1>0, <1>3, EmptySeq DEF TickEnd, TypeOK, listVars
  <2>2. ListIsExact' /\ CountersExact' /\ QueueIsOwed'
        /\ OneRunnerOutsideParkedGroups' /\ CursorIsLinked'
    BY <1>0, <1>3
    DEF TickEnd, ListIsExact, CountersExact, LinkedIn, QueueIsOwed, listVars,
        group_parked, OneRunnerOutsideParkedGroups, CursorIsLinked
  <2> QED BY <1>4, <2>1, <2>2
<1> QED BY <1>1, <1>2, <1>3

LEMMA YieldKeepsInv == ASSUME SchedulerInv, Yield PROVE SchedulerInv'
<1> USE DEF SchedulerInv
<1>1. /\ current \in Fiber /\ state[current] = "running"
      /\ current' = NoFiber /\ state' = [state EXCEPT ![current] = "ready"]
      /\ UNCHANGED <<listVars, pending, parkedGroups, tickVars, resuming>>
  BY DEF Yield, TypeOK, OneRunnerOutsideParkedGroups
<1>2. TypeOK'  BY <1>1 DEF TypeOK, FiberState, listVars, tickVars
<1>3. ListIsExact' /\ CountersExact'
  BY <1>1 DEF ListIsExact, CountersExact, LinkedIn, listVars, TypeOK
<1>4. QueueIsOwed'
  BY <1>1 DEF QueueIsOwed, group_parked, TypeOK
<1>5. OneRunnerOutsideParkedGroups'
  BY <1>1, GroupAssumption DEF OneRunnerOutsideParkedGroups, TypeOK
<1>6. CursorIsLinked'
  <2>1. tickNext # NoFiber => tickNext \in Fiber  BY DEF TypeOK
  <2> QED BY <1>1, <2>1 DEF CursorIsLinked, listVars, tickVars
<1>7. ResumingIsOpen'  BY <1>1 DEF ResumingIsOpen
<1> QED BY <1>2, <1>3, <1>4, <1>5, <1>6, <1>7

LEMMA SliceEndKeepsInv == ASSUME SchedulerInv, SliceEnd PROVE SchedulerInv'
<1>1. CASE Yield   BY <1>1, YieldKeepsInv
<1>2. CASE Park    BY <1>2, LeaveKeepsInv DEF Park
<1>3. CASE Finish  BY <1>3, LeaveKeepsInv DEF Finish
<1> QED BY <1>1, <1>2, <1>3 DEF SliceEnd

LEMMA InvStep == SchedulerInv /\ [Next]_vars => SchedulerInv'
<1> SUFFICES ASSUME SchedulerInv, [Next]_vars PROVE SchedulerInv'  OBVIOUS
<1>1. CASE \E f \in Fiber : Spawn(f) \/ Wake(f)
  BY <1>1, SpawnKeepsInv, WakeKeepsInv
<1>2. CASE \E g \in Group : ParkGroup(g) \/ ResumeGroup(g)
  BY <1>2, GroupsKeepInv
<1>3. CASE ReplayWake  BY <1>3, ReplayKeepsInv
<1>4. CASE ResumeDone
  <2>1. resuming \in Group  BY <1>4 DEF ResumeDone, SchedulerInv, TypeOK
  <2> QED BY <1>4, <2>1, GroupsKeepInv
<1>5. CASE \E mask \in (SUBSET Group) \ {{}} : TickBegin(mask)
  BY <1>5, TickBeginKeepsInv
<1>6. CASE SliceBegin \/ TickSkip \/ TickEnd  BY <1>6, WalkKeepsInv
<1>7. CASE SliceEnd  BY <1>7, SliceEndKeepsInv
<1>8. CASE UNCHANGED vars
  BY <1>8
  DEF vars, listVars, tickVars, SchedulerInv, TypeOK, ListIsExact,
      QueueIsOwed, OneRunnerOutsideParkedGroups, CountersExact, LinkedIn,
      CursorIsLinked, group_parked, ResumingIsOpen
<1> QED
  BY <1>1, <1>2, <1>3, <1>4, <1>5, <1>6, <1>7, <1>8 DEF Next

(* The invariant of the scheduler, for every set of fibers and groups. *)
THEOREM SchedulerInvariant == Spec => []SchedulerInv
BY InvInit, InvStep, PTL DEF Spec

(* Every variable keeps its type. *)
THEOREM TypeCorrect == Spec => []TypeOK
BY SchedulerInvariant, PTL DEF SchedulerInv

(* A fiber is on the ready list exactly while it is ready or running. *)
THEOREM ListExact == Spec => []ListIsExact
BY SchedulerInvariant, PTL DEF SchedulerInv

(* A queued wake is owed to a parked fiber of a parked group, once. *)
THEOREM QueueOwed == Spec => []QueueIsOwed
BY SchedulerInvariant, PTL DEF SchedulerInv

(* One fiber runs at a time, inside a tick, never in a parked group. *)
THEOREM OneRunner == Spec => []OneRunnerOutsideParkedGroups
BY SchedulerInvariant, PTL DEF SchedulerInv

-----------------------------------------------------------------------------
(* The counters the host's poll timeout is chosen by *)

(* A non-zero count is a linked fiber of the group. *)
LEMMA CountMeansMember ==
  ASSUME SchedulerInv, NEW g \in Group
  PROVE  readyIn[g] # 0 <=> \E f \in Fiber : f \in ToSet(ready) /\ GroupOf[f] = g
<1>1. /\ readyIn[g] = Cardinality(LinkedIn(g))
      /\ IsFiniteSet(LinkedIn(g)) /\ ready \in Seq(Fiber)
  BY LinkedFinite DEF SchedulerInv, CountersExact, TypeOK
<1>2. readyIn[g] = 0 <=> LinkedIn(g) = {}
  BY <1>1, FS_EmptySet
<1> QED BY <1>1, <1>2, MembersAreFibers DEF LinkedIn

LEMMA CountersAgree == SchedulerInv => CountersAgreeWithFibers
<1> SUFFICES ASSUME SchedulerInv, current = NoFiber, NEW mask \in SUBSET Group
             PROVE  runnable(mask) <=> \E f \in Fiber : is_runnable(f, mask)
  BY DEF CountersAgreeWithFibers
<1>1. \A f \in Fiber : f \in ToSet(ready) <=> state[f] = "ready"
  BY GroupAssumption
  DEF SchedulerInv, ListIsExact, OneRunnerOutsideParkedGroups
<1>2. \A g \in mask :
        readyIn[g] # 0 <=> \E f \in Fiber : state[f] = "ready" /\ GroupOf[f] = g
  BY <1>1, CountMeansMember
<1> QED BY <1>2 DEF runnable, is_runnable

(* runnable(mask) is true exactly when some fiber of the mask is runnable. *)
THEOREM CountersTruthful == Spec => []CountersAgreeWithFibers
BY SchedulerInvariant, CountersAgree, PTL

(* The types, the list, the queue and the counters, in one. *)
THEOREM BookkeepingExact == Spec => []BookkeepingIsExact
BY TypeCorrect, ListExact, QueueOwed, CountersTruthful, PTL DEF BookkeepingIsExact

-----------------------------------------------------------------------------
(* A parked group is frozen *)

LEMMA FrozenStep ==
  ASSUME SchedulerInv, [Next]_vars, NEW f \in Fiber,
         group_parked(GroupOf[f]), group_parked(GroupOf[f])'
  PROVE  state[f] = "unborn" \/ state'[f] = state[f]
<1> USE DEF SchedulerInv
<1>1. current # f
  BY GroupAssumption DEF OneRunnerOutsideParkedGroups
<1>2. CASE \E h \in Fiber : Spawn(h) \/ Wake(h)
  BY <1>2 DEF Spawn, Wake, wake_parked, TypeOK
<1>3. CASE \E g \in Group : ParkGroup(g) \/ ResumeGroup(g)
  BY <1>3 DEF ParkGroup, ResumeGroup
<1>4. CASE ReplayWake
  <2>1. PICK i \in DOMAIN pending :
          /\ GroupOf[pending[i]] = resuming
          /\ state' = [state EXCEPT ![pending[i]] = "ready"] \/ state' = state
          /\ UNCHANGED parkedGroups /\ resuming # NoGroup
    BY <1>4 DEF ReplayWake
  <2>2. resuming \notin parkedGroups
    BY DEF ResumingIsOpen
  <2> QED BY <2>1, <2>2 DEF group_parked, TypeOK
<1>5. CASE ResumeDone \/ TickSkip \/ TickEnd
  BY <1>5 DEF ResumeDone, TickSkip, TickEnd
<1>6. CASE \E mask \in (SUBSET Group) \ {{}} : TickBegin(mask)
  BY <1>6 DEF TickBegin
<1>7. CASE SliceBegin
  BY <1>7 DEF SliceBegin, is_runnable, TypeOK
<1>8. CASE SliceEnd
  BY <1>1, <1>8 DEF SliceEnd, Yield, Park, Finish, TypeOK
<1>9. CASE UNCHANGED vars
  BY <1>9 DEF vars
<1> QED
  BY <1>2, <1>3, <1>4, <1>5, <1>6, <1>7, <1>8, <1>9 DEF Next

(* No slice, no park and no applied wake touches a parked group. *)
THEOREM ParkedFrozen == Spec => ParkedGroupIsFrozen
<1>1. SchedulerInv /\ [Next]_vars => [FrozenWhileParked]_vars
  BY FrozenStep DEF FrozenWhileParked
<1> QED BY <1>1, SchedulerInvariant, PTL DEF Spec, ParkedGroupIsFrozen

-----------------------------------------------------------------------------
(* The scheduler implements the level-triggered wakes of FiberWakes *)

(* A step that touches one fiber moves only that fiber's mode. *)
LEMMA ModeMoves ==
  ASSUME NEW f \in Fiber,
         \A h \in Fiber \ {f} :
           /\ state'[h] = state[h]
           /\ h \in ToSet(pending)' <=> h \in ToSet(pending)
  PROVE  mode' = [mode EXCEPT ![f] = mode'[f]]
BY DEF mode

LEMMA ModeStays ==
  ASSUME UNCHANGED <<state, pending>>
  PROVE  mode' = mode
BY DEF mode

(* A wake, queued or applied, of a fiber that waits: it becomes owed. *)
LEMMA WakeRefines ==
  ASSUME SchedulerInv, NEW f \in Fiber, Wake(f)
  PROVE  Wakes!Wake(f) \/ mode' = mode
<1> USE DEF SchedulerInv
<1>1. state[f] = "parked" /\ wake_parked(f)  BY DEF Wake
<1>2. CASE group_parked(GroupOf[f]) /\ f \in ToSet(pending)
  BY <1>1, <1>2, ModeStays DEF wake_parked
<1>3. CASE group_parked(GroupOf[f]) /\ f \notin ToSet(pending)
  <2>0. pending' = Append(pending, f) /\ state' = state
    BY <1>1, <1>3 DEF wake_parked
  <2>1. ToSet(pending') = ToSet(pending) \cup {f} /\ state' = state
    BY <2>0, AppendFresh DEF TypeOK
  <2>2. mode' = [mode EXCEPT ![f] = mode'[f]]  BY <2>1, ModeMoves
  <2>3. mode[f] = "waiting" /\ mode'[f] = "owed"
    BY <1>1, <1>3, <2>1 DEF mode
  <2> QED BY <2>2, <2>3 DEF Wakes!Wake, Wakes!Become
<1>4. CASE ~ group_parked(GroupOf[f])
  <2>1. state' = [state EXCEPT ![f] = "ready"] /\ pending' = pending
    BY <1>1, <1>4 DEF wake_parked
  <2>2. f \notin ToSet(pending)
    BY <1>4, GroupAssumption DEF QueueIsOwed, Wake, ActorHasThread
  <2>3. mode' = [mode EXCEPT ![f] = mode'[f]]
    BY <2>1, ModeMoves DEF TypeOK
  <2>4. mode[f] = "waiting" /\ mode'[f] = "owed"
    BY <1>1, <2>1, <2>2 DEF mode, TypeOK
  <2> QED BY <2>3, <2>4 DEF Wakes!Wake, Wakes!Become
<1> QED BY <1>2, <1>3, <1>4

(* Replaying a queued wake delivers what was owed: the mode stays. *)
LEMMA ReplayRefines == ASSUME SchedulerInv, ReplayWake PROVE mode' = mode
<1> USE DEF SchedulerInv
<1>1. PICK i \in DOMAIN pending :
        /\ pending' = RemoveAt(pending, i)
        /\ IF state[pending[i]] = "parked"
           THEN state' = [state EXCEPT ![pending[i]] = "ready"]
           ELSE state' = state
  BY DEF ReplayWake
<1> DEFINE f == pending[i]
<1>2. f \in ToSet(pending) /\ f \in Fiber
  BY MembersAreFibers DEF ToSet, TypeOK
<1>3. state[f] = "parked"  BY <1>2 DEF QueueIsOwed
<1>4. ToSet(pending') = ToSet(pending) \ {f}
  BY <1>1, RemoveAtProperties DEF TypeOK, QueueIsOwed
<1>5. state' = [state EXCEPT ![f] = "ready"]  BY <1>1, <1>3
<1> HIDE DEF f
<1>6. mode' = [mode EXCEPT ![f] = mode'[f]]
  BY <1>2, <1>4, <1>5, ModeMoves DEF TypeOK
<1>7. mode[f] = "owed" /\ mode'[f] = "owed"
  BY <1>2, <1>3, <1>5 DEF mode, TypeOK
<1> QED BY <1>2, <1>6, <1>7 DEF mode

(* The running fiber's slice ends: it yields, waits or finishes. *)
LEMMA SliceEndRefines == ASSUME SchedulerInv, SliceEnd PROVE Wakes!Next
<1> USE DEF SchedulerInv
<1>1. /\ current \in Fiber /\ state[current] = "running"
      /\ current \notin ToSet(pending) /\ pending' = pending
  BY DEF SliceEnd, Yield, Park, Finish, TypeOK, QueueIsOwed,
         OneRunnerOutsideParkedGroups
<1>2. PICK to \in {"ready", "parked", "finished"} :
        state' = [state EXCEPT ![current] = to]
  BY DEF SliceEnd, Yield, Park, Finish
<1>3. mode' = [mode EXCEPT ![current] = mode'[current]]
  BY <1>1, <1>2, ModeMoves DEF TypeOK
<1>4. mode[current] = "running"  BY <1>1 DEF mode
<1>5. mode'[current] \in {"owed", "waiting", "finished"}
  BY <1>1, <1>2 DEF mode, TypeOK
<1> QED
  BY <1>1, <1>3, <1>4, <1>5
  DEF Wakes!Next, Wakes!Yield, Wakes!Wait, Wakes!Finish, Wakes!Become

LEMMA StepRefines == SchedulerInv /\ [Next]_vars => [Wakes!Next]_mode
<1> SUFFICES ASSUME SchedulerInv, [Next]_vars
             PROVE  Wakes!Next \/ mode' = mode
  OBVIOUS
<1> USE DEF SchedulerInv
<1>1. CASE \E f \in Fiber : Spawn(f)
  <2>1. PICK f \in Fiber : Spawn(f)  BY <1>1
  <2>2. mode' = [mode EXCEPT ![f] = mode'[f]]
    BY <2>1, ModeMoves DEF Spawn, TypeOK
  <2>3. mode[f] = "unborn" /\ mode'[f] = "owed"
    BY <2>1 DEF Spawn, mode, TypeOK
  <2> QED BY <2>2, <2>3 DEF Wakes!Next, Wakes!Spawn, Wakes!Become
<1>2. CASE \E f \in Fiber : Wake(f)
  BY <1>2, WakeRefines DEF Wakes!Next
<1>3. CASE \E g \in Group : ParkGroup(g) \/ ResumeGroup(g)
  BY <1>3, ModeStays DEF ParkGroup, ResumeGroup
<1>4. CASE ReplayWake  BY <1>4, ReplayRefines
<1>5. CASE ResumeDone \/ TickSkip \/ TickEnd
  BY <1>5, ModeStays DEF ResumeDone, TickSkip, TickEnd
<1>6. CASE \E mask \in (SUBSET Group) \ {{}} : TickBegin(mask)
  BY <1>6, ModeStays DEF TickBegin
<1>7. CASE SliceBegin
  <2>1. /\ tickNext \in Fiber /\ state[tickNext] = "ready"
        /\ current = NoFiber /\ pending' = pending
        /\ state' = [state EXCEPT ![tickNext] = "running"]
    BY <1>7 DEF SliceBegin, is_runnable, TypeOK
  <2>2. mode' = [mode EXCEPT ![tickNext] = mode'[tickNext]]
    BY <2>1, ModeMoves DEF TypeOK
  <2>3. mode[tickNext] = "owed" /\ mode'[tickNext] = "running"
    BY <2>1 DEF mode, TypeOK
  <2>4. \A h \in Fiber : mode[h] # "running"
    BY <2>1, GroupAssumption DEF mode, OneRunnerOutsideParkedGroups
  <2> QED BY <2>1, <2>2, <2>3, <2>4 DEF Wakes!Next, Wakes!Grant, Wakes!Become
<1>8. CASE SliceEnd  BY <1>8, SliceEndRefines
<1>9. CASE UNCHANGED vars
  BY <1>9, ModeStays DEF vars
<1> QED
  BY <1>1, <1>2, <1>3, <1>4, <1>5, <1>6, <1>7, <1>8, <1>9 DEF Next

(* The scheduler refines FiberWakes: a wake is a level, never lost and     *)
(* never invented, and a slice is granted to nobody while another runs.    *)
THEOREM SchedulerRefinesWakes == Spec => WakesSpec
<1>1. Init => Wakes!Init  BY DEF Init, Wakes!Init, mode
<1> QED
  BY <1>1, StepRefines, SchedulerInvariant, PTL DEF Spec, WakesSpec, Wakes!Spec

-----------------------------------------------------------------------------
(* Order in a sequence, and what the scheduler's three edits do to it *)

(* Positions of a sequence without repetitions are unique. *)
LEMMA PositionOfIndex ==
  ASSUME NEW s, NoRepeats(s), NEW i \in DOMAIN s
  PROVE  Position(s, s[i]) = i
BY DEF Position, NoRepeats

(* In s \o t whatever s holds comes before whatever t holds. *)
LEMMA BeforeConcat ==
  ASSUME NEW S, NEW s \in Seq(S), NEW t \in Seq(S), NEW f, NEW h
  PROVE  /\ ToSet(s \o t) = ToSet(s) \cup ToSet(t)
         /\ Before(s \o t, f, h) <=> \/ Before(s, f, h)
                                     \/ Before(t, f, h)
                                     \/ f \in ToSet(s) /\ h \in ToSet(t)
<1> DEFINE r == s \o t
<1>1. /\ DOMAIN r = 1..(Len(s) + Len(t))
      /\ DOMAIN s = 1..Len(s) /\ DOMAIN t = 1..Len(t)
      /\ Len(s) \in Nat /\ Len(t) \in Nat
      /\ \A i \in 1..Len(s) : r[i] = s[i]
      /\ \A i \in 1..Len(t) : r[Len(s) + i] = t[i]
  <2>1. /\ r \in Seq(S) /\ Len(r) = Len(s) + Len(t)
        /\ \A i \in 1..(Len(s) + Len(t)) :
             r[i] = IF i <= Len(s) THEN s[i] ELSE t[i - Len(s)]
    BY ConcatProperties
  <2>2. DOMAIN s = 1..Len(s) /\ DOMAIN t = 1..Len(t)
        /\ Len(s) \in Nat /\ Len(t) \in Nat /\ DOMAIN r = 1..Len(r)
    BY <2>1, LenProperties
  <2> HIDE DEF r
  <2>3. ASSUME NEW i \in 1..Len(t) PROVE r[Len(s) + i] = t[i]
    <3>1. /\ Len(s) + i \in 1..(Len(s) + Len(t)) /\ ~(Len(s) + i <= Len(s))
          /\ (Len(s) + i) - Len(s) = i
      BY <2>2
    <3>2. r[Len(s) + i] = t[(Len(s) + i) - Len(s)]  BY <2>1, <3>1
    <3> QED BY <3>1, <3>2
  <2> QED BY <2>1, <2>2, <2>3
<1> HIDE DEF r
<1>2. ASSUME NEW k \in DOMAIN r
      PROVE  k \in DOMAIN s \/ \E i \in DOMAIN t : k = Len(s) + i
  <2>1. CASE k <= Len(s)  BY <1>1, <2>1
  <2>2. CASE ~(k <= Len(s))
    <3>1. k - Len(s) \in DOMAIN t /\ k = Len(s) + (k - Len(s))  BY <1>1, <2>2
    <3> QED BY <3>1
  <2> QED BY <2>1, <2>2
<1>3. \A i \in DOMAIN s : i \in DOMAIN r /\ r[i] = s[i]  BY <1>1
<1>4. \A i \in DOMAIN t : Len(s) + i \in DOMAIN r /\ r[Len(s) + i] = t[i]
  BY <1>1
<1>5. ToSet(r) = ToSet(s) \cup ToSet(t)
  BY <1>2, <1>3, <1>4 DEF ToSet
<1>6. ASSUME Before(r, f, h)
      PROVE  \/ Before(s, f, h) \/ Before(t, f, h)
             \/ f \in ToSet(s) /\ h \in ToSet(t)
  <2>1. PICK i \in DOMAIN r, j \in DOMAIN r : i < j /\ r[i] = f /\ r[j] = h
    BY <1>6 DEF Before
  <2>2. CASE i \in DOMAIN s /\ j \in DOMAIN s
    BY <2>1, <2>2, <1>3 DEF Before
  <2>3. CASE i \in DOMAIN s /\ \E k \in DOMAIN t : j = Len(s) + k
    BY <2>1, <2>3, <1>3, <1>4 DEF ToSet
  <2>4. CASE j \in DOMAIN s /\ \E k \in DOMAIN t : i = Len(s) + k
    BY <2>1, <2>4, <1>1
  <2>5. ASSUME NEW k \in DOMAIN t, NEW l \in DOMAIN t,
               i = Len(s) + k, j = Len(s) + l
        PROVE  Before(t, f, h)
    <3>1. k < l  BY <1>1, <2>1, <2>5
    <3>2. t[k] = f /\ t[l] = h  BY <1>4, <2>1, <2>5
    <3> QED BY <3>1, <3>2 DEF Before
  <2> QED BY <1>2, <2>2, <2>3, <2>4, <2>5
<1>7. ASSUME Before(s, f, h) PROVE Before(r, f, h)
  BY <1>3, <1>7 DEF Before
<1>8. ASSUME Before(t, f, h) PROVE Before(r, f, h)
  <2>1. PICK i \in DOMAIN t, j \in DOMAIN t : i < j /\ t[i] = f /\ t[j] = h
    BY <1>8 DEF Before
  <2>2. Len(s) + i < Len(s) + j  BY <2>1, <1>1
  <2>3. /\ Len(s) + i \in DOMAIN r /\ r[Len(s) + i] = f
        /\ Len(s) + j \in DOMAIN r /\ r[Len(s) + j] = h
    BY <2>1, <1>4
  <2> QED BY <2>2, <2>3 DEF Before
<1>9. ASSUME f \in ToSet(s), h \in ToSet(t) PROVE Before(r, f, h)
  <2>1. PICK i \in DOMAIN s : s[i] = f  BY <1>9 DEF ToSet
  <2>2. PICK j \in DOMAIN t : t[j] = h  BY <1>9 DEF ToSet
  <2>3. i < Len(s) + j  BY <1>1
  <2>4. /\ i \in DOMAIN r /\ r[i] = f
        /\ Len(s) + j \in DOMAIN r /\ r[Len(s) + j] = h
    BY <2>1, <2>2, <1>3, <1>4
  <2> QED BY <2>3, <2>4 DEF Before
<1> QED BY <1>5, <1>6, <1>7, <1>8, <1>9 DEF r

(* An arrival comes after what is there, and moves nobody. *)
LEMMA BeforeAppend ==
  ASSUME NEW S, NEW s \in Seq(S), NEW e \in S, NEW f, NEW h
  PROVE  Before(Append(s, e), f, h) <=> \/ Before(s, f, h)
                                        \/ f \in ToSet(s) /\ h = e
<1> DEFINE r == Append(s, e)
<1>1. /\ DOMAIN r = 1..(Len(s) + 1) /\ DOMAIN s = 1..Len(s) /\ Len(s) \in Nat
      /\ \A i \in 1..Len(s) : r[i] = s[i]
      /\ r[Len(s) + 1] = e
  BY AppendProperties, LenProperties
<1> HIDE DEF r
<1>2. ASSUME Before(r, f, h) PROVE Before(s, f, h) \/ (f \in ToSet(s) /\ h = e)
  <2>1. PICK i \in DOMAIN r, j \in DOMAIN r : i < j /\ r[i] = f /\ r[j] = h
    BY <1>2 DEF Before
  <2>2. i \in DOMAIN s /\ s[i] = f  BY <2>1, <1>1
  <2>3. j \in DOMAIN s \/ j = Len(s) + 1  BY <1>1
  <2>4. CASE j \in DOMAIN s
    <3>1. s[j] = h  BY <2>1, <2>4, <1>1
    <3> QED BY <2>1, <2>2, <2>4, <3>1 DEF Before
  <2>5. CASE j = Len(s) + 1  BY <2>1, <2>2, <2>5, <1>1 DEF ToSet
  <2> QED BY <2>3, <2>4, <2>5
<1>3. ASSUME Before(s, f, h) PROVE Before(r, f, h)
  BY <1>1, <1>3 DEF Before
<1>4. ASSUME f \in ToSet(s), h = e PROVE Before(r, f, h)
  <2>1. PICK i \in DOMAIN s : s[i] = f  BY <1>4 DEF ToSet
  <2>2. /\ i < Len(s) + 1 /\ i \in DOMAIN r /\ Len(s) + 1 \in DOMAIN r
        /\ r[i] = f /\ r[Len(s) + 1] = h
    BY <2>1, <1>1, <1>4
  <2> QED BY <2>2 DEF Before
<1> QED BY <1>2, <1>3, <1>4 DEF r

(* x is followed by y at once. *)
Adjacent(s, x, y) == \E j \in 1..(Len(s) - 1) : s[j] = x /\ s[j + 1] = y

(* Of two that stay, the order stays. *)
LEMMA BeforeRemoveAt ==
  ASSUME NEW S, NEW s \in Seq(S), NEW i \in DOMAIN s, NoRepeats(s),
         NEW f, NEW h
  PROVE  Before(RemoveAt(s, i), f, h) <=> Before(s, f, h) /\ s[i] \notin {f, h}
<1> DEFINE r == RemoveAt(s, i)
<1>1. /\ DOMAIN r = 1..(Len(s) - 1)
      /\ \A j \in 1..(Len(s) - 1) : r[j] = IF j < i THEN s[j] ELSE s[j + 1]
  BY RemoveAtIndices
<1>2. DOMAIN s = 1..Len(s) /\ Len(s) \in Nat /\ i \in 1..Len(s)
  BY LenProperties
<1> HIDE DEF r
<1> DEFINE Up(j) == IF j < i THEN j ELSE j + 1
<1>3. \A j \in DOMAIN r : Up(j) \in DOMAIN s /\ Up(j) # i /\ r[j] = s[Up(j)]
  BY <1>1, <1>2
<1>4. \A j, k \in DOMAIN r : j < k => Up(j) < Up(k)
  BY <1>1, <1>2
<1>5. \A n \in DOMAIN s : n # i => \E j \in DOMAIN r : Up(j) = n
  <2> SUFFICES ASSUME NEW n \in DOMAIN s, n # i
               PROVE  \E j \in DOMAIN r : Up(j) = n
    OBVIOUS
  <2>1. CASE n < i
    <3>1. n \in DOMAIN r /\ Up(n) = n  BY <2>1, <1>1, <1>2
    <3> QED BY <3>1
  <2>2. CASE n > i
    <3>1. n - 1 \in DOMAIN r /\ Up(n - 1) = n  BY <2>2, <1>1, <1>2
    <3> QED BY <3>1
  <2> QED BY <2>1, <2>2, <1>2
<1>6. \A j, k \in DOMAIN r : Up(j) < Up(k) => j < k
  BY <1>1, <1>2
<1> HIDE DEF Up
<1>7. ASSUME Before(r, f, h) PROVE Before(s, f, h) /\ s[i] \notin {f, h}
  <2>1. PICK j \in DOMAIN r, k \in DOMAIN r : j < k /\ r[j] = f /\ r[k] = h
    BY <1>7 DEF Before
  <2>2. /\ Up(j) \in DOMAIN s /\ Up(k) \in DOMAIN s /\ Up(j) < Up(k)
        /\ s[Up(j)] = f /\ s[Up(k)] = h /\ Up(j) # i /\ Up(k) # i
    BY <2>1, <1>3, <1>4
  <2>3. s[i] # f /\ s[i] # h  BY <2>2 DEF NoRepeats
  <2> QED BY <2>2, <2>3 DEF Before
<1>8. ASSUME Before(s, f, h), s[i] \notin {f, h} PROVE Before(r, f, h)
  <2>1. PICK m \in DOMAIN s, n \in DOMAIN s : m < n /\ s[m] = f /\ s[n] = h
    BY <1>8 DEF Before
  <2>2. m # i /\ n # i  BY <2>1, <1>8
  <2>3. PICK j \in DOMAIN r : Up(j) = m  BY <2>2, <1>5
  <2>4. PICK k \in DOMAIN r : Up(k) = n  BY <2>2, <1>5
  <2>5. j < k /\ r[j] = f /\ r[k] = h  BY <2>1, <2>3, <2>4, <1>3, <1>6
  <2> QED BY <2>5 DEF Before
<1> QED BY <1>7, <1>8 DEF r

(* Neighbours stay neighbours when one arrives, or when another leaves. *)
LEMMA AdjacentAppend ==
  ASSUME NEW S, NEW s \in Seq(S), NEW e \in S, NEW x, NEW y, Adjacent(s, x, y)
  PROVE  Adjacent(Append(s, e), x, y)
<1>1. /\ Len(Append(s, e)) = Len(s) + 1 /\ Len(s) \in Nat
      /\ \A i \in 1..Len(s) : Append(s, e)[i] = s[i]
  BY AppendProperties, LenProperties
<1> QED BY <1>1 DEF Adjacent

LEMMA AdjacentRemoveAt ==
  ASSUME NEW S, NEW s \in Seq(S), NEW i \in DOMAIN s, NEW x, NEW y,
         Adjacent(s, x, y), s[i] \notin {x, y}
  PROVE  Adjacent(RemoveAt(s, i), x, y)
<1> DEFINE r == RemoveAt(s, i)
<1>1. /\ Len(r) = Len(s) - 1
      /\ \A j \in 1..(Len(s) - 1) : r[j] = IF j < i THEN s[j] ELSE s[j + 1]
  BY RemoveAtIndices
<1>2. DOMAIN s = 1..Len(s) /\ Len(s) \in Nat /\ i \in 1..Len(s)
  BY LenProperties
<1> HIDE DEF r
<1>3. PICK j \in 1..(Len(s) - 1) : s[j] = x /\ s[j + 1] = y  BY DEF Adjacent
<1>4. i # j /\ i # j + 1  BY <1>3
<1>5. CASE j < i
  <2>1. j + 1 < i /\ j \in 1..(Len(r) - 1) /\ j + 1 \in 1..(Len(s) - 1)
    BY <1>1, <1>2, <1>4, <1>5
  <2>2. r[j] = x /\ r[j + 1] = y  BY <1>1, <1>3, <1>5, <2>1
  <2> QED BY <2>1, <2>2 DEF Adjacent, r
<1>6. CASE j > i
  <2>1. /\ j - 1 \in 1..(Len(r) - 1) /\ j - 1 \in 1..(Len(s) - 1)
        /\ j \in 1..(Len(s) - 1) /\ ~(j - 1 < i) /\ ~(j < i)
        /\ (j - 1) + 1 = j
    BY <1>1, <1>2, <1>4, <1>6
  <2>2. r[j - 1] = s[(j - 1) + 1] /\ r[j] = s[j + 1]  BY <1>1, <2>1
  <2>3. r[j - 1] = x /\ r[(j - 1) + 1] = y  BY <2>1, <2>2, <1>3
  <2> QED BY <2>1, <2>3 DEF Adjacent, r
<1> QED BY <1>2, <1>4, <1>5, <1>6

-----------------------------------------------------------------------------
(* Arrival order survives every step *)

(* The order of those that are owed a slice: the list, then the queue. *)
LEMMA ArrivalKeepsOrder ==
  ASSUME SchedulerInv, NEW e \in Fiber, NEW f, NEW h,
         Before(ready \o pending, f, h),
         \/ ready' = Append(ready, e) /\ pending' = pending
         \/ ready' = ready /\ pending' = Append(pending, e)
  PROVE  Before(ready' \o pending', f, h)
<1>1. ready \in Seq(Fiber) /\ pending \in Seq(Fiber)
  BY DEF SchedulerInv, TypeOK
<1>2. \/ Before(ready, f, h) \/ Before(pending, f, h)
      \/ f \in ToSet(ready) /\ h \in ToSet(pending)
  BY <1>1, BeforeConcat
<1>3. CASE ready' = Append(ready, e) /\ pending' = pending
  <2>1. /\ ready' \in Seq(Fiber) /\ ToSet(ready') = ToSet(ready) \cup {e}
        /\ Before(ready, f, h) => Before(ready', f, h)
    BY <1>1, <1>3, AppendFresh, BeforeAppend
  <2> QED BY <1>1, <1>2, <1>3, <2>1, BeforeConcat
<1>4. CASE ready' = ready /\ pending' = Append(pending, e)
  <2>1. /\ pending' \in Seq(Fiber) /\ ToSet(pending') = ToSet(pending) \cup {e}
        /\ Before(pending, f, h) => Before(pending', f, h)
    BY <1>1, <1>4, AppendFresh, BeforeAppend
  <2> QED BY <1>1, <1>2, <1>4, <2>1, BeforeConcat
<1> QED BY <1>3, <1>4

(* The queued wake that is replayed is its group's oldest, so it overtakes  *)
(* nobody of its group on its way from the queue to the list.               *)
LEMMA ReplayKeepsOrder ==
  ASSUME SchedulerInv, ReplayWake, NEW f \in Fiber, NEW h \in Fiber,
         GroupOf[f] = GroupOf[h], Before(ready \o pending, f, h)
  PROVE  Before(ready' \o pending', f, h)
<1>1. /\ ready \in Seq(Fiber) /\ pending \in Seq(Fiber)
      /\ NoRepeats(pending) /\ \A g \in ToSet(pending) : state[g] = "parked"
  BY DEF SchedulerInv, TypeOK, QueueIsOwed
<1>2. PICK i \in DOMAIN pending :
        /\ GroupOf[pending[i]] = resuming
        /\ \A j \in DOMAIN pending : j < i => GroupOf[pending[j]] # resuming
        /\ pending' = RemoveAt(pending, i)
        /\ state[pending[i]] = "parked" => ready' = Append(ready, pending[i])
  BY DEF ReplayWake, link_ready
<1> DEFINE e == pending[i]
<1>3. e \in ToSet(pending) /\ e \in Fiber
  BY <1>1, MembersAreFibers DEF ToSet
<1>4. ready' = Append(ready, e)  BY <1>1, <1>2, <1>3
<1>5. /\ pending' \in Seq(Fiber) /\ ToSet(pending') = ToSet(pending) \ {e}
      /\ Before(pending, f, h) /\ e \notin {f, h} => Before(pending', f, h)
  BY <1>1, <1>2, RemoveAtProperties, BeforeRemoveAt
<1>6. e = h => ~ Before(pending, f, h)
  BY <1>1, <1>2 DEF Before, NoRepeats
<1>7. Before(pending, f, h) => f \in ToSet(pending) /\ h \in ToSet(pending) /\ f # h
  BY <1>1 DEF Before, NoRepeats, ToSet
<1> HIDE DEF e
<1>8. /\ ready' \in Seq(Fiber) /\ ToSet(ready') = ToSet(ready) \cup {e}
      /\ Before(ready', f, h) <=> \/ Before(ready, f, h)
                                  \/ f \in ToSet(ready) /\ h = e
  BY <1>1, <1>3, <1>4, AppendFresh, BeforeAppend
<1>9. \/ Before(ready, f, h) \/ Before(pending, f, h)
      \/ f \in ToSet(ready) /\ h \in ToSet(pending)
  BY <1>1, BeforeConcat
<1>10. \/ Before(ready', f, h) \/ Before(pending', f, h)
       \/ f \in ToSet(ready') /\ h \in ToSet(pending')
  <2>1. CASE Before(ready, f, h)  BY <1>8, <2>1
  <2>2. CASE Before(pending, f, h)  BY <1>5, <1>6, <1>7, <1>8, <2>2
  <2>3. CASE f \in ToSet(ready) /\ h \in ToSet(pending)
    BY <1>5, <1>8, <2>3
  <2> QED BY <1>9, <2>1, <2>2, <2>3
<1> QED BY <1>5, <1>8, <1>10, BeforeConcat

(* The running fiber leaves the list, and nobody else moves. *)
LEMMA LeavingKeepsOrder ==
  ASSUME SchedulerInv, current # NoFiber, unlink_ready(current),
         pending' = pending, NEW f, NEW h, Before(ready \o pending, f, h),
         {f, h} \subseteq ToSet(ready' \o pending')
  PROVE  Before(ready' \o pending', f, h)
<1>1. /\ ready \in Seq(Fiber) /\ pending \in Seq(Fiber) /\ NoRepeats(ready)
      /\ current \in ToSet(ready) /\ current \notin ToSet(pending)
  BY DEF SchedulerInv, TypeOK, ListIsExact, QueueIsOwed,
         OneRunnerOutsideParkedGroups
<1> DEFINE i == Position(ready, current)
<1>2. i \in DOMAIN ready /\ ready[i] = current  BY <1>1, PositionOfMember
<1>3. ready' = RemoveAt(ready, i)  BY <1>1 DEF unlink_ready
<1> HIDE DEF i
<1>4. /\ ready' \in Seq(Fiber) /\ ToSet(ready') = ToSet(ready) \ {current}
      /\ Before(ready, f, h) /\ current \notin {f, h} => Before(ready', f, h)
  BY <1>1, <1>2, <1>3, RemoveAtProperties, BeforeRemoveAt
<1>5. ToSet(ready' \o pending') = ToSet(ready') \cup ToSet(pending)
  BY <1>1, <1>4, BeforeConcat
<1>6. current \notin {f, h}  BY <1>1, <1>4, <1>5
<1>7. \/ Before(ready, f, h) \/ Before(pending, f, h)
      \/ f \in ToSet(ready) /\ h \in ToSet(pending)
  BY <1>1, BeforeConcat
<1> QED BY <1>1, <1>4, <1>6, <1>7, BeforeConcat

LEMMA OrderStep ==
  ASSUME SchedulerInv, [Next]_vars, NEW f \in Fiber, NEW h \in Fiber,
         GroupOf[f] = GroupOf[h], Before(ready \o pending, f, h),
         {f, h} \subseteq ToSet(ready' \o pending')
  PROVE  Before(ready' \o pending', f, h)
<1>1. CASE \E g \in Fiber : Spawn(g)
  BY <1>1, ArrivalKeepsOrder DEF Spawn, link_ready
<1>2. CASE \E g \in Fiber : Wake(g)
  <2>1. PICK g \in Fiber : wake_parked(g)  BY <1>2 DEF Wake
  <2>2. CASE ready' = ready /\ pending' = pending  BY <2>2
  <2> QED BY <2>1, <2>2, ArrivalKeepsOrder DEF wake_parked, link_ready, listVars
<1>3. CASE ReplayWake  BY <1>3, ReplayKeepsOrder
<1>4. CASE Park \/ Finish  BY <1>4, LeavingKeepsOrder DEF Park, Finish
<1>5. CASE UNCHANGED <<ready, pending>>  BY <1>5
<1>6. CASE \E g \in Group : ParkGroup(g) \/ ResumeGroup(g)
  BY <1>5, <1>6 DEF ParkGroup, ResumeGroup, listVars
<1>7. CASE \E mask \in (SUBSET Group) \ {{}} : TickBegin(mask)
  BY <1>5, <1>7 DEF TickBegin, listVars
<1>8. CASE ResumeDone \/ SliceBegin \/ TickSkip \/ TickEnd \/ Yield
  BY <1>5, <1>8 DEF ResumeDone, SliceBegin, TickSkip, TickEnd, Yield, listVars
<1>9. CASE UNCHANGED vars  BY <1>5, <1>9 DEF vars, listVars
<1> QED
  BY <1>1, <1>2, <1>3, <1>4, <1>6, <1>7, <1>8, <1>9 DEF Next, SliceEnd

-----------------------------------------------------------------------------
(* A tick walks the list as it was when it began *)

(* From its cursor to its boundary the list still reads as the snapshot     *)
(* does, whatever arrived behind the boundary and whoever has left; and     *)
(* what has been served lies before the cursor.                             *)
WalkIsMapped ==
  /\ TickFollowsSnapshot
  /\ NoRepeats(snapshot)
  /\ current # NoFiber => current \in ToSet(served)
  /\ tickNext # NoFiber =>
       \E n \in DOMAIN snapshot :
         /\ snapshot[n] = tickNext
         /\ tickBoundary = snapshot[Len(snapshot)]
         /\ \A k \in n..(Len(snapshot) - 1) :
              Adjacent(ready, snapshot[k], snapshot[k + 1])
         /\ \A i \in DOMAIN served : Position(snapshot, served[i]) < n

(* An edit that leaves neighbours other than the runner neighbours leaves   *)
(* the rest of the walk as it was.                                          *)
LEMMA WalkSurvives ==
  ASSUME SchedulerInv, WalkIsMapped,
         UNCHANGED <<tickNext, tickBoundary, snapshot, served>>,
         current' \in {current, NoFiber},
         \A x, y \in Fiber :
           Adjacent(ready, x, y) /\ current \notin {x, y} => Adjacent(ready', x, y)
  PROVE  WalkIsMapped'
<1>1. /\ snapshot \in Seq(Fiber) /\ NoRepeats(snapshot)
      /\ DOMAIN snapshot = 1..Len(snapshot) /\ Len(snapshot) \in Nat
      /\ \A k \in DOMAIN snapshot : snapshot[k] \in Fiber
  BY LenProperties, ElementOfSeq DEF SchedulerInv, TypeOK, WalkIsMapped
<1>2. TickFollowsSnapshot' /\ NoRepeats(snapshot')
      /\ (current' # NoFiber => current' \in ToSet(served'))
  BY DEF WalkIsMapped, TickFollowsSnapshot
<1>3. ASSUME tickNext # NoFiber
      PROVE  \E n \in DOMAIN snapshot :
               /\ snapshot[n] = tickNext
               /\ tickBoundary = snapshot[Len(snapshot)]
               /\ \A k \in n..(Len(snapshot) - 1) :
                    Adjacent(ready', snapshot[k], snapshot[k + 1])
               /\ \A i \in DOMAIN served : Position(snapshot, served[i]) < n
  <2>1. PICK n \in DOMAIN snapshot :
          /\ snapshot[n] = tickNext
          /\ tickBoundary = snapshot[Len(snapshot)]
          /\ \A k \in n..(Len(snapshot) - 1) :
               Adjacent(ready, snapshot[k], snapshot[k + 1])
          /\ \A i \in DOMAIN served : Position(snapshot, served[i]) < n
    BY <1>3 DEF WalkIsMapped
  <2>2. ASSUME NEW k \in DOMAIN snapshot, k >= n PROVE snapshot[k] # current
    <3>1. CASE current = NoFiber  BY <1>1, <3>1, GroupAssumption
    <3>2. CASE current # NoFiber
      <4>1. PICK i \in DOMAIN served : served[i] = current
        BY <3>2 DEF WalkIsMapped, ToSet
      <4>2. current \in ToSet(snapshot)
        BY <4>1 DEF WalkIsMapped, TickFollowsSnapshot
      <4>3. /\ Position(snapshot, current) \in DOMAIN snapshot
            /\ snapshot[Position(snapshot, current)] = current
            /\ Position(snapshot, current) < n
        BY <2>1, <4>1, <4>2, PositionOfMember
      <4> QED BY <1>1, <2>2, <4>3 DEF NoRepeats
    <3> QED BY <3>1, <3>2
  <2>3. ASSUME NEW k \in n..(Len(snapshot) - 1)
        PROVE  Adjacent(ready', snapshot[k], snapshot[k + 1])
    <3>1. k \in DOMAIN snapshot /\ k + 1 \in DOMAIN snapshot /\ k >= n /\ k + 1 >= n
      BY <1>1
    <3>2. Adjacent(ready, snapshot[k], snapshot[k + 1])  BY <2>1
    <3> QED BY <1>1, <2>2, <3>1, <3>2
  <2> QED BY <2>1, <2>3
<1> QED BY <1>2, <1>3 DEF WalkIsMapped

(* The cursor moves to the snapshot's next fiber, or the walk is over. *)
LEMMA AdvanceFollows ==
  ASSUME SchedulerInv, WalkIsMapped, tickNext # NoFiber, Advance(tickNext)
  PROVE  \E n \in DOMAIN snapshot :
           /\ snapshot[n] = tickNext
           /\ \A i \in DOMAIN served : Position(snapshot, served[i]) < n
           /\ tickNext' # NoFiber =>
                /\ n + 1 \in DOMAIN snapshot /\ tickNext' = snapshot[n + 1]
                /\ tickBoundary = snapshot[Len(snapshot)]
                /\ \A k \in (n + 1)..(Len(snapshot) - 1) :
                     Adjacent(ready, snapshot[k], snapshot[k + 1])
<1>1. /\ DOMAIN snapshot = 1..Len(snapshot) /\ Len(snapshot) \in Nat
      /\ DOMAIN ready = 1..Len(ready) /\ Len(ready) \in Nat /\ NoRepeats(ready)
  BY LenProperties DEF SchedulerInv, TypeOK, ListIsExact
<1>2. PICK n \in DOMAIN snapshot :
        /\ snapshot[n] = tickNext
        /\ tickBoundary = snapshot[Len(snapshot)]
        /\ \A k \in n..(Len(snapshot) - 1) :
             Adjacent(ready, snapshot[k], snapshot[k + 1])
        /\ \A i \in DOMAIN served : Position(snapshot, served[i]) < n
  BY DEF WalkIsMapped
<1>3. ASSUME tickNext' # NoFiber
      PROVE  n + 1 \in DOMAIN snapshot /\ tickNext' = snapshot[n + 1]
  <2>1. tickNext # tickBoundary /\ tickNext' = ReadyNext(tickNext)
    BY <1>3 DEF Advance
  <2>2. n < Len(snapshot)  BY <1>1, <1>2, <2>1
  <2>3. PICK j \in 1..(Len(ready) - 1) :
          ready[j] = tickNext /\ ready[j + 1] = snapshot[n + 1]
    BY <1>1, <1>2, <2>2 DEF Adjacent
  <2>4. j \in DOMAIN ready /\ j < Len(ready)  BY <1>1
  <2>5. Position(ready, tickNext) = j  BY <1>1, <2>3, <2>4, PositionOfIndex
  <2>6. ReadyNext(tickNext) = ready[j + 1]  BY <2>4, <2>5 DEF ReadyNext
  <2> QED BY <1>1, <2>1, <2>2, <2>3, <2>6
<1>4. \A k \in (n + 1)..(Len(snapshot) - 1) :
        Adjacent(ready, snapshot[k], snapshot[k + 1])
  BY <1>1, <1>2
<1> QED BY <1>2, <1>3, <1>4

LEMMA SliceKeepsWalk ==
  ASSUME SchedulerInv, WalkIsMapped, SliceBegin
  PROVE  WalkIsMapped'
<1>1. /\ tickNext # NoFiber /\ Advance(tickNext) /\ current' = tickNext
      /\ served' = Append(served, tickNext)
      /\ UNCHANGED <<ready, tickBoundary, snapshot>>
      /\ tickNext \in Fiber
  BY DEF SliceBegin, listVars, SchedulerInv, TypeOK
<1>2. PICK n \in DOMAIN snapshot :
        /\ snapshot[n] = tickNext
        /\ \A i \in DOMAIN served : Position(snapshot, served[i]) < n
        /\ tickNext' # NoFiber =>
             /\ n + 1 \in DOMAIN snapshot /\ tickNext' = snapshot[n + 1]
             /\ tickBoundary = snapshot[Len(snapshot)]
             /\ \A k \in (n + 1)..(Len(snapshot) - 1) :
                  Adjacent(ready, snapshot[k], snapshot[k + 1])
  BY <1>1, AdvanceFollows
<1>3. /\ served \in Seq(Fiber) /\ NoRepeats(snapshot) /\ TickFollowsSnapshot
      /\ DOMAIN snapshot \subseteq Nat
  BY LenProperties DEF SchedulerInv, TypeOK, WalkIsMapped
<1>4. /\ DOMAIN served = 1..Len(served) /\ Len(served) \in Nat
      /\ DOMAIN served' = 1..(Len(served) + 1)
      /\ \A i \in DOMAIN served : served'[i] = served[i]
      /\ served'[Len(served) + 1] = tickNext
  BY <1>1, <1>3, AppendProperties, LenProperties
<1>5. Position(snapshot, tickNext) = n
  BY <1>2, <1>3, PositionOfIndex
<1>6. tickNext \in ToSet(snapshot) /\ tickNext \in ToSet(served')
  BY <1>2, <1>4 DEF ToSet
<1>7. \A i \in DOMAIN served' :
        /\ served'[i] \in ToSet(snapshot)
        /\ Position(snapshot, served'[i]) < n + 1
  <2> SUFFICES ASSUME NEW i \in DOMAIN served'
               PROVE  /\ served'[i] \in ToSet(snapshot)
                      /\ Position(snapshot, served'[i]) < n + 1
    OBVIOUS
  <2>1. CASE i = Len(served) + 1
    BY <1>3, <1>4, <1>5, <1>6, <2>1
  <2>2. CASE i \in DOMAIN served
    <3>1. served'[i] = served[i] /\ served[i] \in ToSet(snapshot)
      BY <1>3, <1>4, <2>2 DEF TickFollowsSnapshot
    <3>2. Position(snapshot, served[i]) \in DOMAIN snapshot
      BY <3>1, PositionOfMember
    <3>3. Position(snapshot, served[i]) < n  BY <1>2, <2>2
    <3> QED BY <1>3, <3>1, <3>2, <3>3
  <2> QED BY <1>4, <2>1, <2>2
<1>8. \A i, j \in DOMAIN served' :
        i < j => Position(snapshot, served'[i]) < Position(snapshot, served'[j])
  <2> SUFFICES ASSUME NEW i \in DOMAIN served', NEW j \in DOMAIN served', i < j
               PROVE  Position(snapshot, served'[i]) < Position(snapshot, served'[j])
    OBVIOUS
  <2>1. i \in DOMAIN served /\ served'[i] = served[i]  BY <1>4
  <2>2. CASE j = Len(served) + 1  BY <1>2, <1>4, <1>5, <2>1, <2>2
  <2>3. CASE j \in DOMAIN served
    BY <1>3, <1>4, <2>1, <2>3 DEF TickFollowsSnapshot
  <2> QED BY <1>4, <2>2, <2>3
<1>9. TickFollowsSnapshot'
  BY <1>1, <1>7, <1>8 DEF TickFollowsSnapshot
<1> QED BY <1>1, <1>2, <1>3, <1>6, <1>7, <1>9 DEF WalkIsMapped

LEMMA SkipKeepsWalk ==
  ASSUME SchedulerInv, WalkIsMapped, TickSkip
  PROVE  WalkIsMapped'
<1>1. /\ tickNext # NoFiber /\ Advance(tickNext) /\ current' = current
      /\ UNCHANGED <<ready, tickBoundary, snapshot, served>>
  BY DEF TickSkip, listVars
<1>2. PICK n \in DOMAIN snapshot :
        /\ snapshot[n] = tickNext
        /\ \A i \in DOMAIN served : Position(snapshot, served[i]) < n
        /\ tickNext' # NoFiber =>
             /\ n + 1 \in DOMAIN snapshot /\ tickNext' = snapshot[n + 1]
             /\ tickBoundary = snapshot[Len(snapshot)]
             /\ \A k \in (n + 1)..(Len(snapshot) - 1) :
                  Adjacent(ready, snapshot[k], snapshot[k + 1])
  BY <1>1, AdvanceFollows
<1>3. DOMAIN snapshot \subseteq Nat
  BY LenProperties DEF SchedulerInv, TypeOK
<1>4. ASSUME NEW i \in DOMAIN served PROVE Position(snapshot, served[i]) < n + 1
  <2>1. Position(snapshot, served[i]) \in DOMAIN snapshot
    BY PositionOfMember DEF WalkIsMapped, TickFollowsSnapshot
  <2> QED BY <1>2, <1>3, <2>1
<1>5. TickFollowsSnapshot' /\ NoRepeats(snapshot')
      /\ (current' # NoFiber => current' \in ToSet(served'))
  BY <1>1 DEF WalkIsMapped, TickFollowsSnapshot
<1> QED BY <1>1, <1>2, <1>4, <1>5 DEF WalkIsMapped

LEMMA BeginStartsWalk ==
  ASSUME SchedulerInv, NEW mask, TickBegin(mask)
  PROVE  WalkIsMapped'
<1>1. /\ snapshot' = ready /\ served' = <<>> /\ ready' = ready /\ current' = current
      /\ tickNext' = IF ready = <<>> THEN NoFiber ELSE Head(ready)
      /\ tickBoundary' = IF ready = <<>> THEN NoFiber ELSE ready[Len(ready)]
      /\ current = NoFiber
  BY DEF TickBegin, listVars, SchedulerInv, OneRunnerOutsideParkedGroups
<1>2. /\ DOMAIN ready = 1..Len(ready) /\ Len(ready) \in Nat /\ NoRepeats(ready)
      /\ ready \in Seq(Fiber)
  BY LenProperties DEF SchedulerInv, TypeOK, ListIsExact
<1>3. TickFollowsSnapshot' /\ NoRepeats(snapshot')
  BY <1>1, <1>2 DEF TickFollowsSnapshot
<1>4. ASSUME tickNext' # NoFiber
      PROVE  \E n \in DOMAIN ready :
               /\ ready[n] = tickNext'
               /\ tickBoundary' = ready[Len(ready)]
               /\ \A k \in n..(Len(ready) - 1) :
                    Adjacent(ready, ready[k], ready[k + 1])
  <2>1. ready # <<>> /\ Head(ready) = ready[1] /\ 1 \in DOMAIN ready
    BY <1>1, <1>2, <1>4, HeadTailProperties, EmptySeq
  <2> QED BY <1>1, <1>2, <2>1 DEF Adjacent
<1> QED BY <1>1, <1>3, <1>4 DEF WalkIsMapped

LEMMA WalkStep ==
  ASSUME SchedulerInv, WalkIsMapped, [Next]_vars
  PROVE  WalkIsMapped'
<1>0. ready \in Seq(Fiber) /\ NoRepeats(ready)
  BY DEF SchedulerInv, TypeOK, ListIsExact
<1>1. CASE \E f \in Fiber : Spawn(f) \/ Wake(f)
  <2>1. /\ UNCHANGED <<tickNext, tickBoundary, snapshot, served>> /\ current' = current
        /\ ready' = ready \/ \E f \in Fiber : ready' = Append(ready, f)
    BY <1>1 DEF Spawn, Wake, wake_parked, link_ready, listVars, tickVars
  <2> QED BY <1>0, <2>1, WalkSurvives, AdjacentAppend
<1>2. CASE ReplayWake
  <2>1. /\ UNCHANGED <<tickNext, tickBoundary, snapshot, served>> /\ current' = current
        /\ \/ ready' = ready
           \/ \E i \in DOMAIN pending : ready' = Append(ready, pending[i])
    BY <1>2 DEF ReplayWake, link_ready, listVars, tickVars
  <2>2. \A i \in DOMAIN pending : pending[i] \in Fiber
    BY LenProperties, ElementOfSeq DEF SchedulerInv, TypeOK
  <2> QED BY <1>0, <2>1, <2>2, WalkSurvives, AdjacentAppend
<1>3. CASE Park \/ Finish
  <2>1. /\ UNCHANGED <<tickNext, tickBoundary, snapshot, served>> /\ current' = NoFiber
        /\ current # NoFiber /\ unlink_ready(current)
    BY <1>3 DEF Park, Finish, tickVars
  <2>2. current \in ToSet(ready)
    BY <2>1 DEF SchedulerInv, TypeOK, ListIsExact, OneRunnerOutsideParkedGroups
  <2> DEFINE i == Position(ready, current)
  <2>3. i \in DOMAIN ready /\ ready[i] = current  BY <2>2, PositionOfMember
  <2>4. ready' = RemoveAt(ready, i)  BY <2>1, <2>2 DEF unlink_ready
  <2> HIDE DEF i
  <2>5. \A x, y \in Fiber :
          Adjacent(ready, x, y) /\ current \notin {x, y} => Adjacent(ready', x, y)
    BY <1>0, <2>3, <2>4, AdjacentRemoveAt
  <2> QED BY <2>1, <2>5, WalkSurvives
<1>4. CASE /\ UNCHANGED <<tickNext, tickBoundary, snapshot, served, ready>>
           /\ current' \in {current, NoFiber}
  BY <1>4, WalkSurvives
<1>5. CASE \E g \in Group : ParkGroup(g) \/ ResumeGroup(g)
  BY <1>4, <1>5 DEF ParkGroup, ResumeGroup, listVars, tickVars
<1>6. CASE ResumeDone \/ Yield \/ UNCHANGED vars
  BY <1>4, <1>6 DEF ResumeDone, Yield, vars, listVars, tickVars
<1>7. CASE \E mask \in (SUBSET Group) \ {{}} : TickBegin(mask)
  BY <1>7, BeginStartsWalk
<1>8. CASE SliceBegin  BY <1>8, SliceKeepsWalk
<1>9. CASE TickSkip  BY <1>9, SkipKeepsWalk
<1>10. CASE TickEnd
  BY <1>10 DEF TickEnd, WalkIsMapped, TickFollowsSnapshot, NoRepeats
<1> QED
  BY <1>1, <1>2, <1>3, <1>5, <1>6, <1>7, <1>8, <1>9, <1>10 DEF Next, SliceEnd

(* A tick slices what the list held when it began, in its order, and of two *)
(* fibers of a group the one that arrived first stays first.                *)
THEOREM OrderKept == Spec => OrderIsKept
<1>1. Init => WalkIsMapped
  BY DEF Init, WalkIsMapped, TickFollowsSnapshot, NoRepeats
<1>2. SchedulerInv /\ WalkIsMapped /\ [Next]_vars =>
        /\ WalkIsMapped'
        /\ [/\ TickFollowsSnapshot'
            /\ \A f, h \in Fiber :
                 /\ GroupOf[f] = GroupOf[h]
                 /\ Before(ready \o pending, f, h)
                 /\ {f, h} \subseteq ToSet(ready \o pending)'
                 => Before((ready \o pending)', f, h)]_vars
  <2> SUFFICES ASSUME SchedulerInv, WalkIsMapped, [Next]_vars
               PROVE  /\ WalkIsMapped'
                      /\ TickFollowsSnapshot'
                      /\ \A f, h \in Fiber :
                           /\ GroupOf[f] = GroupOf[h]
                           /\ Before(ready \o pending, f, h)
                           /\ {f, h} \subseteq ToSet(ready \o pending)'
                           => Before((ready \o pending)', f, h)
    OBVIOUS
  <2>1. WalkIsMapped'  BY WalkStep
  <2>2. TickFollowsSnapshot'  BY <2>1 DEF WalkIsMapped
  <2>3. ToSet(ready \o pending)' = ToSet(ready' \o pending')  BY DEF ToSet
  <2> QED BY <2>1, <2>2, <2>3, OrderStep
<1> QED BY <1>1, <1>2, SchedulerInvariant, PTL DEF Spec, OrderIsKept

=============================================================================
