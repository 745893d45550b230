---------------------------- MODULE HistoryStore ----------------------------
(***************************************************************************)
(* The two-tier command history of src/src/ui/history: several shells      *)
(* share one history.data (tier 1, replaced whole by rename) and one       *)
(* history.new.log (tier 2, appended to), and none knows of the others.    *)
(*                                                                         *)
(* A file is known by its inode; the bytes of history.data never change in *)
(* place, so an inode's records are fixed when it appears at the path.  A  *)
(* record is its command: the dedup and the cap, which are about order and *)
(* time, are HistoryMerge's.  A shell is one thread, so its own operations *)
(* never interleave; the steps are the system calls another shell, or a    *)
(* crash, can come between.                                                *)
(***************************************************************************)
EXTENDS Integers, FiniteSets, SequencesExt

CONSTANTS
  Shell,     \* the processes sharing the directory
  Command,   \* command lines
  Secret,    \* those that begin with a space
  NoFile,    \* no such file, no such descriptor
  NoShell,   \* nobody holds the lock
  MaxTries,  \* k_max_save_tries
  MaxFile,   \* bound: inodes ever at the path
  Worlds     \* the worlds to check; an execution is in one of them:
             \*   shells     how many are alive at a time
             \*   commands   what is typed
             \*   kinds      what may be at the path at first
             \*   faults     what may go wrong
             \*   frequency  k_vacuum_frequency
             \*   adds       bound: commands entered
             \*   crashes    bound: crashes and exits

(* A slow lock is an flock that takes longer than k_lock_give_up_seconds;  *)
(* a foreign file is one another program puts at the path.                 *)
Fault == {"slow lock", "refused lock", "failed write", "foreign file"}

ASSUME HistoryAssumption ==
  /\ Secret \subseteq Command
  /\ "torn" \notin Command
  /\ MaxFile \in Nat /\ NoFile \notin 0..MaxFile
  /\ NoShell \notin Shell
  /\ MaxTries \in Nat \ {0}
  /\ \A w \in Worlds :
       /\ w.commands \subseteq Command
       /\ w.kinds \subseteq {"absent", "ours", "foreign", "corrupt"}
       /\ w.faults \subseteq Fault
       /\ w.frequency \in Nat \ {0}
       /\ {w.shells, w.adds, w.crashes} \subseteq Nat

Inode == 0..MaxFile

VARIABLES
  world,     \* the one of Worlds this execution is in
  dataPath,  \* the inode history.data names
  file,      \* what each inode holds: its kind, and its commands
  fresh,     \* the next inode
  aside,     \* the inodes that were renamed aside as corrupt
  log,       \* the frames of history.new.log
  holder,    \* who holds LOCK_EX on each inode
  sh,        \* each shell's memory (Boot names the fields)
  durable,   \* history: commands whose frame reached the log
  raced,     \* history: those appended while a sibling was in its vacuum
  adds, crashes

disk == <<dataPath, file, fresh, aside, log>>
vars == <<world, disk, holder, sh, durable, raced, adds, crashes>>

Torn == "torn"   \* a frame cut short: bytes, and no record

NoVacuum ==
  [session |-> {}, log |-> {}, len |-> 0, before |-> NoFile,
   target |-> NoFile, merged |-> {}, corrupt |-> FALSE, tries |-> 0]

(* What O_CREAT makes. *)
Empty == [kind |-> "ours", cmds |-> {}]

(* A store as its constructor leaves it. *)
Boot ==
  [pc |-> "dead", then |-> "none",
   items |-> <<>>,         \* _new_items: the command, and whether it runs
   unwritten |-> 0,        \* _first_unwritten
   logged |-> {},          \* _logged
   mapped |-> NoFile,      \* _blob
   untouchable |-> FALSE,  \* _tier1_untouchable
   dataId |-> NoFile,      \* _data_id
   reload |-> FALSE,       \* _reload_needed
   notified |-> FALSE,     \* the directory watch is readable
   countdown |-> -1,       \* _vacuum_countdown
   abandoned |-> FALSE,    \* the give-up latch
   own |-> {},             \* history: disk commands this session resolved
   vac |-> NoVacuum]       \* the locals of vacuum()

(* What the directory holds before any shell starts. *)
Init ==
  /\ world \in Worlds
  /\ \E kind \in world.kinds :
       \E cmds \in {{}} \cup (IF kind = "ours"
                       THEN {{c} : c \in world.commands \ Secret} ELSE {}) :
         /\ dataPath = IF kind = "absent" THEN NoFile ELSE 0
         /\ file = [i \in Inode |->
                      IF i = 0 /\ kind # "absent"
                      THEN [kind |-> kind, cmds |-> cmds] ELSE Empty]
         /\ durable = cmds
  /\ fresh = 1
  /\ aside = {}
  /\ log = <<>>
  /\ holder = [i \in Inode |-> NoShell]
  /\ sh = [s \in Shell |-> Boot]
  /\ raced = {}
  /\ adds = 0
  /\ crashes = 0

-----------------------------------------------------------------------------
(* Helpers *)

May(fault) == fault \in world.faults

InLog == ToSet(log) \ {Torn}

(* persist_mode, read off the command: a leading space is ephemeral. *)
DiskItem(c) == c \notin Secret

(* Seeded fault: the lock is leaked. *)
LockLeaked(s) == holder

Unlocked(s) == [i \in Inode |-> IF holder[i] = s THEN NoShell ELSE holder[i]]

(* Inotify tells every watcher that a name appeared in the directory. *)
Notified(mem) ==
  [q \in Shell |-> IF mem[q].pc \in {"dead", "boot_map", "boot_log"} THEN mem[q]
                   ELSE [mem[q] EXCEPT !.notified = TRUE]]

(* map_tier1's second half: open, map, verify; the flags are re-derived.   *)
MapTier1(m, f) ==
  LET kind == IF f = NoFile THEN "absent" ELSE file[f].kind
  IN  [m EXCEPT !.mapped = IF kind = "ours" THEN f ELSE NoFile,
                !.untouchable = kind = "foreign"]

(* note_tier1_identity *)
Note(m) == [m EXCEPT !.reload = @ \/ dataPath # m.dataId]

(* publish: the one consumer of the reload flag.  A reload takes the id    *)
(* first and maps afterwards, in Remap.                                    *)
Publish(m, next) ==
  IF m.reload
  THEN [m EXCEPT !.reload = FALSE, !.dataId = dataPath,
                 !.pc = "remap", !.then = next]
  ELSE [m EXCEPT !.pc = next]

(* What vacuum_now hands over: the resolved items that may be written. *)
Session(m) == {m.items[i].cmd : i \in {j \in DOMAIN m.items :
                 ~ m.items[j].pending /\ DiskItem(m.items[j].cmd)}}

(* What a walk of the view yields: own items, the log read, the mapping. *)
ViewOf(m) ==
  {m.items[i].cmd : i \in {j \in DOMAIN m.items : ~ m.items[j].pending}}
  \cup m.logged
  \cup (IF m.mapped = NoFile THEN {} ELSE file[m.mapped].cmds)

-----------------------------------------------------------------------------
(* Opening *)

Start(s) ==
  /\ sh[s].pc = "dead"
  /\ Cardinality({q \in Shell : sh[q].pc # "dead"}) < world.shells
  /\ sh' = [sh EXCEPT ![s].pc = "boot_map", ![s].dataId = dataPath]
  /\ UNCHANGED <<world, disk, holder, durable, raced, adds, crashes>>

BootMap(s) ==
  /\ sh[s].pc = "boot_map"
  /\ sh' = [sh EXCEPT ![s] = [MapTier1(sh[s], dataPath) EXCEPT !.pc = "boot_log"]]
  /\ UNCHANGED <<world, disk, holder, durable, raced, adds, crashes>>

(* The log is read, and the directory watch opens last. *)
BootLog(s) ==
  /\ sh[s].pc = "boot_log"
  /\ sh' = [sh EXCEPT ![s].pc = "idle", ![s].logged = InLog]
  /\ UNCHANGED <<world, disk, holder, durable, raced, adds, crashes>>

Remap(s) ==
  /\ sh[s].pc = "remap"
  /\ sh' = [sh EXCEPT ![s] = [MapTier1(sh[s], dataPath) EXCEPT !.pc = sh[s].then,
                                                            !.then = "none"]]
  /\ UNCHANGED <<world, disk, holder, durable, raced, adds, crashes>>

(* drain_watch, at the prompt or while a command runs. *)
DrainWatch(s) ==
  /\ sh[s].pc \in {"idle", "exec"}
  /\ sh[s].notified
  /\ sh' = [sh EXCEPT ![s] =
              Publish(Note([sh[s] EXCEPT !.notified = FALSE]), sh[s].pc)]
  /\ UNCHANGED <<world, disk, holder, durable, raced, adds, crashes>>

-----------------------------------------------------------------------------
(* Recording *)

(* add(c, pending): a leading-space command is forgotten by the next add;  *)
(* a command typed twice in a row is one item, and the cursor rewinds to   *)
(* it.  A blank line is rejected, which changes nothing.                   *)
Add(s, c) ==
  LET m == sh[s]
      kept == SubSeq(m.items, 1,
                Max({0} \cup {i \in DOMAIN m.items : DiskItem(m.items[i].cmd)}))
      again == kept # <<>> /\ Last(kept).cmd = c
      items == IF again THEN [kept EXCEPT ![Len(kept)].pending = TRUE]
                        ELSE Append(kept, [cmd |-> c, pending |-> TRUE])
      cursor == IF again THEN Len(kept) - 1 ELSE Len(kept)
  IN  /\ m.pc = "idle"
      /\ adds < world.adds
      /\ adds' = adds + 1
      /\ sh' = [sh EXCEPT ![s] =
                  Publish([m EXCEPT !.items = items,
                                    !.unwritten = IF @ > cursor THEN cursor ELSE @],
                          "exec")]
      /\ UNCHANGED <<world, disk, holder, durable, raced, crashes>>

(* resolve_pending, up to flush's first write: the command has returned,   *)
(* and the append path checks tier 1's identity.                           *)
Resolve(s) ==
  LET m == sh[s] IN
  /\ m.pc = "exec"
  /\ sh' = [sh EXCEPT ![s] =
              [Note(m) EXCEPT !.items[Len(m.items)].pending = FALSE,
                              !.own = IF DiskItem(Last(m.items).cmd)
                                      THEN @ \cup {Last(m.items).cmd} ELSE @,
                              !.pc = "flush"]]
  /\ UNCHANGED <<world, disk, holder, durable, raced, adds, crashes>>

(* A shell between its vacuum's read of the log and its truncation of it. *)
InVacuum(s) ==
  sh[s].pc \in {"vac_build", "vac_open", "vac_lock", "vac_aside", "vac_rename",
                "vac_check", "vac_truncate"}

(* One item of flush's loop, a single writev; the cursor passes the item   *)
(* whatever came of it.  The last one publishes, and a disk item counts    *)
(* towards the next vacuum.  The log's own lock only orders the flushes    *)
(* and is left out: more interleavings, none fewer.                        *)
FlushItem(s) ==
  LET m == sh[s]
      c == m.items[m.unwritten + 1].cmd
      stepped == [m EXCEPT !.unwritten = @ + 1]
  IN  /\ m.pc = "flush"
      /\ sh' = [sh EXCEPT ![s] =
                  IF stepped.unwritten < Len(m.items) THEN stepped
                  ELSE Publish(stepped, IF DiskItem(c) THEN "count" ELSE "idle")]
      /\ \/ /\ DiskItem(c)
            /\ log' = Append(log, c)
            /\ durable' = durable \cup {c}
            /\ raced' = IF \E q \in Shell \ {s} : InVacuum(q)
                        THEN raced \cup {c} ELSE raced
         \/ /\ DiskItem(c) /\ May("failed write")
            /\ log' \in {log, Append(log, Torn)}
            /\ UNCHANGED <<durable, raced>>
         \/ /\ ~ DiskItem(c)
            /\ UNCHANGED <<log, durable, raced>>
      /\ UNCHANGED <<world, dataPath, file, fresh, aside, holder, adds, crashes>>

(* maybe_vacuum: the first countdown is random. *)
Count(s) ==
  /\ sh[s].pc = "count"
  /\ \E k \in IF sh[s].countdown = -1 THEN 0..(world.frequency - 1)
                                      ELSE {sh[s].countdown} :
       sh' = [sh EXCEPT ![s].countdown = IF k > 0 THEN k - 1
                                                  ELSE world.frequency - 1,
                        ![s].pc = IF k > 0 THEN "idle" ELSE "vac_read"]
  /\ UNCHANGED <<world, disk, holder, durable, raced, adds, crashes>>

-----------------------------------------------------------------------------
(* The vacuum *)

(* The end of a vacuum that renamed nothing: the fallback flush finds no   *)
(* unwritten item, since resolve_pending has just flushed.                 *)
GiveUp(m) == [m EXCEPT !.pc = "idle", !.vac = NoVacuum]

(* Refused by policy; or no temp file; or the log is read, once.           *)
VacuumRead(s) ==
  LET m == sh[s] IN
  /\ m.pc = "vac_read"
  /\ \/ /\ m.untouchable \/ May("failed write")
        /\ sh' = [sh EXCEPT ![s] = GiveUp(m)]
     \/ /\ ~ m.untouchable
        /\ sh' = [sh EXCEPT ![s].pc = "vac_build",
                            ![s].vac = [NoVacuum EXCEPT !.session = Session(m),
                                                        !.log = InLog,
                                                        !.len = Len(log)]]
  /\ UNCHANGED <<world, disk, holder, durable, raced, adds, crashes>>

(* Seeded fault: the log is not merged. *)
MergedWithoutLog(m, old) == old.cmds \cup m.vac.session

(* What the new blob holds, and when the vacuum must not build one. *)
Merged(m, old) == old.cmds \cup m.vac.log \cup m.vac.session
Refused(old) == old.kind = "foreign"

(* Steps 1 and 2: open the target (creating it), remember its identity,    *)
(* read it through the descriptor, and build the temp file.  Refused when  *)
(* it is not ours; given up when the temp file cannot be written.          *)
VacuumBuild(s) ==
  LET m == sh[s] IN
  /\ m.pc = "vac_build"
  /\ dataPath = NoFile => fresh <= MaxFile
  /\ dataPath' = IF dataPath = NoFile THEN fresh ELSE dataPath
  /\ fresh' = IF dataPath = NoFile THEN fresh + 1 ELSE fresh
  /\ LET old == file[dataPath']
         built == [sh EXCEPT ![s].pc = "vac_open",
                             ![s].vac.before = dataPath',
                             ![s].vac.corrupt = old.kind = "corrupt",
                             ![s].vac.merged = Merged(m, old)]
         mem == IF Refused(old)
                THEN {[sh EXCEPT ![s] = GiveUp(m)]}
                ELSE {built} \cup (IF May("failed write")
                                   THEN {[sh EXCEPT ![s] = GiveUp(m)]} ELSE {})
     IN  \E after \in mem :
           sh' = IF dataPath = NoFile THEN Notified(after) ELSE after
  /\ UNCHANGED <<world, file, aside, log, holder, durable, raced, adds, crashes>>

(* Step 3: the path is opened again, and what was opened is locked. *)
VacuumOpen(s) ==
  /\ sh[s].pc = "vac_open"
  /\ sh' = [sh EXCEPT ![s].pc = "vac_lock", ![s].vac.target = dataPath]
  /\ UNCHANGED <<world, disk, holder, durable, raced, adds, crashes>>

(* Seeded fault: the path is not looked up again. *)
UnmovedUnchecked(m) == TRUE

(* The second look at the path: the same file, or nothing to defend. *)
Unmoved(m) ==
  LET after == IF m.vac.target = NoFile THEN NoFile ELSE dataPath
  IN  after = NoFile \/ after = m.vac.before

LockHeld(target, s) == [holder EXCEPT ![target] = s]

(* The lock: taken when free, perhaps slowly, which gives up on locking    *)
(* for the life of the process; or refused, or no longer asked for.  Then  *)
(* the path is looked up once more: the same file, or nothing there, and   *)
(* the vacuum goes on under the lock; another file, and it starts over.    *)
VacuumLock(s) ==
  LET m == sh[s]
      target == m.vac.target
      lockable == target # NoFile /\ ~ m.abandoned
      going == IF Unmoved(m)
               THEN [m EXCEPT !.pc = IF m.vac.corrupt THEN "vac_aside"
                                                      ELSE "vac_rename"]
               ELSE IF m.vac.tries + 1 < MaxTries
               THEN [m EXCEPT !.pc = "vac_build", !.vac.tries = @ + 1]
               ELSE GiveUp(m)
  IN  /\ m.pc = "vac_lock"
      /\ \/ /\ lockable /\ holder[target] = NoShell
            /\ holder' = IF Unmoved(m) THEN LockHeld(target, s) ELSE holder
            /\ \E slow \in {FALSE, May("slow lock")} :
                 sh' = [sh EXCEPT ![s] = [going EXCEPT !.abandoned = slow]]
         \/ /\ ~ lockable \/ May("refused lock")
            /\ sh' = [sh EXCEPT ![s] = going]
            /\ UNCHANGED holder
      /\ UNCHANGED <<world, disk, durable, raced, adds, crashes>>

(* A corrupt file is renamed aside first; failing that, nothing is rebuilt. *)
VacuumAside(s) ==
  /\ sh[s].pc = "vac_aside"
  /\ IF dataPath = NoFile
     THEN /\ sh' = [sh EXCEPT ![s] = GiveUp(sh[s])]
          /\ holder' = Unlocked(s)
          /\ UNCHANGED <<dataPath, aside>>
     ELSE /\ aside' = aside \cup {dataPath}
          /\ dataPath' = NoFile
          /\ sh' = Notified([sh EXCEPT ![s].pc = "vac_rename"])
          /\ UNCHANGED holder
  /\ UNCHANGED <<world, file, fresh, log, durable, raced, adds, crashes>>

(* Step 5: the temp file slides into place, and the lock is dropped. *)
VacuumRename(s) ==
  /\ sh[s].pc = "vac_rename"
  /\ fresh <= MaxFile
  /\ dataPath' = fresh
  /\ file' = [file EXCEPT ![fresh] = [kind |-> "ours", cmds |-> sh[s].vac.merged]]
  /\ fresh' = fresh + 1
  /\ holder' = Unlocked(s)
  /\ sh' = Notified([sh EXCEPT ![s].pc = "vac_check",
                              ![s].vac = [NoVacuum EXCEPT !.len = sh[s].vac.len]])
  /\ UNCHANGED <<world, aside, log, durable, raced, adds, crashes>>

(* vacuum_now, after the rename.  Is the log still as long as what was     *)
(* merged?  Then it is truncated: a look and a call, with no lock.         *)
VacuumCheck(s) ==
  /\ sh[s].pc = "vac_check"
  /\ sh' = [sh EXCEPT ![s].pc = IF Len(log) = sh[s].vac.len THEN "vac_truncate"
                                                        ELSE "vac_forget"]
  /\ UNCHANGED <<world, disk, holder, durable, raced, adds, crashes>>

VacuumTruncate(s) ==
  /\ sh[s].pc = "vac_truncate"
  /\ log' = <<>>
  /\ sh' = [sh EXCEPT ![s].pc = "vac_forget"]
  /\ UNCHANGED <<world, dataPath, file, fresh, aside, holder, durable, raced, adds,
                 crashes>>

CursorAfter(m, spared) == Len(spared)

(* The written items that stay: the pending and the ephemeral, in order.   *)
Spared(written) ==
  LET kept[n \in 0..Len(written)] ==
        IF n = 0 THEN <<>>
        ELSE IF written[n].pending \/ ~ DiskItem(written[n].cmd)
        THEN Append(kept[n - 1], written[n]) ELSE kept[n - 1]
  IN  kept[Len(written)]

(* The written disk items go; the others stay, and the cursor with them.   *)
(* Then map_tier1, id first.                                               *)
VacuumForget(s) ==
  LET m == sh[s]
      written == SubSeq(m.items, 1, m.unwritten)
      spared == Spared(written)
      later == SubSeq(m.items, m.unwritten + 1, Len(m.items))
  IN  /\ m.pc = "vac_forget"
      /\ sh' = [sh EXCEPT ![s].items = spared \o later,
                          ![s].unwritten = CursorAfter(m, spared),
                          ![s].dataId = dataPath,
                          ![s].vac = NoVacuum,
                          ![s].pc = "vac_map"]
      /\ UNCHANGED <<world, disk, holder, durable, raced, adds, crashes>>

(* Seeded fault: a shell does not map its own output. *)
VacuumUnmapped(s) ==
  /\ sh[s].pc = "vac_map"
  /\ sh' = [sh EXCEPT ![s].pc = "vac_log"]
  /\ UNCHANGED <<world, disk, holder, durable, raced, adds, crashes>>

VacuumMap(s) ==
  /\ sh[s].pc = "vac_map"
  /\ sh' = [sh EXCEPT ![s] = [MapTier1(sh[s], dataPath) EXCEPT !.pc = "vac_log"]]
  /\ UNCHANGED <<world, disk, holder, durable, raced, adds, crashes>>

VacuumLog(s) ==
  /\ sh[s].pc = "vac_log"
  /\ sh' = [sh EXCEPT ![s].pc = "idle", ![s].logged = InLog,
                      ![s].reload = FALSE]
  /\ UNCHANGED <<world, disk, holder, durable, raced, adds, crashes>>

-----------------------------------------------------------------------------
(* The world *)

(* A crash at any point, or an exit: save() at the prompt finds nothing    *)
(* unwritten.  The kernel releases the locks; the memory is gone.          *)
Crash(s) ==
  /\ sh[s].pc # "dead"
  /\ crashes < world.crashes
  /\ crashes' = crashes + 1
  /\ sh' = [sh EXCEPT ![s] = Boot]
  /\ holder' = Unlocked(s)
  /\ UNCHANGED <<world, disk, durable, raced, adds>>

(* A later lesh, which follows the same protocol, replaces tier 1 by a     *)
(* file in a format this one does not know.                                *)
ForeignArrives ==
  /\ May("foreign file")
  /\ fresh <= MaxFile
  /\ dataPath # NoFile => /\ file[dataPath].kind = "ours"
                          /\ holder[dataPath] = NoShell
  /\ dataPath' = fresh
  /\ file' = [file EXCEPT ![fresh] =
                [kind |-> "foreign",
                 cmds |-> IF dataPath = NoFile THEN {} ELSE file[dataPath].cmds]]
  /\ fresh' = fresh + 1
  /\ sh' = Notified(sh)
  /\ UNCHANGED <<world, aside, log, holder, durable, raced, adds, crashes>>

(* Nobody types.  (Whether a wait for a lock ends is VacuumEnds.) *)
Rest ==
  /\ \A s \in Shell : sh[s].pc \in {"idle", "exec", "dead", "vac_lock"}
  /\ UNCHANGED vars

Advance(s) ==
  \/ BootMap(s) \/ BootLog(s) \/ Remap(s)
  \/ FlushItem(s) \/ Count(s)
  \/ VacuumRead(s) \/ VacuumBuild(s) \/ VacuumOpen(s) \/ VacuumLock(s)
  \/ VacuumAside(s) \/ VacuumRename(s) \/ VacuumCheck(s)
  \/ VacuumTruncate(s) \/ VacuumForget(s) \/ VacuumMap(s) \/ VacuumLog(s)

Next ==
  \/ \E s \in Shell :
       \/ Start(s) \/ DrainWatch(s) \/ Resolve(s) \/ Advance(s) \/ Crash(s)
       \/ \E c \in world.commands : Add(s, c)
  \/ ForeignArrives
  \/ Rest

Spec == Init /\ [][Next]_vars
-----------------------------------------------------------------------------
(* Properties *)

OnDisk ==
  InLog \cup UNION {file[i].cmds : i \in aside \cup ({dataPath} \ {NoFile})}

(* vacuum.h: "a resolved command is never lost".  Every command whose      *)
(* frame reached the log is in one of the files, for good.                 *)
NoResolvedCommandIsLost == durable \subseteq OnDisk

(* What holds of it: only a command appended while a sibling was between   *)
(* its vacuum's read of the log and its truncation can be lost.  Crashes,  *)
(* concurrent rewrites and refused locks lose nothing else.                *)
OnlyRacedFramesAreLost == durable \ raced \subseteq OnDisk

LocksWork == world.faults \cap {"slow lock", "refused lock"} = {}

(* A file at the path is replaced by one that holds all it held, for its   *)
(* identity is looked at again under the lock, which is held past the      *)
(* rename (where locks are granted); and a file in another  *)
(* format, once there, is never moved or replaced.                         *)
RenameMergesWhatItReplaces ==
  [][dataPath # NoFile =>
       /\ LocksWork /\ dataPath' # NoFile
          => file[dataPath].cmds \subseteq file'[dataPath'].cmds
       /\ file[dataPath].kind = "foreign" => dataPath' = dataPath]_vars

(* What a session resolved it can recall, across its own vacuums and its   *)
(* siblings', until the same command runs again - as long as locks are     *)
(* granted and tier 1 is a file it can read; and a mapping that is out of  *)
(* date is one the next identity check notices, for the remembered id is   *)
(* never newer than the mapping.                                           *)
OwnCommandsVisible ==
  \A s \in Shell :
    LocksWork /\ sh[s].pc = "idle" /\ ~ sh[s].untouchable
    => sh[s].own \subseteq ViewOf(sh[s])

StaleMappingIsNoticeable ==
  \A s \in Shell :
    sh[s].pc \in {"idle", "exec"} /\ sh[s].dataId = dataPath
    => sh[s].mapped = IF dataPath # NoFile /\ file[dataPath].kind = "ours"
                      THEN dataPath ELSE NoFile
ViewKeepsUp == OwnCommandsVisible /\ StaleMappingIsNoticeable

-----------------------------------------------------------------------------
(* Fairness: a shell runs its own operations to their end, and the loop    *)
(* polls the watch's descriptor on every turn.                             *)
FairSpec ==
  /\ Spec
  /\ \A s \in Shell : WF_vars(Advance(s)) /\ SF_vars(DrainWatch(s))

Current(s) == sh[s].dataId = dataPath
Alive(s) == sh[s].pc # "dead"

(* A change the watch reports reaches the view, also of a shell that only  *)
(* reads; and a vacuum comes to an end, whoever else rewrites.             *)
ReportedChangeIsMapped ==
  \A s \in Shell : sh[s].notified ~> Current(s) \/ ~ Alive(s)

VacuumEnds ==
  \A s \in Shell : sh[s].pc = "vac_read" ~> sh[s].pc \in {"idle", "dead"}
StoreComesToRest == ReportedChangeIsMapped /\ VacuumEnds
=============================================================================
