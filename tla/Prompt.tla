------------------------------- MODULE Prompt -------------------------------
(***************************************************************************)
(* The prompt while a session runs: the engine that keeps two surfaces'     *)
(* programs and what their items last said (ui/prompt/prompt.cpp), the      *)
(* session that decides what the loop paints and for when it is woken       *)
(* (ui/session.cpp), and the loop's timers, which a registry's queue of     *)
(* effects reaches one turn later (ui/loop.cpp, leshper/registry.cpp).      *)
(*                                                                          *)
(* Time is counted in the engine's ticks.  The wall clock's seconds begin   *)
(* `phase` ticks away from the tick counter's: the two are different        *)
(* clocks.  The loop is quick: at a prompt no tick passes while it owes     *)
(* work.  A command takes as many ticks as it likes and no timer fires      *)
(* under it.                                                                *)
(*                                                                          *)
(* A prompt is a program: a flat sequence of steps, each a placement or a   *)
(* group that says how many of the steps after it are inside it.  A         *)
(* template is a text that is scanned into a program, and a tree of         *)
(* placements handed over by an extension is walked into one by the same    *)
(* builder.  Composing a program asks each placement's module for its       *)
(* bytes; a group is shown when one of its modules said something.          *)
(*                                                                          *)
(* Pens, escapes and the wording of errors are left out: a token of a       *)
(* template is a run of literal text, a parenthesis, or a whole placement   *)
(* named by its module, and a placement the scanner would refuse is one     *)
(* token, whatever is wrong with it.                                        *)
(***************************************************************************)
EXTENDS Integers, Sequences, SequencesExt, FiniteSets, FiniteSetsExt, TLC

CONSTANTS TicksPerSecond,  \* a hundred in the program
          SecondsPerMinute,\* sixty in the program
          MaxTick,         \* bound: ticks the model counts
          MaxLines,        \* bound: lines run
          Durations,       \* ticks a command takes
          Templates,       \* what `prompt` is given
          Trees,           \* what an extension hands over
          Environment      \* values of the variable `env` shows; 0 is unset

ASSUME Bounds == MaxTick \in Nat /\ MaxLines \in Nat /\ Durations \subseteq Nat
              /\ Environment \subseteq Nat

Literal == "text"
Refused == "refused"          \* a placement the scanner has something against

(***************************************************************************)
(* Building                                                                 *)
(***************************************************************************)

Placement(core) == [group |-> FALSE, core |-> core, span |-> 0]
Group           == [group |-> TRUE, core |-> Literal, span |-> 0]

NewBuilder == [ok |-> TRUE, program |-> <<>>, open |-> <<>>]

on_placement(b, core) == [b EXCEPT !.program = Append(@, Placement(core))]
on_open_group(b) == [b EXCEPT !.open = Append(@, Len(b.program) + 1), !.program = Append(@, Group)]

on_close_group(b) ==
  [b EXCEPT !.program[Last(b.open)].span = Len(b.program) - Last(b.open), !.open = Front(@)]

Fail(b) == [b EXCEPT !.ok = FALSE]

ScanToken(b, token) ==
  CASE ~b.ok                              -> b
    [] b.ok /\ token = "("                -> on_open_group(b)
    [] b.ok /\ token = ")" /\ b.open = <<>> -> Fail(b)
    [] b.ok /\ token = ")" /\ b.open # <<>> -> on_close_group(b)
    [] b.ok /\ token = Refused            -> Fail(b)
    [] OTHER                              -> on_placement(b, token)

\* One walk of the text; a group still open at its end is refused too.
scan_template(text) ==
  LET b == FoldLeft(ScanToken, NewBuilder, text)
  IN  [b EXCEPT !.ok = @ /\ b.open = <<>>]

\* A tree: a sequence of items, each a module with no children or children
\* with no module.
Item(module, children) == [module |-> module, children |-> children]
NoModule == ""

RECURSIVE build_placements(_, _)
build_placements(b, items) ==
  IF ~b.ok \/ items = <<>> THEN b
  ELSE LET item == Head(items)
           one  == CASE item.module = NoModule /\ item.children = <<>> -> Fail(b)
                     [] item.module = NoModule /\ item.children # <<>> ->
                          LET inside == build_placements(on_open_group(b), item.children)
                          IN  IF inside.ok THEN on_close_group(inside) ELSE inside
                     [] item.module # NoModule /\ item.children # <<>> -> Fail(b)
                     [] item.module = Refused                          -> Fail(b)
                     [] OTHER -> on_placement(b, item.module)
       IN  build_placements(one, Tail(items))

(***************************************************************************)
(* Composing                                                                *)
(***************************************************************************)

step_extent(program, at) == 1 + program[at].span

\* The steps of one level, from `at` as far as `last`: those no group of the
\* same stretch holds.
Level(program, at, last) ==
  SelectSeq([i \in 1..Max({0, last - at + 1}) |-> at + i - 1],
            LAMBDA c : \A g \in at..(c - 1) : g + step_extent(program, g) <= c)

Tops(program) == Level(program, 1, Len(program))

Says(status, bytes, wake) == [status |-> status, bytes |-> bytes, wake |-> wake]
Atom(kind, value) == [kind |-> kind, value |-> value]

\* What a module answers to the facts; `frame` is the spinner's own state.
UntilNextSecond(facts) == TicksPerSecond - (facts.tick % TicksPerSecond)

UntilNextMinute(facts) ==
  (SecondsPerMinute - 1 - (facts.second % SecondsPerMinute)) * TicksPerSecond + UntilNextSecond(facts)

Answer(core, facts, frame) ==
  CASE core = "seconds" -> Says("ready", <<Atom(core, facts.second)>>, UntilNextSecond(facts))
    [] core = "minutes" -> Says("ready", <<Atom(core, facts.second \div SecondsPerMinute)>>, UntilNextMinute(facts))
    [] core = "env"     -> IF facts.env = 0 THEN Says("omitted", <<>>, 0)
                           ELSE Says("ready", <<Atom(core, facts.env)>>, 0)
    [] core = "status"  -> IF facts.status = 0 THEN Says("omitted", <<>>, 0)
                           ELSE Says("ready", <<Atom(core, facts.status)>>, 0)
    [] core = "spinner" -> Says("ready", <<Atom(core, frame)>>, 2)
    [] core = "slow"    -> IF facts.second % 2 = 0 THEN Says("pending", <<>>, 1)
                           ELSE Says("ready", <<Atom(core, 0)>>, 1)

\* A run of the composer: what has been remembered for this prompt, and the
\* spinner's frame, which every call moves on.
Run(frame) == [memo |-> <<>>, frame |-> frame]

NextFrame(core, frame) == IF core = "spinner" THEN (frame + 1) % 2 ELSE frame

Remembered(core, says, run) ==
  [says |-> says, run |-> [memo |-> (core :> says) @@ run.memo, frame |-> NextFrame(core, run.frame)]]

Ask(core, facts, run) ==
  IF core \in DOMAIN run.memo THEN [says |-> run.memo[core], run |-> run]
  ELSE Remembered(core, Answer(core, facts, run.frame), run)

Soonest(wakes) == IF wakes \ {0} = {} THEN 0 ELSE Min(wakes \ {0})

Shown(asked) == IF asked.says.status = "ready" THEN asked ELSE [asked EXCEPT !.says.bytes = <<>>]

render_placement(program, at, facts, run) ==
  IF program[at].core = Literal
  THEN [says |-> Says("neutral", <<Atom(Literal, 0)>>, 0), run |-> run]
  ELSE Shown(Ask(program[at].core, facts, run))

\* A group is shown when a child is ready; decoration has no vote, and a
\* group that is not shown drops the wakes its children asked for.
GroupSays(says) ==
  IF \A i \in DOMAIN says : says[i].status # "ready" THEN Says("omitted", <<>>, 0)
  ELSE Says("ready",
            FlattenSeq([i \in DOMAIN says |-> IF says[i].status = "omitted" THEN <<>> ELSE says[i].bytes]),
            Soonest({says[i].wake : i \in DOMAIN says}))

\* Every placement among some steps is asked, in order.
AskOne(program, at, so, one) == [says |-> (at :> one.says) @@ so.says, run |-> one.run]
AskAll(program, steps, facts, run) ==
  FoldLeft(LAMBDA so, at : IF program[at].group THEN so
                           ELSE AskOne(program, at, so, render_placement(program, at, facts, so.run)),
           [says |-> <<>>, run |-> run], steps)

\* The steps of some top-level items, and what is in them.
StepsOf(program, tops) ==
  SelectSeq([i \in DOMAIN program |-> i],
            LAMBDA at : \E i \in DOMAIN tops : tops[i] <= at /\ at < tops[i] + step_extent(program, tops[i]))

\* Then each group says what its own level says.
Composed(program, tops, asked) ==
  LET said[at \in 1..Len(program)] ==
        IF ~program[at].group THEN asked.says[at]
        ELSE GroupSays(LET kids == Level(program, at + 1, at + program[at].span)
                       IN  [i \in 1..Len(kids) |-> said[kids[i]]])
  IN  [says |-> [i \in DOMAIN tops |-> said[tops[i]]], run |-> asked.run]

render_items(program, tops, facts, run) ==
  Composed(program, tops, AskAll(program, StepsOf(program, tops), facts, run))

(***************************************************************************)
(* The state                                                                *)
(***************************************************************************)

VARIABLES now, phase, lines,
          env, status, ps1,         \* the shell's: the variable, $?, and whether $PS1 was set
          surfaces, frame, configured,
          facts,                    \* the snapshot the prompt was rendered from
          shown, owns,              \* the loop's options; whether the engine is what they show
          replaced,                 \* history: surfaces replaced since the last prompt
          armed, pending, nextId,   \* the registry's timers and its queue
          timer,                    \* the session's: the timer it has, and its interval
          timers, ticking           \* the loop's: its table, and an expiry not yet run

shell  == <<env, status, ps1>>
engine == <<surfaces, frame, configured>>
paint  == <<facts, shown, owns, replaced>>
wheel  == <<armed, pending, nextId, timer>>
vars   == <<now, phase, lines, shell, engine, paint, wheel, timers, ticking>>

Surfaces == {"left", "continuation"}
PS1 == <<Atom("ps1", 0)>>
Second(tick) == (tick + phase) \div TicksPerSecond

(***************************************************************************)
(* The engine                                                               *)
(***************************************************************************)

Silent == [status |-> "omitted", bytes |-> <<>>, wake_at |-> 0]

\* A program takes a surface: nothing it held is shown until it is rendered.
Adopted(program, text) ==
  [program |-> program, slots |-> [i \in DOMAIN Tops(program) |-> Silent], bytes |-> <<>>, text |-> text]

DefaultText == [left |-> <<"status", Literal>>, continuation |-> <<Literal>>]
use_default(which) == Adopted(scan_template(DefaultText[which]).program, DefaultText[which])

rebuild(slots) == FlattenSeq([i \in DOMAIN slots |-> slots[i].bytes])

\* mutant: a silent item's wake is not kept
OnlyReadyIsWoken(says, tick) ==
  [status |-> says.status, bytes |-> IF says.status = "omitted" THEN <<>> ELSE says.bytes,
   wake_at |-> IF says.wake = 0 \/ says.status # "ready" THEN 0 ELSE tick + says.wake]

Slot(says, tick) ==
  [status |-> says.status, bytes |-> IF says.status = "omitted" THEN <<>> ELSE says.bytes,
   wake_at |-> IF says.wake = 0 THEN 0 ELSE tick + says.wake]

Painted(target, slots) == [target EXCEPT !.slots = slots, !.bytes = rebuild(slots)]
Rendered(target, r, tick) ==
  [target |-> Painted(target, [i \in DOMAIN r.says |-> Slot(r.says[i], tick)]), run |-> r.run]
render_surface(target, f, run) ==
  Rendered(target, render_items(target.program, Tops(target.program), f, run), f.tick)

\* Both surfaces, with one memory for the two of them.
Both(l, c) == [surfaces |-> [left |-> l.target, continuation |-> c.target], frame |-> c.run.frame]
FullFrom(l, continuation, f) == Both(l, render_surface(continuation, f, l.run))
render_full(all, f, fr) == FullFrom(render_surface(all.left, f, Run(fr)), all.continuation, f)

Due(slot, tick) == slot.wake_at # 0 /\ slot.wake_at <= tick

\* What was asked again replaces what its slot held; the bytes are joined again
\* only when something moved.
Moved(target, new) ==
  \E i \in DOMAIN new : new[i].status # target.slots[i].status \/ new[i].bytes # target.slots[i].bytes
Ticked(target, new, run) ==
  [target |-> [target EXCEPT !.slots = new, !.bytes = IF Moved(target, new) THEN rebuild(new) ELSE target.bytes],
   run |-> run, moved |-> Moved(target, new)]
Replaced(target, due, r, tick) ==
  Ticked(target, [i \in DOMAIN target.slots |->
                    IF i \in ToSet(due) THEN Slot(r.says[CHOOSE k \in DOMAIN due : due[k] = i], tick)
                    ELSE target.slots[i]], r.run)
TickItems(target, due, f, run) ==
  Replaced(target, due,
           render_items(target.program, LET tops == Tops(target.program) IN [k \in DOMAIN due |-> tops[due[k]]], f, run),
           f.tick)
TickSurface(target, f, run) ==
  TickItems(target, SelectSeq([i \in DOMAIN target.slots |-> i], LAMBDA i : Due(target.slots[i], f.tick)), f, run)

TickBoth(l, c) ==
  [surfaces |-> [left |-> l.target, continuation |-> c.target], frame |-> c.run.frame, moved |-> l.moved \/ c.moved]
TickFrom(l, continuation, f) == TickBoth(l, TickSurface(continuation, f, l.run))
render_tick(all, f, fr) == TickFrom(TickSurface(all.left, f, Run(fr)), all.continuation, f)

next_wake(all) ==
  Soonest(UNION {{all[w].slots[i].wake_at : i \in DOMAIN all[w].slots} : w \in Surfaces})

\* In ticks; zero is no timer at all, and a wake gone by is one tick away.
timer_interval(wake, tick) == IF wake = 0 THEN 0 ELSE IF wake <= tick THEN 1 ELSE wake - tick

(***************************************************************************)
(* The session                                                              *)
(***************************************************************************)

\* An interval that has not changed leaves the timer alone.
Rearm(desired) ==
  LET stop  == IF timer.interval = 0 THEN <<>> ELSE <<[arm |-> FALSE, id |-> timer.id, interval |-> 0]>>
      start == IF desired = 0 THEN <<>> ELSE <<[arm |-> TRUE, id |-> nextId, interval |-> desired]>>
  IN  IF desired = timer.interval THEN UNCHANGED wheel
      ELSE /\ pending' = pending \o stop \o start
           /\ armed' = (armed \ {timer.id}) \cup (IF desired = 0 THEN {} ELSE {nextId})
           /\ nextId' = IF desired = 0 THEN nextId ELSE nextId + 1
           /\ timer' = IF desired = 0 THEN [id |-> 0, interval |-> 0] ELSE [id |-> nextId, interval |-> desired]

reconcile_prompt_timer(all, tick) == Rearm(timer_interval(next_wake(all), tick))

\* The end of a command: everything is rendered from a new snapshot, and who
\* paints is decided, for both surfaces at once.
refresh_prompt(all, f) ==
  /\ facts' = f /\ replaced' = {}
  /\ owns' = (configured' \/ ~ps1')
  /\ \E r \in {render_full(all, f, frame)} :
       /\ surfaces' = r.surfaces /\ frame' = r.frame
       /\ shown' = [w \in Surfaces |-> IF owns' THEN r.surfaces[w].bytes ELSE PS1]
       /\ reconcile_prompt_timer(r.surfaces, f.tick)

\* What a line does, besides taking time.
Command(d, newEnv, newStatus, newPs1, all, isConfigured) ==
  /\ lines < MaxLines /\ lines' = lines + 1
  /\ now + d <= MaxTick /\ now' = now + d
  /\ env' = newEnv /\ status' = newStatus /\ ps1' = newPs1 /\ configured' = isConfigured
  /\ refresh_prompt(all, [tick |-> now + d, second |-> Second(now + d), env |-> newEnv, status |-> newStatus])
  /\ UNCHANGED <<phase, timers, ticking>>

RunsSomething == \E d \in Durations, s \in {0, 1} : Command(d, env, s, ps1, surfaces, configured)
Assigns == \E v \in Environment \ {env} : Command(0, v, 0, ps1, surfaces, configured)
SetsPS1 == ~ps1 /\ Command(0, env, 0, TRUE, surfaces, configured)

\* `prompt TEMPLATE` and `prompt -c TEMPLATE`: a template that does not scan
\* changes nothing of the engine.
SetsPrompt ==
  \E which \in Surfaces, text \in Templates : \E b \in {scan_template(text)} :
    Command(0, env, IF b.ok THEN 0 ELSE 1, ps1,
            IF b.ok THEN [surfaces EXCEPT ![which] = Adopted(b.program, text)] ELSE surfaces,
            b.ok \/ configured)

\* `prompt -r`
ResetsPrompt == Command(0, env, 0, ps1, [w \in Surfaces |-> use_default(w)], TRUE)

\* The timer's action: the clock is read again and the variables are not.
prompt_tick ==
  /\ ticking /\ ticking' = FALSE
  /\ facts' = [facts EXCEPT !.tick = now, !.second = Second(now)]
  /\ \E r \in {render_tick(surfaces, [facts' EXCEPT !.env = 0], frame)} :
       /\ surfaces' = r.surfaces /\ frame' = r.frame
       /\ shown' = IF r.moved /\ owns THEN [w \in Surfaces |-> r.surfaces[w].bytes] ELSE shown
       /\ reconcile_prompt_timer(r.surfaces, now)
  /\ UNCHANGED <<now, phase, lines, shell, configured, owns, replaced, timers>>

\* An extension's action hands over a tree, or clears: the engine has it at
\* once and the loop goes on painting what it has.
set_placements ==
  /\ replaced = {}
  /\ \E which \in Surfaces, items \in Trees :
       LET b == build_placements(NewBuilder, items)
       IN  /\ b.ok
           /\ surfaces' = [surfaces EXCEPT ![which] = Adopted(b.program, <<>>)]
           /\ configured' = TRUE
           /\ replaced' = {which}
  /\ UNCHANGED <<now, phase, lines, shell, frame, facts, shown, owns, wheel, timers, ticking>>

(***************************************************************************)
(* The loop                                                                 *)
(***************************************************************************)

Carried(table, effect) ==
  IF effect.arm THEN table \cup {[id |-> effect.id, interval |-> effect.interval, due |-> now + effect.interval]}
  ELSE {t \in table : t.id # effect.id}

\* The registry's queue is emptied before the loop waits.
drain_registry_effects ==
  /\ pending # <<>> /\ ~ticking
  /\ timers' = FoldLeft(Carried, timers, pending)
  /\ pending' = <<>>
  /\ UNCHANGED <<now, phase, lines, shell, engine, paint, armed, nextId, timer, ticking>>

\* A timer is armed again from now, not from when it was due.
fire_timers ==
  /\ pending = <<>> /\ ~ticking
  /\ \E t \in timers : t.due <= now
  /\ timers' = {IF t.due <= now THEN [t EXCEPT !.due = now + t.interval] ELSE t : t \in timers}
  /\ ticking' = TRUE
  /\ UNCHANGED <<now, phase, lines, shell, engine, paint, wheel>>

Idle == pending = <<>> /\ ~ticking /\ \A t \in timers : t.due > now

Tick ==
  /\ Idle /\ now < MaxTick /\ now' = now + 1
  /\ UNCHANGED <<phase, lines, shell, engine, paint, wheel, timers, ticking>>

\* The session as it is built: the default prompt, rendered once.
Init ==
  LET all == [w \in Surfaces |-> use_default(w)]
      f   == [tick |-> 0, second |-> phase \div TicksPerSecond, env |-> 0, status |-> 0]
      r   == render_full(all, f, 0)
  IN  /\ now = 0 /\ phase \in 0..(TicksPerSecond - 1) /\ lines = 0
      /\ env = 0 /\ status = 0 /\ ps1 = FALSE /\ configured = FALSE
      /\ surfaces = r.surfaces /\ frame = r.frame /\ facts = f
      /\ shown = [w \in Surfaces |-> r.surfaces[w].bytes] /\ owns = TRUE /\ replaced = {}
      /\ armed = {} /\ pending = <<>> /\ nextId = 1 /\ timer = [id |-> 0, interval |-> 0]
      /\ timers = {} /\ ticking = FALSE

Next == \/ RunsSomething \/ Assigns \/ SetsPS1 \/ SetsPrompt \/ ResetsPrompt
        \/ prompt_tick \/ set_placements \/ drain_registry_effects \/ fire_timers \/ Tick

Spec == Init /\ [][Next]_vars

(***************************************************************************)
(* Properties                                                               *)
(***************************************************************************)

\* A clock in the prompt is never a whole second behind the wall clock: not
\* when the second clock's phase is another, when a command outlasted the
\* wake, when the timer was left alone because its interval was the same, or
\* when an expiry of the timer before it arrives after a new prompt.
ClockIsNeverASecondLate ==
  Idle /\ owns =>
    \A w \in Surfaces \ replaced : \A i \in DOMAIN shown[w] :
      LET atom == shown[w][i]
          Recent == {Second(t) : t \in {u \in 0..now : u + TicksPerSecond > now}}
      IN  /\ atom.kind = "seconds" => atom.value \in Recent
          /\ atom.kind = "minutes" => atom.value \in {s \div SecondsPerMinute : s \in Recent}

\* A module that was silent and asked to be asked again is: what was not
\* ready appears by itself.
SlowModuleAppears ==
  Idle /\ owns =>
    \A w \in Surfaces \ replaced :
      LET tops == Tops(surfaces[w].program)
      IN  \A i \in DOMAIN tops :
            surfaces[w].program[tops[i]].core = "slow" =>
              (surfaces[w].slots[i].status = "ready" <=> Second(now) % 2 = 1)

\* A prompt that asks for nothing costs no wakeup, one that asks has one
\* timer and no more, and it is never later than what was asked for.
OneTimerAndOnTime ==
  Idle =>
    /\ armed = {t.id : t \in timers}
    /\ (replaced = {} /\ next_wake(surfaces) = 0) => timers = {}
    /\ next_wake(surfaces) # 0 => \E t \in timers : timers = {t} /\ t.due <= Max({next_wake(surfaces), now + 1})

\* What is painted is one owner's, on both surfaces: the engine's as it stands,
\* or $PS1 and $PS2 of a user who set them and never configured the prompt.
PaintedByItsOwner ==
  \/ owns /\ \A w \in Surfaces \ replaced : shown[w] = surfaces[w].bytes
  \/ ~owns /\ ps1 /\ shown = [w \in Surfaces |-> PS1]

\* What the prompt says is true of now, at the cost of one timer at most.
PromptIsCurrent ==
  ClockIsNeverASecondLate /\ SlowModuleAppears /\ OneTimerAndOnTime /\ PaintedByItsOwner

=============================================================================
