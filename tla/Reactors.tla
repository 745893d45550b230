------------------------------ MODULE Reactors ------------------------------
(***************************************************************************)
(* The two reactors of a line being edited, the highlighter and the          *)
(* autosuggester (ui/reactors.cpp over ui/history_search.cpp), what they     *)
(* answer and when: each is a fiber that takes a snapshot of the line from   *)
(* its lane, computes in slices, polling between them whether the line has   *)
(* been left, and applies its batch to the editor's state (ui/loop.cpp,      *)
(* ui/reactor_call.cpp, apply_batch of leshper/registry.cpp).                *)
(*                                                                           *)
(* The line is one simple command: words, redirections and a comment, read   *)
(* by the lexer of Lexer.  A cursor is the number of characters before it.   *)
(***************************************************************************)
EXTENDS Lexer

CONSTANTS Worlds,        \* [alphabet, history, length]: what is typed, and over which history
          PollEvery,     \* kPollEvery and history_search::poll_every
          Known,         \* the names the shell or $PATH has
          MaxEdits,      \* bound: changes of the text
          MaxMoves,      \* bound: moves of the caret alone
          MaxLines       \* bound: lines accepted and cancelled

Editor == INSTANCE LineText

-----------------------------------------------------------------------------
(* What the reactors leave on a line (leshper/decoration.cpp, proposal.cpp): *)
(* one layer for each reactor, of marks - styled spans and virtual texts -  *)
(* and of proposals, and the sweep that turns the spans of all the layers   *)
(* into what is painted.  A span is [from, to): its last byte is to - 1.    *)

\* A reactor's new layer takes the place of its last one, wherever that stood.
Applied(layers, layer) ==
  IF \E k \in DOMAIN layers : layers[k].by = layer.by
  THEN [k \in DOMAIN layers |-> IF layers[k].by = layer.by THEN layer ELSE layers[k]]
  ELSE Append(layers, layer)
Forgotten(layers, names) == SelectSeq(layers, LAMBDA l : l.by \notin names)

\* The proposals of one kind, in the order of the layers.
Offers(layers, kind) ==
  SelectSeq(FlattenSeq([k \in DOMAIN layers |-> layers[k].items]), LAMBDA o : o.kind = kind)
find(layers, kind, index) ==
  LET offers == Offers(layers, kind) IN IF index < Len(offers) THEN offers[index + 1].text ELSE <<>>
Carriers(layers, kind) ==
  {l.by : l \in {one \in ToSet(layers) : \E o \in ToSet(one.items) : o.kind = kind}}

\* The virtual texts by where they stand, those of one place as they were emitted.
Inserted(sorted, t) ==
  SelectSeq(sorted, LAMBDA s : s.at <= t.at) \o <<t>> \o SelectSeq(sorted, LAMBDA s : s.at > t.at)
Texts(layers) ==
  FoldLeft(Inserted, <<>>, SelectSeq(FlattenSeq([k \in DOMAIN layers |-> layers[k].texts]), LAMBDA t : t.bytes # <<>>))

-----------------------------------------------------------------------------
(* The sweep: the spans become edges, the set of those open is kept, and the  *)
(* last emitted of them paints.                                               *)

Flat(layers) ==
  SelectSeq(FlattenSeq([k \in DOMAIN layers |-> layers[k].spans]),
            LAMBDA s : s.from < s.to /\ s.style # "none")

EdgesInOrder(a, b) == IF a.at # b.at THEN a.at < b.at ELSE b.opening /\ ~a.opening
Edges(flat) ==
  SortSeq(FlattenSeq([k \in DOMAIN flat |-> <<[at |-> flat[k].from, which |-> k, opening |-> TRUE],
                                               [at |-> flat[k].to, which |-> k, opening |-> FALSE]>>]),
          LAMBDA a, b : EdgesInOrder(a, b) \/ (~EdgesInOrder(b, a) /\ a.which < b.which))

Winner(open) == Max(open)
Extend(painted, from, to, style) ==
  IF painted # <<>> /\ Last(painted).to = from /\ Last(painted).style = style
  THEN Append(Front(painted), [Last(painted) EXCEPT !.to = to])
  ELSE Append(painted, [from |-> from, to |-> to, style |-> style])
Swept(flat, s, e) ==
  [previous |-> e.at,
   active   |-> IF e.opening THEN s.active \cup {e.which} ELSE s.active \ {e.which},
   painted  |-> IF e.at > s.previous /\ s.active # {}
                THEN Extend(s.painted, s.previous, e.at, flat[Winner(s.active)].style)
                ELSE s.painted]
Rebuilt(flat) ==
  FoldLeft(LAMBDA s, e : Swept(flat, s, e), [previous |-> 0, active |-> {}, painted |-> <<>>],
           Edges(flat)).painted
rebuild(layers) == Rebuilt(Flat(layers))

-----------------------------------------------------------------------------
VARIABLES
  world,
  line, cursor, gen,     \* the buffer, where the caret is, how often the text changed
  history,               \* newest first
  phase,                 \* "editing", or what ended the line: "accepted", "cancelled"
  lanes,                 \* reactor_lane: [at, left, computing, batch, arriving, pending, superseded]
  marks, proposals,      \* the layers applied
  lines,                 \* history: how many lines have ended
  dismissed,             \* history: the answer for this text had come, and was sent away
  moves                  \* bound: how often the caret alone moved

editor == <<line, cursor, gen>>
layers == <<marks, proposals>>
vars == <<world, editor, history, phase, lanes, layers, lines, dismissed, moves>>

ReactorNames == {"highlighter", "autosuggester"}

-----------------------------------------------------------------------------
(* The highlighter.                                                           *)

RECURSIVE TokensFrom(_, _)
TokensFrom(text, t) ==
  IF t.kind = "end" THEN <<>> ELSE <<t>> \o TokensFrom(text, next(text, t.to))
Read(text) == TokensFrom(text, next(text, 1))
Tokens(read) == SelectSeq(read, LAMBDA t : t.kind # "comment")
Comments(read) == SelectSeq(read, LAMBDA t : t.kind = "comment")
Text(text, t) == SubSeq(text, t.from, t.to - 1)

\* The part each word plays in a simple command, and the operators nothing follows.
AfterOperator(tokens, k) == k > 1 /\ tokens[k - 1].kind # "word"
NameEndsAt(word) == CHOOSE n \in 1..Len(word) : word[n] = "=" /\ \A m \in 1..(n - 1) : word[m] # "="
looks_like_assignment(word) ==
  /\ \E n \in 2..Len(word) : word[n] = "=" /\ \A m \in 1..(n - 1) : IsName(word[m])
Plainly(text, tokens, k) == ~looks_like_assignment(Text(text, tokens[k]))
Role(text, tokens, k) ==
  LET Earlier == {m \in 1..(k - 1) : tokens[m].kind = "word" /\ ~AfterOperator(tokens, m)
                                     /\ Plainly(text, tokens, m)} IN
  CASE tokens[k].kind # "word" ->
         IF k < Len(tokens) /\ tokens[k + 1].kind = "word" THEN "operator" ELSE "error"
    [] tokens[k].kind = "word" /\ AfterOperator(tokens, k) -> "redirect_target"
    [] tokens[k].kind = "word" /\ ~AfterOperator(tokens, k) ->
         IF Earlier # {} THEN "ordinary"
         ELSE IF Plainly(text, tokens, k) THEN "command_name" ELSE "assignment"
IsIncomplete(tokens) == \E t \in ToSet(tokens) : t.incomplete

emit(from, to, style) ==
  IF style = "none" \/ to <= from THEN <<>> ELSE <<[from |-> from, to |-> to, style |-> style]>>
style_of_segment(kind) ==
  CASE kind = "single" -> "string.single" [] kind = "ansi" -> "string.ansi_c"
    [] kind = "double" -> "string.double" [] kind = "parameter" -> "expansion.parameter"
    [] kind = "command" -> "expansion.command" [] kind = "arithmetic" -> "expansion.arithmetic"
    [] kind = "tilde" -> "expansion.tilde" [] OTHER -> "none"

\* The inside of a double-quoted run is read again: its expansions are live.
InsideOf(text, seg) ==
  IF seg.kind # "double" THEN <<>>
  ELSE SubSeq(text, seg.from + 1,
              IF seg.to > seg.from + 1 /\ text[seg.to - 1] = "\"" THEN seg.to - 2 ELSE seg.to - 1)
RECURSIVE paint_segments(_, _, _, _)
paint_segments(text, p, base, mode) ==
  IF Past(text, p) THEN <<>>
  ELSE LET seg == lex_word_segment(text, p, mode) IN
       emit(base + seg.from, base + seg.to, style_of_segment(seg.kind))
       \o paint_segments(InsideOf(text, seg), 1, base + seg.from, "double")
       \o paint_segments(text, seg.to, base, mode)

PaintWord(text, t, role) ==
  LET eq == IF role = "assignment" THEN NameEndsAt(Text(text, t)) ELSE 0 IN
  paint_segments(SubSeq(text, t.from + eq, t.to - 1), 1, t.from - 1 + eq, IF eq = 0 THEN "word" ELSE "assignment")
paint_tokens(text, tokens) ==
  FlattenSeq([k \in DOMAIN tokens |->
    IF tokens[k].kind = "word" THEN PaintWord(text, tokens[k], Role(text, tokens, k)) ELSE <<>>])

\* A name that is not plainly written is not classified.
IsLiteral(text, t) == WordFrom(text, Word(t.from)).literal
classify_command(text, t) ==
  IF ~IsLiteral(text, t) THEN "none"
  ELSE IF Text(text, t) \in Known THEN "command.path" ELSE "command.unknown"
StyleOfRole(text, t, role) ==
  CASE role = "command_name" -> classify_command(text, t)
    [] role = "redirect_target" -> "redirect.target" [] OTHER -> "none"
paint_nodes(text, tokens) ==
  FlattenSeq([k \in DOMAIN tokens |->
    emit(tokens[k].from, tokens[k].to, StyleOfRole(text, tokens[k], Role(text, tokens, k)))])
paint_comments(comments) ==
  FlattenSeq([k \in DOMAIN comments |-> emit(comments[k].from, comments[k].to, "comment")])
paint_defects(text, tokens) ==
  IF IsIncomplete(tokens) THEN <<>>
  ELSE FlattenSeq([k \in DOMAIN tokens |->
         emit(tokens[k].from, tokens[k].to,
              IF Role(text, tokens, k) = "error" \/ tokens[k].error # "none" THEN "error.syntax" ELSE "none")])

painter_run(text, tokens, comments) ==
  paint_tokens(text, tokens) \o paint_nodes(text, tokens) \o paint_comments(comments) \o paint_defects(text, tokens)

\* How often it polls: every PollEvery tokens and after them, at each command
\* and at each name looked up.
Strides(n) == (n + PollEvery - 1) \div PollEvery
HighlightPolls(text, tokens) ==
  Strides(Len(tokens)) + 1 + (IF tokens = <<>> THEN 0 ELSE 1)
  + Cardinality({k \in DOMAIN tokens : Role(text, tokens, k) = "command_name" /\ IsLiteral(text, tokens[k])})
Painting(text, tokens, comments) ==
  [polls |-> HighlightPolls(text, tokens), spans |-> painter_run(text, tokens, comments), texts |-> <<>>, items |-> <<>>]
highlight(text) ==
  CHOOSE batch \in {Painting(text, Tokens(read), Comments(read)) : read \in {Read(text)}} : TRUE

-----------------------------------------------------------------------------
(* The autosuggester: the newest entry of the history that goes on from what   *)
(* is typed.                                                                   *)

match_prefix(typed, entry) == IsPrefix(typed, entry)
offer(typed, entry) == match_prefix(typed, entry) /\ Len(entry) > Len(typed)
Found(typed, entries) == {k \in DOMAIN entries : offer(typed, entries[k])}
Examined(found, entries) == IF found = {} THEN Len(entries) ELSE Min(found)

Nothing == [polls |-> 0, spans |-> <<>>, texts |-> <<>>, items |-> <<>>]
Answered(typed, entries, found) ==
  LET answer == IF found = {} THEN <<>> ELSE entries[Min(found)] IN
  [polls |-> Strides(Examined(found, entries)), spans |-> <<>>,
   texts |-> IF found = {} THEN <<>>
             ELSE <<[at |-> Len(typed), bytes |-> SubSeq(answer, Len(typed) + 1, Len(answer))]>>,
   items |-> IF found = {} THEN <<>> ELSE <<[kind |-> "autosuggestion", text |-> answer]>>]
autosuggest(typed, entries) ==
  IF typed = <<>> THEN Nothing ELSE Answered(typed, entries, Found(typed, entries))

Compute(name, text) == IF name = "highlighter" THEN highlight(text) ELSE autosuggest(text, history)

-----------------------------------------------------------------------------
(* The lanes.                                                                 *)

\* `of` is the line it was taken in, a history.
Snapshot(text, stamp, ended) == [line |-> text, gen |-> stamp, of |-> ended]
Empty == [line |-> <<>>, gen |-> 0, of |-> 0]
Lane == [at |-> "recv", left |-> 0, computing |-> Empty, batch |-> Nothing, arriving |-> Empty,
         pending |-> FALSE, superseded |-> FALSE]

\* notify_reactors: both listen to the text and to nothing else.
Sent(lane, snapshot) ==
  [lane EXCEPT !.arriving = snapshot, !.superseded = TRUE, !.pending = TRUE]
notify_reactors(text, stamp) == [n \in ReactorNames |-> Sent(lanes[n], Snapshot(text, stamp, lines))]

\* apply_batch: the one applier, and the one place where a batch is stale.
\* mutant: whatever was computed is applied.
LandsAnyway(snapshot) == TRUE
Lands(snapshot) == snapshot.gen = gen
apply_batch(name, snapshot, batch) ==
  IF Lands(snapshot)
  THEN /\ marks' = Applied(marks, [by |-> name, of |-> snapshot.of, spans |-> batch.spans, texts |-> batch.texts])
       /\ proposals' = Applied(proposals, [by |-> name, of |-> snapshot.of, items |-> batch.items])
  ELSE UNCHANGED layers

\* recv: the notification is taken, and what came with it is computed: all of
\* it is settled by the snapshot, and it takes as many slices as it has polls.
Taking(lane, answer) ==
  [lane EXCEPT !.pending = FALSE, !.arriving = Empty, !.computing = lane.arriving, !.left = answer.polls,
               !.at = IF answer.polls = 0 THEN "recv" ELSE "poll",
               !.batch = IF answer.polls = 0 THEN Nothing ELSE answer]
\* mutant: the flag stays up over what has just been received.
ReceivedFlagged(lane, answer) == Taking(lane, answer)
\* mutant: the notification is read and not taken.
ReceivedAgain(lane, answer) == [Taking(lane, answer) EXCEPT !.superseded = FALSE, !.pending = TRUE, !.arriving = lane.arriving]
Received(lane, answer) == [Taking(lane, answer) EXCEPT !.superseded = FALSE]
Parked(lane) == [lane EXCEPT !.at = "recv", !.left = 0, !.computing = Empty, !.batch = Nothing]

\* A slice of a fiber: from where it yielded to where it yields again, or to recv.
Receive(name) ==
  /\ phase = "editing" /\ lanes[name].pending
  /\ lanes[name].at = "recv" \/ lanes[name].superseded
  /\ \E answer \in {Compute(name, lanes[name].arriving.line)} :
       /\ lanes' = [lanes EXCEPT ![name] = Received(@, answer)]
       /\ IF answer.polls = 0 THEN apply_batch(name, lanes[name].arriving, answer) ELSE UNCHANGED layers
  /\ UNCHANGED <<world, editor, history, phase, lines, dismissed, moves>>
Abandon(name) ==
  /\ phase = "editing" /\ lanes[name].at = "poll" /\ lanes[name].superseded /\ ~lanes[name].pending
  /\ lanes' = [lanes EXCEPT ![name] = Parked(@)]
  /\ UNCHANGED <<world, editor, history, phase, layers, lines, dismissed, moves>>
Continue(name) ==
  /\ phase = "editing" /\ lanes[name].at = "poll" /\ ~lanes[name].superseded
  /\ IF lanes[name].left > 1
     THEN lanes' = [lanes EXCEPT ![name].left = @ - 1] /\ UNCHANGED layers
     ELSE lanes' = [lanes EXCEPT ![name] = Parked(@)] /\ apply_batch(name, lanes[name].computing, lanes[name].batch)
  /\ UNCHANGED <<world, editor, history, phase, lines, dismissed, moves>>
Slice(name) == Receive(name) \/ Abandon(name) \/ Continue(name)

-----------------------------------------------------------------------------
(* What is done to the line.                                                   *)

Suggested == find(proposals, "autosuggestion", 0)
suggestion_is_acceptable == Len(Suggested) > Len(line) /\ cursor = Len(line)

Becomes(text, at) ==
  /\ Len(text) <= world.length /\ phase = "editing"
  /\ IF text = line
     THEN moves < MaxMoves /\ moves' = moves + 1 /\ UNCHANGED <<gen, lanes, dismissed>>
     ELSE /\ gen < MaxEdits /\ gen' = gen + 1 /\ lanes' = notify_reactors(text, gen + 1)
          /\ dismissed' = FALSE /\ UNCHANGED moves
  /\ line' = text /\ cursor' = at
  /\ UNCHANGED <<world, history, phase, layers, lines>>

Insert == \E c \in world.alphabet :
  Becomes(SubSeq(line, 1, cursor) \o <<c>> \o SubSeq(line, cursor + 1, Len(line)), cursor + 1)
Backspace == cursor > 0 /\ Becomes(SubSeq(line, 1, cursor - 1) \o SubSeq(line, cursor + 1, Len(line)), cursor - 1)
BackwardChar == cursor > 0 /\ Becomes(line, cursor - 1)
ForwardChar == ~suggestion_is_acceptable /\ cursor < Len(line) /\ Becomes(line, cursor + 1)

accept_autosuggestion == suggestion_is_acceptable /\ Becomes(Suggested, Len(Suggested))
AcceptUpTo(end) ==
  /\ suggestion_is_acceptable
  /\ LET boundary == IF end > Len(line) THEN end ELSE Len(Suggested) IN
     Becomes(SubSeq(Suggested, 1, boundary), boundary)
accept_autosuggestion_word == AcceptUpTo(Editor!next_word_of(Suggested, Len(line)))
accept_autosuggestion_char == AcceptUpTo(Len(line) + 1)

\* Unbound, and there to be bound: the layers that offer one go, painted half and all.
dismiss_autosuggestion ==
  /\ phase = "editing" /\ Carriers(proposals, "autosuggestion") # {}
  /\ marks' = Forgotten(marks, Carriers(proposals, "autosuggestion"))
  /\ proposals' = Forgotten(proposals, Carriers(proposals, "autosuggestion"))
  /\ dismissed' = ~(lanes["autosuggester"].pending \/ lanes["autosuggester"].at = "poll")
  /\ UNCHANGED <<world, editor, history, phase, lanes, lines, moves>>

quiesce == lanes' = [n \in ReactorNames |-> [lanes[n] EXCEPT !.superseded = TRUE]]
Emptied == line' = <<>> /\ cursor' = 0 /\ gen' = IF line = <<>> THEN gen ELSE gen + 1
Cleared == marks' = <<>> /\ proposals' = <<>>

Accept ==
  /\ phase = "editing" /\ lines < MaxLines
  /\ phase' = "accepted" /\ quiesce
  /\ UNCHANGED <<world, editor, history, layers, lines, dismissed, moves>>
Cancel ==
  /\ phase = "editing" /\ lines < MaxLines
  /\ phase' = "cancelled" /\ quiesce /\ Emptied /\ Cleared
  /\ lines' = lines + 1 /\ dismissed' = FALSE
  /\ UNCHANGED <<world, history, moves>>

\* The command has run, its line is in the history, and the editor is back.
ResumeAccepted ==
  /\ phase = "accepted" /\ phase' = "editing"
  /\ history' = IF line = <<>> THEN history ELSE <<line>> \o SelectSeq(history, LAMBDA e : e # line)
  /\ Emptied /\ Cleared
  /\ lines' = lines + 1 /\ dismissed' = FALSE
  /\ UNCHANGED <<world, lanes, moves>>
ResumeCancelled ==
  /\ phase = "cancelled" /\ phase' = "editing"
  /\ UNCHANGED <<world, editor, history, lanes, layers, lines, dismissed, moves>>

Init ==
  /\ world \in Worlds /\ history = world.history
  /\ line = world.start /\ cursor = Len(world.start) /\ gen = 0
  /\ phase = "editing" /\ lanes = [n \in ReactorNames |-> Sent(Lane, Snapshot(world.start, 0, 0))]
  /\ marks = <<>> /\ proposals = <<>>
  /\ lines = 0 /\ dismissed = FALSE /\ moves = 0

Edit == Insert \/ Backspace \/ BackwardChar \/ ForwardChar
Take == accept_autosuggestion \/ accept_autosuggestion_word \/ accept_autosuggestion_char \/ dismiss_autosuggestion
Next == Edit \/ Take \/ Accept \/ Cancel \/ ResumeAccepted \/ ResumeCancelled \/ \E n \in ReactorNames : Slice(n)

\* The scheduler slices every fiber that can run, and a command comes to an end.
CanRun(name) == phase = "editing" /\ (lanes[name].pending \/ lanes[name].at = "poll")
Fair ==
  /\ \A n \in ReactorNames : <>[]CanRun(n) => []<><<Slice(n)>>_vars
  /\ WF_vars(ResumeAccepted) /\ WF_vars(ResumeCancelled)
Spec == Init /\ [][Next]_vars /\ Fair

-----------------------------------------------------------------------------
(* Properties.                                                                *)

Owed(name) == lanes[name].pending \/ lanes[name].at = "poll"
Quiet(name) == phase = "editing" /\ ~Owed(name)

\* What a reader of the line would say each character is: the innermost part
\* of a word that has a name, but a redirection's target and a lone operator
\* as wholes, and a command's name where it is plainly written.
RECURSIVE SegmentAt(_, _, _, _)
SegmentAt(text, mode, p, from) ==
  LET seg == lex_word_segment(text, from, mode) IN IF p < seg.to THEN seg ELSE SegmentAt(text, mode, p, seg.to)
InnerStyle(text, seg, p) ==
  IF p \notin DOMAIN InsideOf(text, seg) THEN "none"
  ELSE style_of_segment(SegmentAt(InsideOf(text, seg), "double", p, 1).kind)
Innermost(inner, seg) == IF inner # "none" THEN inner ELSE style_of_segment(seg.kind)
PartStyle(text, mode, p) ==
  CHOOSE style \in {Innermost(InnerStyle(text, seg, p - seg.from), seg) : seg \in {SegmentAt(text, mode, p, 1)}} : TRUE
ReadsAs(text, tokens, k, p) ==
  LET t == tokens[k]  role == Role(text, tokens, k)
      eq == IF role = "assignment" THEN NameEndsAt(Text(text, t)) ELSE 0 IN
  CASE role = "redirect_target" -> "redirect.target"
    [] role = "error" -> IF IsIncomplete(tokens) THEN "none" ELSE "error.syntax"
    [] role = "operator" \/ p <= eq -> "none"
    [] role = "command_name" /\ IsLiteral(text, t) -> classify_command(text, t)
    [] OTHER -> PartStyle(SubSeq(text, t.from + eq, t.to - 1), IF eq = 0 THEN "word" ELSE "assignment", p - eq)
Covering(tokens, p) == {k \in DOMAIN tokens : p \in tokens[k].from..(tokens[k].to - 1)}
Meaning(text, read, p) ==
  IF Covering(read, p) = {} THEN "none"
  ELSE IF read[Min(Covering(read, p))].kind = "comment" THEN "comment"
  ELSE LET k == Min(Covering(read, p)) IN ReadsAs(text, Tokens(read), k, p - read[k].from + 1)
PaintedAt(painted, p) ==
  LET over == {k \in DOMAIN painted : p \in painted[k].from..(painted[k].to - 1)} IN
  IF over = {} THEN "none" ELSE painted[Min(over)].style

\* Once the highlighter owes nothing, every character of the line is painted as
\* what it is, the innermost of its meanings, through the order of emission
\* ("EMISSION ORDER IS THE CONTRACT", reactors.cpp), the drop rules of the lanes
\* and the sweep; and the spans the renderer walks are in order, apart and
\* joined where they are alike.
EachCharacterIsPaintedAsItReads ==
  Quiet("highlighter") =>
    \A painted \in {rebuild(marks)}, read \in {Read(line)} :
    /\ \A p \in DOMAIN line : PaintedAt(painted, p) = Meaning(line, read, p)
    /\ \A k \in 2..Len(painted) : painted[k - 1].to <= painted[k].from
         /\ (painted[k - 1].to = painted[k].from => painted[k - 1].style # painted[k].style)

\* Once the autosuggester owes nothing, what an action would accept is the newest
\* command that continues the line, the ghost at the end of the line is the rest
\* of it, and there is neither if there is none, or it was dismissed.
Continuing(text) == {k \in DOMAIN history : text # <<>> /\ IsStrictPrefix(text, history[k])}
Ghosts == Texts(marks)
SuggestionIsTheNewest ==
  Quiet("autosuggester") =>
    IF Continuing(line) = {} \/ dismissed THEN Suggested = <<>> /\ Ghosts = <<>>
    ELSE /\ Suggested = history[Min(Continuing(line))]
         /\ Len(Ghosts) = 1 /\ Ghosts[1].at = Len(line) /\ line \o Ghosts[1].bytes = Suggested

\* What is on screen over a line was computed for that line, and never for one
\* that has already been run or cancelled, whatever its reactors were at: of an
\* earlier line an answer may land only when it says nothing, as the one for an
\* empty line does, which ends without its generation moving.
NothingOutlivesItsLine ==
  phase = "editing" =>
    /\ \A l \in ToSet(marks) : l.of = lines \/ (l.spans = <<>> /\ l.texts = <<>>)
    /\ \A l \in ToSet(proposals) : l.of = lines \/ l.items = <<>>

\* A line that stays is answered: the text changes MaxEdits times at most, and
\* once it has stopped changing every reactor comes to owe nothing.
AnswersCome == (\E n \in ReactorNames : Owed(n)) ~> (\A n \in ReactorNames : ~Owed(n))
=============================================================================
