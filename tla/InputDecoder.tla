---------------------------- MODULE InputDecoder ----------------------------
(***************************************************************************)
(* input_decoder of src/src/leshper/decode.cpp, which turns the bytes of   *)
(* the terminal into keys, and the clock of the loop that drives it        *)
(* (src/src/ui/loop.cpp).  A lone ESC is the Escape key; an ESC with more  *)
(* behind it begins a sequence; only time tells them apart.                *)
(*                                                                         *)
(* A byte is a token: a parameter, whatever its digits, is one.  The       *)
(* deadline is kept as the time left to it, so the clock needs no bound.   *)
(***************************************************************************)
EXTENDS Integers, SequencesExt

CONSTANTS
  Utterance, \* what the terminal writes in one go: sequences of bytes
  Means(_),  \* what the user pressed to make the terminal write one
  Timeout,   \* _escape_timeout, in ticks
  MaxWritten \* bound: utterances written before the decoder is reset

VARIABLES
  wire,     \* written, not yet arrived
  tty,      \* arrived, not yet read
  held,     \* _held
  pasting, paste,   \* _pasting, _paste
  deadline, \* _deadline: the ticks left to it, or Unarmed
  events,   \* what has been decoded
  read,     \* history: every byte fed, an ESC the clock decided as Decided
  written,  \* history: the utterances, in order
  waited    \* history: ticks since the ESC at the front of held was read

vars == <<wire, tty, held, pasting, paste, deadline, events, read, written, waited>>

Unarmed == Timeout + 1
Decided == "decided"   \* an ESC that expire() has made the Escape key

-----------------------------------------------------------------------------
(* The bytes *)

Parameter == {"200", "201", "3", "?"}    \* 0x30 to 0x3F
Final == {"A", "O", "[", "x", "~"}       \* 0x40 to 0x7E

(* sequence_length: the bytes a lead byte promises, 0 where it cannot lead *)
Promised(byte) == CASE byte = "lead2" -> 2
                    [] byte = "lead3" -> 3
                    [] byte = "cont"  -> 0
                    [] OTHER          -> 1

Key(name) == [key |-> name, text |-> <<>>]
Typed(text) == [key |-> "text", text |-> text]
Alted(text) == [key |-> "alt", text |-> text]
Pasted(text) == [key |-> "paste", text |-> text]
Replacement == <<"replacement">>

(* What one step of drain takes off the front of what is held, what it     *)
(* emits, and whether a paste is open after it.                            *)
Step(taken, emitted, opens) ==
  [taken |-> taken, emitted |-> emitted, pasting |-> opens, paste |-> <<>>]
Incomplete == Step(0, <<>>, FALSE)

(* How many of the bytes the lead promised are there, one after another *)
Continued(rest, want) ==
  CHOOSE n \in 1 .. want :
    /\ \A i \in 2 .. n : i <= Len(rest) /\ rest[i] = "cont"
    /\ n = want \/ n + 1 > Len(rest) \/ rest[n + 1] # "cont"

(* scan_scalar: a scalar value, or the longest prefix that could have been *)
(* the beginning of one                                                    *)
scan_scalar(rest) ==
  LET want == Promised(Head(rest))
      got  == IF want < 2 THEN 1 ELSE Continued(rest, want)
  IN  IF want > 1 /\ got < want /\ got = Len(rest)
      THEN [length |-> 0, text |-> <<>>]
      ELSE [length |-> got,
            text |-> IF got = want THEN SubSeq(rest, 1, got) ELSE Replacement]

emit_text(rest, Event(_)) ==
  LET scan == scan_scalar(rest) IN
  IF scan.length = 0 THEN Incomplete
                     ELSE Step(scan.length, <<Event(scan.text)>>, FALSE)

(* well_formed: what is not UTF-8 in a pasted text is replaced.  The text  *)
(* is complete, so what is still arriving at its end never will be.        *)
well_formed(text) ==
  LET Clean[n \in 0 .. Len(text)] ==
        IF n = 0 THEN <<>>
        ELSE LET rest == SubSeq(text, Len(text) - n + 1, Len(text))
                 scan == scan_scalar(rest)
             IN  IF scan.length = 0 THEN Replacement
                 ELSE scan.text \o Clean[n - scan.length]
  IN  Clean[Len(text)]
-----------------------------------------------------------------------------
(* Escape sequences *)

(* key_for_final, key_for_tilde *)
KeyForFinal(final) == IF final = "A" THEN <<Key("up")>> ELSE <<>>
KeyForTilde(first) == IF first = "3" THEN <<Key("delete")>> ELSE <<>>

Paste == Step(0, <<>>, TRUE)

(* consume_csi: parameters, then one final byte.  A byte that can be       *)
(* neither ends the sequence and is read again as what it is.              *)
consume_csi(rest) ==
  LET beyond == {i \in 3 .. Len(rest) : rest[i] \notin Parameter}
      at     == CHOOSE i \in beyond : \A j \in beyond : i <= j
      params == SubSeq(rest, 3, at - 1)
      first  == IF params = <<>> THEN "none" ELSE params[1]
      Takes(emitted) == Step(at, emitted, FALSE)
  IN  CASE beyond = {} -> Incomplete
        [] beyond # {} /\ rest[at] \notin Final -> Step(at - 1, <<>>, FALSE)
        [] beyond # {} /\ rest[at] \in Final ->
             IF "?" \in ToSet(params) THEN Takes(<<>>)
             ELSE IF rest[at] # "~"
                  THEN Takes(IF first = "none" THEN KeyForFinal(rest[at])
                                               ELSE <<>>)
             ELSE IF first = "200" THEN [Paste EXCEPT !.taken = at]
             ELSE Takes(KeyForTilde(first))

consume_ss3(rest) ==
  CASE Len(rest) < 3         -> Incomplete
    [] Len(rest) >= 3 /\ rest[3] \notin Final -> Step(2, <<>>, FALSE)
    [] Len(rest) >= 3 /\ rest[3] \in Final -> Step(3, KeyForFinal(rest[3]), FALSE)

consume_escape(rest) ==
  IF Len(rest) < 2 THEN Incomplete
  ELSE CASE rest[2] = "["   -> consume_csi(rest)
         [] rest[2] = "O"   -> consume_ss3(rest)
         [] rest[2] \in {"ESC", Decided} -> Step(1, <<Key("escape")>>, FALSE)
         [] OTHER -> LET after == emit_text(Tail(rest), Alted) IN
                     IF after.taken = 0 THEN Incomplete
                     ELSE [after EXCEPT !.taken = @ + 1]

consume_one(rest) ==
  CASE Head(rest) = "ESC"   -> consume_escape(rest)
    [] Head(rest) = Decided -> Step(1, <<Key("escape")>>, FALSE)
    [] OTHER                -> emit_text(rest, Typed)

PasteEnd == <<"ESC", "[", "201", "~">>

(* mutant: the beginning of an end marker is not kept back *)
PasteKeepsNothing(rest, soFar) ==
  LET ends == {i \in 1 .. Len(rest) - 3 : SubSeq(rest, i, i + 3) = PasteEnd}
      end  == CHOOSE i \in ends : \A j \in ends : i <= j
  IN  IF ends # {}
      THEN Step(end + 3,
                <<Pasted(well_formed(soFar \o SubSeq(rest, 1, end - 1)))>>, FALSE)
      ELSE [taken |-> Len(rest), emitted |-> <<>>, pasting |-> TRUE,
            paste |-> soFar \o rest]

(* consume_paste: everything up to the end marker is text; a tail that may *)
(* be the beginning of the marker waits.                                   *)
consume_paste(rest, soFar) ==
  LET ends == {i \in 1 .. Len(rest) - 3 : SubSeq(rest, i, i + 3) = PasteEnd}
      end  == CHOOSE i \in ends : \A j \in ends : i <= j
      keep == CHOOSE k \in 0 .. 3 :
                /\ IsSuffix(SubSeq(PasteEnd, 1, k), rest)
                /\ \A j \in k + 1 .. 3 : ~IsSuffix(SubSeq(PasteEnd, 1, j), rest)
  IN  IF ends # {}
      THEN Step(end + 3,
                <<Pasted(well_formed(soFar \o SubSeq(rest, 1, end - 1)))>>, FALSE)
      ELSE [taken |-> Len(rest) - keep, emitted |-> <<>>, pasting |-> TRUE,
            paste |-> soFar \o SubSeq(rest, 1, Len(rest) - keep)]

(* drain: until nothing is held, or what is held is incomplete *)
Byte == Parameter \cup Final \cup {"ESC", "lead2", "lead3", "cont", Decided}
Event == [key : {"escape", "up", "delete", "text", "alt", "paste"},
          text : Seq(Byte \cup ToSet(Replacement))]
Decoders == [held : Seq(Byte), pasting : BOOLEAN, paste : Seq(Byte),
             events : Seq(Event)]

drain[d \in Decoders] ==
  LET step == IF d.pasting THEN consume_paste(d.held, d.paste)
                           ELSE consume_one(d.held)
  IN  IF d.held = <<>> \/ step.taken = 0 THEN d
      ELSE drain[[held    |-> SubSeq(d.held, step.taken + 1, Len(d.held)),
                  pasting |-> step.pasting,
                  paste   |-> step.paste,
                  events  |-> d.events \o step.emitted]]

-----------------------------------------------------------------------------
(* input_decoder *)

EscapeWaits(d) == ~d.pasting /\ d.held # <<>> /\ Head(d.held) = "ESC"

(* mutant: only an ESC by itself is timed *)
ArmLone(d, left) == IF d.held # <<"ESC">> \/ d.pasting THEN Unarmed
                    ELSE IF left = Unarmed THEN Timeout
                    ELSE left
(* arm: only an ESC waits on time, and bytes trickling in behind it do not *)
(* push the deadline out.                                                  *)
arm(d, left) == IF ~EscapeWaits(d) THEN Unarmed
                ELSE IF left = Unarmed THEN Timeout
                ELSE left

(* feed *)
feed(d, bytes) == drain[[d EXCEPT !.held = @ \o bytes]]

(* expire, of a decoder whose ESC has waited long enough: it was Escape,   *)
(* and whatever was behind it is read as what it is.                       *)
expire(d) ==
  drain[[d EXCEPT !.held = Tail(@), !.events = Append(@, Key("escape"))]]

Decoder == [held |-> held, pasting |-> pasting, paste |-> paste, events |-> events]
Fresh == [held |-> <<>>, pasting |-> FALSE, paste |-> <<>>, events |-> <<>>]

Becomes(d) == /\ held' = d.held
              /\ pasting' = d.pasting
              /\ paste' = d.paste
              /\ events' = d.events

(* Which byte is at the front of what is held *)
FrontAt == Len(read) - Len(held)

Init == /\ wire = <<>> /\ tty = <<>> /\ written = <<>> /\ read = <<>>
        /\ held = <<>> /\ pasting = FALSE /\ paste = <<>> /\ events = <<>>
        /\ deadline = Unarmed /\ waited = 0

(* A key is pressed, or a paste begun: the terminal writes it all at once, *)
(* and the line carries it a byte at a time.                               *)
Write == /\ Len(written) < MaxWritten
         /\ \E u \in Utterance : /\ wire' = wire \o u
                                 /\ written' = Append(written, u)
         /\ UNCHANGED <<tty, held, pasting, paste, deadline, events, read, waited>>

Arrive == /\ wire # <<>>
          /\ tty' = Append(tty, Head(wire))
          /\ wire' = Tail(wire)
          /\ UNCHANGED <<held, pasting, paste, deadline, events, read, written, waited>>

Tick == /\ deadline \in 1 .. Timeout
        /\ deadline' = deadline - 1
        /\ waited' = waited + 1
        /\ UNCHANGED <<wire, tty, held, pasting, paste, events, read, written>>

(* A turn of the loop: what has arrived is fed first, all of it, and then  *)
(* expire() looks at the clock.                                            *)
Turn ==
  /\ tty # <<>> \/ deadline = 0
  /\ \E fed \in {feed(Decoder, tty)} :
       LET due  == EscapeWaits(fed) /\ arm(fed, deadline) = 0
           seen == read \o tty
           cut  == Len(seen) - Len(fed.held)   \* the byte before what is held
       IN  \E after \in {IF due THEN expire(fed) ELSE fed} :
             /\ Becomes(after)
             /\ deadline' = arm(after, IF due THEN Unarmed ELSE arm(fed, deadline))
             /\ read' = IF due THEN [seen EXCEPT ![cut + 1] = Decided] ELSE seen
             /\ waited' = IF ~due /\ EscapeWaits(fed) /\ cut = FrontAt
                          THEN waited ELSE 0
  /\ tty' = <<>>
  /\ UNCHANGED <<wire, written>>

(* A command takes the terminal: quiesce() resets the decoder, so that a   *)
(* sequence torn in two is not finished by the next prompt's bytes.  What  *)
(* is still on its way is the command's to read.                           *)
Reset == /\ written # <<>>
         /\ Becomes(Fresh)
         /\ deadline' = Unarmed /\ waited' = 0
         /\ read' = <<>> /\ written' = <<>>
         /\ wire' = <<>> /\ tty' = <<>>

Next == Write \/ Arrive \/ Tick \/ Turn \/ Reset

Spec == /\ Init /\ [][Next]_vars
        /\ WF_vars(Arrive) /\ WF_vars(Tick) /\ WF_vars(Turn)

-----------------------------------------------------------------------------
(* Properties *)

(* How the bytes were cut into reads shows in nothing: what has been       *)
(* decoded, and what is still held, is what one feed of everything read    *)
(* would have made, each ESC the clock decided being that.                 *)
OneReading == Decoder = feed(Fresh, read)

(* The key the user pressed is the key the editor is given.  It can only   *)
(* be lost to the clock: when it cut a sequence the line was slow with, or *)
(* when another key came before the Escape before it was decided.          *)
Bytes == FlattenSeq(written)
Alone == {n \in 1 .. Len(Bytes) :    \* an Escape pressed
            \E i \in 1 .. Len(written) :
              written[i] = <<"ESC">> /\ n = Len(FlattenSeq(SubSeq(written, 1, i)))}
ClockWasRight ==
  /\ \A n \in 1 .. Len(read) : read[n] = Decided => n \in Alone
  /\ \A n \in Alone : n < Len(read) => "ESC" = read[n + 1] \/ read[n] = Decided
WhatWasPressed ==
  LET meant == FlattenSeq([i \in 1 .. Len(written) |-> Means(written[i])]) IN
  ClockWasRight =>
    /\ IsPrefix(events, meant)
    /\ Len(read) = Len(Bytes) /\ held = <<>> /\ ~pasting => events = meant

(* An ESC at the front is never without a deadline, and what trickles in   *)
(* behind it does not push the deadline out.                               *)
EscapeIsTimed == EscapeWaits(Decoder) => waited + deadline \in 0 .. Timeout

(* The editor is given what was pressed, however the line cut it.          *)
DecodesWhatWasPressed == OneReading /\ WhatWasPressed /\ EscapeIsTimed

(* An ESC held is decided in the end, whatever becomes of the line: the    *)
(* reader is never left with a key the user pressed and waits to see.      *)
EscapeResolves == []<>~EscapeWaits(Decoder)
=============================================================================
