------------------------------ MODULE MCDisplay ------------------------------
(* What is shown: an execution is of Prompt, what the prompt says, or of      *)
(* Renderer, how a frame comes to be on the screen.  They share nothing.      *)
EXTENDS Prompt, FrameLayout

Clocks == {<<"seconds", Literal>>, <<"spinner", "minutes", "env">>, <<"(", "spinner", "seconds", ")", "slow">>,
           <<"spinner", "(", "seconds">>}
Handed == {<<Item(NoModule, <<Item("minutes", <<>>), Item(Literal, <<>>)>>)>>, <<>>,
           <<Item("seconds", <<Item("env", <<>>)>>)>>}

-----------------------------------------------------------------------------
VARIABLES part, world, term, columns, previous, previous_input, reads, printed, littered, stale
screen == <<world, term, columns, previous, previous_input, reads, printed, littered, stale>>
all == <<part, vars, screen>>

Primary == <<Cell(Prompting, {"bold"}), Cell("$", {"dim"})>>
Secondary == <<Cell(">", {"bold", "dim"})>>
Small == [width |-> 3, height |-> 14, above |-> 1, prompt |-> Primary, continuation |-> Secondary, reflow |-> TRUE,
         glyphs |-> {"a", Wide}, longest |-> 3, marks |-> {Plain}, widths |-> {}, reads |-> 1,
         outputs |-> {<<>>, <<<<Output>>, <<Output, Output>>>>}]

\* Every glyph, with room under the prompt for whatever is typed.
Roomy == [Small EXCEPT !.glyphs = {"a", Wide, Break}]
\* Lines accepted and cancelled one after the other.
Reread == [Small EXCEPT !.glyphs = {"a"}, !.longest = 2, !.height = 6, !.reads = 3]
\* Suggestions, highlights and the pager.
Decorated == [Small EXCEPT !.longest = 2,
  !.marks = {Plain} \cup {[Plain EXCEPT !.ghost = n] : n \in {1, 3}}
              \cup {[Plain EXCEPT !.pen = pen] : pen \in {{"bold", "bg"}, {"dim"}}}
              \cup {[Plain EXCEPT !.pager = n] : n \in 1..2}]
\* At the last line of the screen: rows that wrap scroll it, and what is taller
\* than the screen is seen through a window.
AtTheBottom(h) == [Small EXCEPT !.height = h, !.above = h + 1, !.longest = 4]
\* A window that changes width, on terminals of both kinds.
Resized(reflow) == [Small EXCEPT !.width = 4, !.height = 6, !.widths = 3..5, !.glyphs = {"a"}, !.longest = 6,
                                !.outputs = {<<>>}, !.reflow = reflow]
Frames == {Roomy, Reread, Decorated, AtTheBottom(2), AtTheBottom(3), Resized(TRUE), Resized(FALSE)}

Screen == INSTANCE Renderer WITH Worlds <- Frames

-----------------------------------------------------------------------------
Together ==
  /\ Init /\ Screen!Init /\ part \in {"prompt", "screen"}
  /\ part = "prompt" => world = CHOOSE w \in Frames : TRUE
  /\ part = "screen" => phase = 0
Telling == part = "prompt" /\ Next /\ UNCHANGED <<part, screen>>
Painting == part = "screen" /\ Screen!Next /\ UNCHANGED <<part, vars>>
Ensemble == Together /\ [][Telling \/ Painting]_all

\* After every frame the terminal shows it, and nothing of an older one (blit.h);
\* a repaint replaces its frame and takes nothing from what was printed (#185).
ScreenIsRight == Screen!ScreenShowsTheFrame /\ Screen!OutputStandsAndPromptsDoNotPileUp
=============================================================================
