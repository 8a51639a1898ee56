------------------------------- MODULE MCPanes -------------------------------
(***************************************************************************)
(* Small instances of the modules of the screen, for TLC.                  *)
(***************************************************************************)
EXTENDS Panes, TLC

CONSTANTS p1, p2

-----------------------------------------------------------------------------
(* The layout.  The window changes between small sizes whose halves and    *)
(* thirds do not come out even, one of them too small.                     *)
ScreenSizes == {[w |-> 7, h |-> 6], [w |-> 6, h |-> 3], [w |-> 1, h |-> 2]}

-----------------------------------------------------------------------------
(* Overlays: panes on a connected and on a pinned cluster, one overlay of  *)
(* each sort.                                                              *)
TwoPanes == {p1, p2}

-----------------------------------------------------------------------------
(* A table: three names, one of them with a second incarnation, two        *)
(* columns, and a viewport shorter than the list; objects come and go.     *)
Names == <<1, 2, 3, 1>>
Lists4 == {{}, {3}, {1, 2, 3}, {2, 3, 4}}
Values == [NAME |-> Names, AGE |-> <<2, 1, 2, 3>>]
Objects4 == 1 .. 4
OneAndThree == {{1, 3}}
HiddenOrTwo == {-4, 2}

-----------------------------------------------------------------------------
(* A text: its lines match a filter or not, wrap or not, and hold a match  *)
(* inside a line, at the break of a wrapped one, and across two.           *)
Long == << <<"a", "b">>, <<"a", "a", "b", "W", "a", "b", "a">> >>
Short == << <<"b">>, <<"a">> >>
Texts == {[text |-> Long, coloured |-> c] : c \in BOOLEAN}
             \cup {[text |-> Short, coloured |-> TRUE]}
TextSearches == {<<"a", "b">>, <<"b", "/", "a">>}

-----------------------------------------------------------------------------
(* A terminal pane: keys with and without modifiers, two of them the same  *)
(* to the shell, the prefix, a key the app keeps, and keys of the          *)
(* navigation mode.                                                        *)
Rune(r, ctrl, alt) ==
    [rune |-> r, special |-> "none", shift |-> FALSE, ctrl |-> ctrl, alt |-> alt, text |-> <<>>]
SpecialKey(s, shift) ==
    [rune |-> 0, special |-> s, shift |-> shift, ctrl |-> FALSE, alt |-> FALSE, text |-> <<>>]
CtrlA == Rune(97, TRUE, FALSE)
AltZ == Rune(122, FALSE, TRUE)
TypedKeys == {CtrlA, AltZ, Rune(97, TRUE, TRUE), Rune(105, TRUE, FALSE),
              SpecialKey("tab", TRUE), SpecialKey("pgup", FALSE), SpecialKey("pgdown", FALSE)}
FrameSizes == {[w |-> 5, h |-> 6], [w |-> 4, h |-> 2]}

Kept == {AltZ}

-----------------------------------------------------------------------------
\* "done" of Overlays is read only in the step that sets it.
WithoutEffects ==
    <<part,
      CASE part = "shell" -> WithoutHistory
        [] part = "overlays" ->
             <<focus, target, overlay, about, pending, answers, histories, disturbed>>
        [] part = "table" -> tableVars
        [] part = "text" -> textVars
        [] part = "terminal" -> terminalVars>>
Symmetry == Permutations(Lists) \cup Permutations(TwoPanes)
=============================================================================
