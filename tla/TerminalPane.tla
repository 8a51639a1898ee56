----------------------------- MODULE TerminalPane -----------------------------
(* A pane with a shell in it (internal/ui/terminalpane.go): its size and its  *)
(* terminal emulator's, how far it is scrolled back, the prefix machine that  *)
(* takes its keys and the bytes it sends (encodeKey), the lines of history    *)
(* and screen it draws (internal/ui/emulator.go, RenderViewport) and where    *)
(* the app puts the real cursor (internal/app/app.go, terminalCursor).        *)
(* The pane is the lower of two splits, one above the other; no dialog is     *)
(* open. The emulator's own grid is a library's: a line is a number, 0 blank. *)
EXTENDS Integers, Sequences

CONSTANTS Frames,      \* sizes [w, h] the user gives the terminal aku runs in
          Keys,        \* key presses: [rune, special, shift, ctrl, alt, text]
          Prefix,      \* the key TerminalPrefix returns
          Captured,    \* keys IsCaptured keeps for the app
          MaxBack,     \* lines of scrollback the emulator is told to keep
          MaxLines     \* bound on the lines the shell writes

VARIABLES frame,    \* the app's size
          zoomed,   \* the focused split fills the screen
          pane,     \* w, h, borderless, focused, mode, exited, scroll
          emu,      \* the emulator: cols, rows, screen, back, cursor x, y, cursor shown
          lines,    \* lines the shell has written
          sent      \* the last key the shell was sent, and its bytes

vars == <<frame, zoomed, pane, emu, lines, sent>>

AtLeast(n, low) == IF n < low THEN low ELSE n
AtMost(n, high) == IF n > high THEN high ELSE n

----------------------------------------------------------------------------
(* Sizes: the layout gives the pane the whole screen when it is zoomed, no   *)
(* room when the other split is, and the lower half otherwise.               *)

StatusBar == 1
Body == frame.h - StatusBar

Place(f, z, focused) ==
  LET h == f.h - StatusBar IN
  IF z THEN (IF focused THEN [y |-> 0, w |-> f.w, h |-> h] ELSE [y |-> 0, w |-> 0, h |-> 0])
       ELSE [y |-> h \div 2, w |-> f.w, h |-> h - h \div 2]

innerSize(w, h) == [cols |-> AtLeast(w - 2, 1), rows |-> AtLeast(h - 2, 1)]

innerDims(p) ==
  IF p.borderless THEN [cols |-> AtLeast(p.w, 1), rows |-> AtLeast(p.h - 1, 1)]
                  ELSE innerSize(p.w, p.h)

ContentOffset(p) == IF p.borderless THEN [x |-> 0, y |-> 1] ELSE [x |-> 1, y |-> 1]

(* The emulator keeps the rows that still fit and its cursor on the grid.    *)
Resized(e, d) ==
  [e EXCEPT !.cols = d.cols, !.rows = d.rows,
            !.screen = [i \in 1..d.rows |-> IF i <= Len(e.screen) THEN e.screen[i] ELSE 0],
            !.x = AtMost(@, d.cols), !.y = AtMost(@, d.rows - 1)]

SetBorderless(b, p, e) ==
  LET q == [p EXCEPT !.borderless = b] IN [p |-> q, e |-> Resized(e, innerDims(q))]

SetSize(w, h, p, e) ==
  LET q == [p EXCEPT !.w = w, !.h = h] IN [p |-> q, e |-> Resized(e, innerDims(q))]

IsHidden(p) == p.w <= 0 \/ p.h <= 0

(* What recalcSizes does to this pane; a zoomed one also covers the row of   *)
(* the status bar.                                                           *)
Recalculated(f, z, r) ==
  LET at == Place(f, z, r.p.focused)
      h == IF z /\ r.p.focused THEN at.h + StatusBar ELSE at.h
  IN  SetSize(at.w, h, r.p, r.e)

Becomes(r) == pane' = r.p /\ emu' = r.e

----------------------------------------------------------------------------
(* Keys: the two-state prefix machine and the bytes of a key.                *)

SpecialBytes ==
  [up |-> <<27, 91, 65>>, down |-> <<27, 91, 66>>, right |-> <<27, 91, 67>>,
   left |-> <<27, 91, 68>>, home |-> <<27, 91, 72>>, end |-> <<27, 91, 70>>,
   delete |-> <<27, 91, 51, 126>>, pgup |-> <<27, 91, 53, 126>>, pgdown |-> <<27, 91, 54, 126>>,
   enter |-> <<13>>, tab |-> <<9>>, backspace |-> <<127>>, escape |-> <<27>>,
   f1 |-> <<27, 79, 80>>, f2 |-> <<27, 79, 81>>, f3 |-> <<27, 79, 82>>, f4 |-> <<27, 79, 83>>,
   f5 |-> <<27, 91, 49, 53, 126>>, f6 |-> <<27, 91, 49, 55, 126>>,
   f7 |-> <<27, 91, 49, 56, 126>>, f8 |-> <<27, 91, 49, 57, 126>>,
   f9 |-> <<27, 91, 50, 48, 126>>, f10 |-> <<27, 91, 50, 49, 126>>,
   f11 |-> <<27, 91, 50, 51, 126>>, f12 |-> <<27, 91, 50, 52, 126>>]

ControlCode(rune) ==
  CASE rune \in 97..122        -> <<rune - 96>>
    [] rune \in 65..90         -> <<rune - 64>>
    [] rune \in {32, 64}       -> <<0>>
    [] rune \in 92..95         -> <<rune - 64>>
    [] OTHER                   -> <<>>

PlainBytes(k) ==
  IF k.ctrl /\ ControlCode(k.rune) # <<>> THEN ControlCode(k.rune)
  ELSE IF k.special \in DOMAIN SpecialBytes THEN SpecialBytes[k.special]
  ELSE IF k.rune = 32 THEN <<32>>
  ELSE k.text

WithoutAlt(k) ==
  [k EXCEPT !.alt = FALSE,
            !.text = IF @ = <<>> /\ ~k.ctrl /\ ~k.shift /\ k.rune \in 32..126 THEN <<k.rune>> ELSE @]

encodeKey(k) ==
  IF ~k.alt THEN PlainBytes(k)
  ELSE LET rest == PlainBytes(WithoutAlt(k)) IN
       IF rest = <<>> THEN <<>> ELSE <<27>> \o rest

ToShell(k) == sent' = IF encodeKey(k) = <<>> THEN sent ELSE [key |-> k, bytes |-> encodeKey(k)]

(* What the shell is told of a key: its name, its control code or its         *)
(* character, and whether alt was held. The shift and ctrl of a special key   *)
(* are dropped; the codes of ctrl+i and ctrl+m are those of tab and enter.    *)
Named(name) == [name |-> name, code |-> <<>>]
Coded(code) == [name |-> "none", code |-> code]
Meaning(k) ==
  LET code == ControlCode(k.rune) IN
  CASE k.special # "none"       -> Named(k.special)
    [] k.special = "none" /\ k.ctrl ->
         IF code = <<9>> THEN Named("tab") ELSE IF code = <<13>> THEN Named("enter") ELSE Coded(code)
    [] OTHER                    -> Coded(IF k.text = <<>> THEN <<k.rune>> ELSE k.text)
Meant(k) == [alt |-> k.alt, what |-> Meaning(k)]

Bottom(p) == [p EXCEPT !.scroll = 0]

Takes(k) == pane.focused /\ ~pane.exited /\ k \in Keys

(* The prefix waits for a command; a captured key is the app's, and leaves   *)
(* the view where it is; any other key is the shell's.                       *)
PressPrefix ==
  /\ Takes(Prefix) /\ pane.mode = "typing"
  /\ pane' = [pane EXCEPT !.mode = "nav"]
  /\ UNCHANGED <<frame, zoomed, emu, lines, sent>>

Type(k) ==
  /\ Takes(k) /\ pane.mode = "typing" /\ k \notin Captured \cup {Prefix}
  /\ pane' = Bottom(pane)
  /\ ToShell(k)
  /\ UNCHANGED <<frame, zoomed, emu, lines>>

(* A slip: the history's length is no limit.                                 *)
ScrollUpFreely(p, n) == [p EXCEPT !.scroll = @ + n]

(* The key after the prefix: the prefix itself is sent, pgup and pgdown      *)
(* scroll by a page, any other is the layout's command or nothing.           *)
ScrollUp(p, n) == [p EXCEPT !.scroll = AtMost(@ + n, Len(emu.back))]
ScrollDown(p, n) == [p EXCEPT !.scroll = AtLeast(@ - n, 0)]
Alone(k, name) == k.special = name /\ ~k.shift /\ ~k.ctrl /\ ~k.alt
PageLines == AtLeast(innerDims(pane).rows - 1, 1)

Command(k) ==
  /\ Takes(k) /\ pane.mode = "nav"
  /\ LET p == [pane EXCEPT !.mode = "typing"] IN
     CASE k = Prefix             -> pane' = p /\ ToShell(k)
       [] Alone(k, "pgup")       -> pane' = ScrollUp(p, PageLines) /\ UNCHANGED sent
       [] Alone(k, "pgdown")     -> pane' = ScrollDown(p, PageLines) /\ UNCHANGED sent
       [] OTHER                  -> pane' = p /\ UNCHANGED sent
  /\ UNCHANGED <<frame, zoomed, emu, lines>>

----------------------------------------------------------------------------
(* The app: wheel, focus, zoom, a new size.                                  *)

WheelLines == 3

Wheel(up) ==
  /\ ~IsHidden(pane)
  /\ pane' = IF up THEN ScrollUp(pane, WheelLines) ELSE ScrollDown(pane, WheelLines)
  /\ UNCHANGED <<frame, zoomed, emu, lines, sent>>

(* Once the shell has ended its keys are the app's, pgup and pgdown too.     *)
Page(up) ==
  /\ pane.focused /\ pane.exited
  /\ pane' = IF up THEN ScrollUp(pane, PageLines) ELSE ScrollDown(pane, PageLines)
  /\ UNCHANGED <<frame, zoomed, emu, lines, sent>>

Blurred(p) == [p EXCEPT !.focused = FALSE, !.mode = "typing"]
Focused(p) == [p EXCEPT !.focused = TRUE]

(* The zoom follows the focus from one split to the other.                   *)
MoveFocus ==
  /\ LET p == IF pane.focused THEN Blurred(pane) ELSE Focused(pane)
         r == IF zoomed THEN SetBorderless(p.focused, p, emu) ELSE [p |-> p, e |-> emu]
     IN  Becomes(Recalculated(frame, zoomed, r))
  /\ UNCHANGED <<frame, zoomed, lines, sent>>

Zoom ==
  /\ zoomed' = ~zoomed
  /\ LET r == IF pane.focused THEN SetBorderless(zoomed', pane, emu) ELSE [p |-> pane, e |-> emu]
     IN  Becomes(Recalculated(frame, zoomed', r))
  /\ UNCHANGED <<frame, lines, sent>>

WindowSize(f) ==
  /\ f # frame
  /\ frame' = f
  /\ Becomes(Recalculated(f, zoomed, [p |-> pane, e |-> emu]))
  /\ UNCHANGED <<zoomed, lines, sent>>

----------------------------------------------------------------------------
(* The shell: whatever it writes brings the view back to the live screen.    *)

Write(e) ==
  /\ ~pane.exited
  /\ pane' = Bottom(pane)
  /\ emu' = e
  /\ UNCHANGED <<frame, zoomed, sent>>

Kept(s) == IF Len(s) > MaxBack THEN Tail(s) ELSE s

WriteLine ==
  /\ lines < MaxLines
  /\ lines' = lines + 1
  /\ Write([emu EXCEPT !.back = Kept(Append(@, emu.screen[1])),
                       !.screen = Append(Tail(@), lines + 1)])

ClearHistory == emu.back # <<>> /\ Write([emu EXCEPT !.back = <<>>]) /\ UNCHANGED lines

(* A program puts its cursor in a corner, past the last column too, or       *)
(* hides it.                                                                 *)
MoveCursor ==
  /\ \/ Write([emu EXCEPT !.x = 0, !.y = 0, !.shown = TRUE])
     \/ Write([emu EXCEPT !.x = emu.cols, !.y = emu.rows - 1, !.shown = TRUE])
     \/ Write([emu EXCEPT !.shown = FALSE])
  /\ UNCHANGED lines

Exit ==
  /\ ~pane.exited
  /\ pane' = [pane EXCEPT !.exited = TRUE]
  /\ UNCHANGED <<frame, zoomed, emu, lines, sent>>

----------------------------------------------------------------------------
(* Drawing. The viewport is composed by hand from the scrollback and the     *)
(* live screen, and the banner of a shell that has ended covers its first    *)
(* line.                                                                     *)

RenderViewport(offset) ==
  IF offset <= 0 \/ emu.back = <<>> THEN emu.screen
  ELSE LET back == Len(emu.back)
           end == back + Len(emu.screen) - AtMost(offset, back)
           start == AtLeast(end - emu.rows, 0)
       IN  [i \in 1..(end - start) |->
              IF start + i <= back THEN emu.back[start + i] ELSE emu.screen[start + i - back]]

Banner == -1
Drawn ==
  LET content == RenderViewport(pane.scroll)
  IN  IF pane.exited THEN [content EXCEPT ![1] = Banner] ELSE content

Title == [nav |-> pane.focused /\ pane.mode = "nav", scrolled |-> AtLeast(pane.scroll, 0)]

CursorVisible == pane.focused /\ ~pane.exited /\ pane.scroll <= 0 /\ emu.shown

(* Where the real cursor goes; {} when there is none.                        *)
terminalCursor ==
  LET r == Place(frame, zoomed, TRUE)
      d == ContentOffset(pane)
      size == innerDims(pane)
  IN  IF ~CursorVisible \/ r.w <= d.x \/ r.h <= d.y THEN {}
      ELSE {[x |-> d.x + AtMost(emu.x, AtMost(size.cols, r.w - d.x) - 1),
             y |-> r.y + d.y + AtMost(emu.y, size.rows - 1)]}

----------------------------------------------------------------------------
Blank == [cols |-> 1, rows |-> 1, screen |-> <<0>>, back |-> <<>>, x |-> 0, y |-> 0, shown |-> TRUE]
Started == [w |-> 0, h |-> 0, borderless |-> FALSE, focused |-> TRUE,
            mode |-> "typing", exited |-> FALSE, scroll |-> 0]

(* The pane as it is once inserted and sized; its shell has printed nothing. *)
Init ==
  /\ frame \in Frames
  /\ zoomed = FALSE
  /\ LET r == Recalculated(frame, FALSE, [p |-> Started, e |-> Blank]) IN pane = r.p /\ emu = r.e
  /\ lines = 0
  /\ sent = [key |-> Prefix, bytes |-> <<>>]

Next ==
  \/ PressPrefix
  \/ \E k \in Keys : Type(k)
  \/ \E k \in Keys : Command(k)
  \/ \E up \in BOOLEAN : Wheel(up)
  \/ \E up \in BOOLEAN : Page(up)
  \/ MoveFocus
  \/ Zoom
  \/ \E f \in Frames : WindowSize(f)
  \/ WriteLine
  \/ ClearHistory
  \/ MoveCursor
  \/ Exit

Spec == Init /\ [][Next]_vars

----------------------------------------------------------------------------
(* The lines drawn are those the title says: the history and the screen, as  *)
(* many lines back as it counts, and as many lines as the pane has rows,     *)
(* whatever was written, dropped from the history or resized meanwhile.      *)
ViewIsWhereTitleSays ==
  LET all == emu.back \o emu.screen
      last == Len(all) - Title.scrolled
      rows == innerDims(pane).rows
      view == SubSeq(all, last - rows + 1, last)
  IN  /\ Title.scrolled <= Len(emu.back)
      /\ Drawn = IF pane.exited THEN [view EXCEPT ![1] = Banner] ELSE view

(* The real cursor is on the cell of the program's cursor: on its row, and   *)
(* on its column or the last one, inside the pane's content, zoomed or not.  *)
CursorIsOnItsCell ==
  \A c \in terminalCursor :
    LET top == Place(frame, zoomed, TRUE).y + 1
        left == IF zoomed THEN 0 ELSE 1
    IN  /\ c.y = top + emu.y
        /\ c.x = left + AtMost(emu.x, innerDims(pane).cols - 1)
        /\ c.y < (IF zoomed THEN frame.h ELSE Body)
        /\ c.x < frame.w

(* Where the pane is, the way the title and the cursor show it.              *)
ScreenIsTrue == ViewIsWhereTitleSays /\ CursorIsOnItsCell

(* The prefix waits for a command only while the pane has the focus: a key   *)
(* typed when the pane is focused again is the shell's.                      *)
PrefixEndsWithFocus == pane.mode = "nav" => pane.focused

(* Keys that mean different things to the shell do not look the same to it.  *)
KeyStep == Meant(sent'.key) # Meant(sent.key) => sent'.bytes # sent.bytes
=============================================================================
