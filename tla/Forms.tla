------------------------------- MODULE Forms -------------------------------
(* The dialogs of internal/ui that collect a value and send it: the pickers  *)
(* (namespace, context, resource, container, time range), the port-forward,  *)
(* scale, set-image and chart-source dialogs, the panel they are drawn with, *)
(* and the app's routing of keys to the one that is open.                    *)
(* A text is abstract: a key typed into an input leaves any of its texts.    *)
EXTENDS Integers, Sequences, FiniteSets

CONSTANTS Lists,         \* item lists a picker can be given (items are numbers)
          Query, Blank,  \* texts of a filter, and the empty text
          How,           \* how an item's name and API group match a query
          Long,          \* length of an item's name
          MaxVisible,    \* rows of a list
          Ports,         \* container ports of the port-forward dialog
          Locals, MaxPort,           \* texts of the local port; the highest port
          Counts, NaN, MaxReplicas, MaxInt,  \* texts of the scale dialog, one
                         \* of them no number; the counts it opens on; the highest
          Images, NoImage, Policies, Containers,
          None

VARIABLES form,   \* the open dialog, or None
          given,  \* the items the picker holds, open or not
          sent    \* the last dialog submitted and the message it sent,
          \* until another dialog opens (for the properties)

vars == <<form, given, sent>>

List == 0   \* the panel's focus when it is on the list, else the input's index

----------------------------------------------------------------------------
(* The panel: text inputs and a list with a cursor in a window.              *)

FocusInput(p, i) == [p EXCEPT !.focus = i, !.on = {i}]
BlurAll(p) == [p EXCEPT !.on = {}]
FocusList(p) == [BlurAll(p) EXCEPT !.focus = List]

(* clampCursor after the cursor is set to c.                                 *)
At(p, c) ==
  IF p.items = <<>> THEN [p EXCEPT !.cursor = 1, !.offset = 1]
  ELSE LET n == Len(p.items)
           at == IF c < 1 THEN 1 ELSE IF c > n THEN n ELSE c
           from == IF at < p.offset THEN at ELSE p.offset
       IN  [p EXCEPT !.cursor = at,
                     !.offset = IF at >= from + MaxVisible
                                THEN at - MaxVisible + 1 ELSE from]

SetItems(p, items) == At([p EXCEPT !.items = items, !.offset = 1], 1)
ListKey(p, d) == At(p, p.cursor + d)
UpdateInput(p, t) == IF p.focus = List THEN p ELSE [p EXCEPT !.text[p.focus] = t]

(* A fresh panel with the given texts, its first input focused.              *)
NewPanel(texts) ==
  FocusInput([on |-> {}, focus |-> List, text |-> texts, items |-> <<>>,
              cursor |-> 1, offset |-> 1], 1)

----------------------------------------------------------------------------
(* Filters.                                                                  *)

Holds(q, i) == How[q][i].name.as \in {"same", "prefix", "inside"}

ScoreCandidate(h) == CASE h.as = "same"    -> 1000
                       [] h.as = "prefix"  -> 800 + h.share
                       [] h.as = "inside"  -> 400
                       [] h.as = "letters" -> 200
                       [] OTHER            -> 0

ScoreEntry(q, i) ==
  LET name == ScoreCandidate(How[q][i].name)
      group == ScoreCandidate(How[q][i].group)
  IN  IF group > 0 /\ group \div 2 > name THEN group \div 2 ELSE name

(* The items of the given places, in an order.                               *)
Chosen(items, S, Before(_, _)) ==
  LET places == CHOOSE s \in [1..Cardinality(S) -> S] :
                  \A j, k \in DOMAIN s : j < k => Before(s[j], s[k])
  IN  [k \in 1..Cardinality(S) |-> items[places[k]]]

(* Best score first, then the shorter name, then the order they came in.     *)
Better(q, items) ==
  LET Score(k) == IF q = Blank THEN 1 ELSE ScoreEntry(q, items[k])
      Before(j, k) == \/ Score(j) > Score(k)
                      \/ /\ Score(j) = Score(k)
                         /\ \/ Long[items[j]] < Long[items[k]]
                            \/ Long[items[j]] = Long[items[k]] /\ j < k
  IN  Chosen(items, {j \in DOMAIN items : Score(j) > 0}, Before)

Containing(q, items) ==
  Chosen(items, {j \in DOMAIN items : q = Blank \/ Holds(q, items[j])}, <)

Filter(fuzzy, q, items) == IF fuzzy THEN Better(q, items) ELSE Containing(q, items)

----------------------------------------------------------------------------
(* What a key does to the open dialog: it changes it, closes it, or closes   *)
(* it with a message.                                                        *)

Becomes(f) == form' = f /\ UNCHANGED <<given, sent>>
Closes == form' = None /\ UNCHANGED <<given, sent>>
Sends(msg) == /\ form' = None
              /\ sent' = [form |-> form, msg |-> msg]
              /\ UNCHANGED given

Starts(f) == form' = f /\ sent' = None /\ UNCHANGED given

Opened(kind) == form # None /\ form.kind = kind

----------------------------------------------------------------------------
(* Pickers.                                                                  *)

ApplyFilter(f, all) ==
  [f EXCEPT !.panel = SetItems(f.panel, Filter(f.fuzzy, f.panel.text[1], all))]

OpenPicker(fuzzy) ==
  /\ form = None
  /\ Starts(ApplyFilter([kind |-> "picker", fuzzy |-> fuzzy,
                     panel |-> NewPanel(<<Blank>>)], given))

(* New items arrive, from the cluster or from discovery, whatever is open.   *)
Given(items) ==
  /\ items # given
  /\ given' = items
  /\ form' = IF Opened("picker") THEN ApplyFilter(form, items) ELSE form
  /\ UNCHANGED sent

PickerMove(d) == Opened("picker") /\ Becomes([form EXCEPT !.panel = ListKey(@, d)])

PickerType(q) ==
  Opened("picker") /\ Becomes(ApplyFilter([form EXCEPT !.panel = UpdateInput(@, q)], given))

PickerEnter ==
  /\ Opened("picker")
  /\ LET all == Filter(form.fuzzy, form.panel.text[1], given)
     IN  IF form.panel.cursor \in DOMAIN all THEN Sends(all[form.panel.cursor]) ELSE Closes

----------------------------------------------------------------------------
(* The Yes/No bar the other dialogs share.                                   *)

Footer(f) == [f EXCEPT !.footer = IF f.input THEN "none" ELSE f.button]
ToInput(f, i) == Footer([f EXCEPT !.input = TRUE, !.panel = FocusInput(@, i)])
ToButtons(f) == Footer([f EXCEPT !.input = FALSE, !.panel = BlurAll(@)])
ToButton(f, b) == Footer([f EXCEPT !.button = b])

----------------------------------------------------------------------------
(* Port forward: input 1 filters the list, input 2 is the local port.        *)

SyncLocal(f) ==
  IF f.panel.focus = 2 THEN f
  ELSE [f EXCEPT !.panel.text[2] =
          IF f.panel.items = <<>> THEN 0 ELSE f.panel.items[f.panel.cursor]]

FilterPorts(f) ==
  SyncLocal([f EXCEPT !.panel = SetItems(@, Containing(f.panel.text[1], Ports))])

OpenForward ==
  /\ form = None
  /\ Starts(Footer(FilterPorts(
       [kind |-> "forward", panel |-> NewPanel(<<Blank, 0>>),
        input |-> TRUE, button |-> "yes", footer |-> "none"])))

ForwardSubmit ==
  LET local == form.panel.text[2]
  IN  IF form.panel.items = <<>> THEN Becomes(form)
      ELSE IF local \notin 1..MaxPort THEN Becomes([form EXCEPT !.footer = "invalid"])
      ELSE Sends([remote |-> form.panel.items[form.panel.cursor], local |-> local])

ForwardTab(f) == IF ~f.input THEN ToInput(f, 1)
                 ELSE CASE f.panel.focus = 1 -> [f EXCEPT !.panel = FocusList(@)]
                        [] f.panel.focus = List -> [f EXCEPT !.panel = FocusInput(@, 2)]
                        [] OTHER -> ToButtons(f)

ForwardMove(d) ==
  /\ Opened("forward")
  /\ Becomes(IF form.input THEN SyncLocal([form EXCEPT !.panel = ListKey(@, d)])
             ELSE IF d < 0 THEN ToInput(form, 2) ELSE form)

ForwardType(q, t) ==
  /\ Opened("forward") /\ form.input
  /\ Becomes(CASE form.panel.focus = 1 ->
                    FilterPorts([form EXCEPT !.panel = UpdateInput(@, q)])
               [] OTHER -> [form EXCEPT !.panel = UpdateInput(@, t)])

ForwardKey(key) ==
  /\ Opened("forward")
  /\ CASE key = "tab" -> Becomes(ForwardTab(form))
       [] key = "enter" -> IF form.input \/ form.button = "yes" THEN ForwardSubmit ELSE Closes
       [] key = "y" -> ~form.input /\ ForwardSubmit
       [] key = "n" -> ~form.input /\ Closes
       [] OTHER -> ~form.input /\ Becomes(ToButton(form, key))

----------------------------------------------------------------------------
(* Scale: one input, a number, or NaN: a text that is not one.              *)

OpenScale(n) ==
  /\ form = None
  /\ Starts(Footer([kind |-> "scale", panel |-> NewPanel(<<n>>), was |-> n,
                    input |-> TRUE, button |-> "yes", footer |-> "none"]))

Adjusted(n, d) == IF n = NaN THEN n
                  ELSE IF n + d < 0 THEN 0
                  ELSE IF n + d > MaxInt THEN MaxInt ELSE n + d

ScaleSubmit ==
  LET n == form.panel.text[1]
  IN  IF n \notin 0..MaxInt THEN Becomes(form)
      ELSE IF n = form.was THEN Closes ELSE Sends(n)

ScaleMove(d) ==
  /\ Opened("scale")
  /\ Becomes(IF form.input THEN [form EXCEPT !.panel.text[1] = Adjusted(@, d)]
             ELSE IF d > 0 THEN ToInput(form, 1) ELSE form)

ScaleType(n) == /\ Opened("scale") /\ form.input
                /\ Becomes([form EXCEPT !.panel = UpdateInput(@, n)])

ScaleTab(f) == IF f.input THEN ToButtons(f) ELSE ToInput(f, 1)

(* y and n answer from the input too: it takes digits only.                  *)
ScaleKey(key) ==
  /\ Opened("scale")
  /\ CASE key = "tab" -> Becomes(ScaleTab(form))
       [] key = "enter" -> IF form.input \/ form.button = "yes" THEN ScaleSubmit ELSE Closes
       [] key = "y" -> ScaleSubmit
       [] key = "n" -> Closes
       [] OTHER -> ~form.input /\ Becomes(ToButton(form, key))

----------------------------------------------------------------------------
(* Set image: per container an image input and a pull-policy cycle.          *)

Rows == DOMAIN Containers
Default == 1
PolicyOf(v) == IF \E k \in DOMAIN Policies : Policies[k] = v
               THEN CHOOSE k \in DOMAIN Policies : Policies[k] = v ELSE Default
Value(k) == Policies[k]

FocusImage(f, r) ==
  Footer([f EXCEPT !.input = TRUE, !.lit = {}, !.kindOf = "image", !.row = r,
                   !.panel = FocusInput(@, r)])
(* A slip: the image inputs keep their cursor.                               *)
FocusPolicyOnly(f, r) ==
  Footer([f EXCEPT !.input = TRUE, !.lit = {r}, !.kindOf = "policy", !.row = r])
FocusPolicy(f, r) ==
  Footer([f EXCEPT !.input = TRUE, !.lit = {r}, !.kindOf = "policy", !.row = r,
                   !.panel = BlurAll(@)])
FocusButtons(f) ==
  Footer([f EXCEPT !.input = FALSE, !.lit = {}, !.kindOf = "buttons", !.panel = BlurAll(@)])

OpenImage ==
  /\ form = None
  /\ Starts(FocusImage([kind |-> "image",
       panel |-> NewPanel([r \in Rows |-> Containers[r].image]),
       policy |-> [r \in Rows |-> PolicyOf(Containers[r].policy)], lit |-> {},
       kindOf |-> "image", row |-> 1,
       input |-> TRUE, button |-> "yes", footer |-> "none"], 1))

FocusNext(f) ==
  CASE f.kindOf = "image" -> FocusPolicy(f, f.row)
    [] f.kindOf = "policy" /\ f.row >= Len(Containers) -> FocusButtons(f)
    [] f.kindOf = "policy" /\ f.row < Len(Containers) -> FocusImage(f, f.row + 1)
    [] OTHER -> FocusImage(f, 1)

FocusPrev(f) ==
  CASE f.kindOf = "image" /\ f.row <= 1 -> FocusButtons(f)
    [] f.kindOf = "image" /\ f.row > 1 -> FocusPolicy(f, f.row - 1)
    [] f.kindOf = "policy" -> FocusImage(f, f.row)
    [] OTHER -> FocusPolicy(f, Len(Containers))

Cycled(f, d) ==
  [f EXCEPT !.policy[f.row] = ((@ - 1 + d + Len(Policies)) % Len(Policies)) + 1]

(* What a container's row asks for: never an empty image, never the default. *)
ImageChanged(f, r) == f.panel.text[r] \notin {Containers[r].image, NoImage}
PolicyChanged(f, r) == /\ f.policy[r] # Default
                       /\ Value(f.policy[r]) # Containers[r].policy
Changes(f) ==
  {[row |-> r,
    image |-> IF ImageChanged(f, r) THEN f.panel.text[r] ELSE NoImage,
    policy |-> IF PolicyChanged(f, r) THEN Value(f.policy[r]) ELSE Value(Default)] :
     r \in {s \in Rows : ImageChanged(f, s) \/ PolicyChanged(f, s)}}

ImageSubmit == IF Changes(form) = {} THEN Closes ELSE Sends(Changes(form))

ImageType(v) == /\ Opened("image") /\ form.kindOf = "image"
                /\ Becomes([form EXCEPT !.panel = UpdateInput(@, v)])

ImageKey(key) ==
  /\ Opened("image")
  /\ CASE key = "tab" -> Becomes(FocusNext(form))
       [] key = "shift+tab" -> Becomes(FocusPrev(form))
       [] key = "enter" -> IF form.kindOf = "buttons" /\ form.button = "no"
                           THEN Closes ELSE ImageSubmit
       [] key = "y" -> ~form.input /\ ImageSubmit
       [] key = "n" -> ~form.input /\ Closes
       [] form.kindOf = "policy" /\ key \in {"yes", "no"} ->
            Becomes(Cycled(form, IF key = "yes" THEN -1 ELSE 1))
       [] OTHER -> ~form.input /\ Becomes(ToButton(form, key))

----------------------------------------------------------------------------
(* Chart source: one input.                                                  *)

OpenChart(ref) == form = None /\ Starts([kind |-> "chart", panel |-> NewPanel(<<ref>>)])
ChartType(ref) == Opened("chart") /\ Becomes([form EXCEPT !.panel = UpdateInput(@, ref)])
ChartEnter == /\ Opened("chart")
              /\ IF form.panel.text[1] = Blank THEN Closes ELSE Sends(form.panel.text[1])

Escape == form # None /\ Closes

----------------------------------------------------------------------------

Init == form = None /\ given \in Lists /\ sent = None

Texts == Query \cup {Blank}
Bar == {"tab", "enter", "y", "n", "yes", "no"}   \* "yes", "no": the Left and Right keys

Next == \/ \E fuzzy \in BOOLEAN : OpenPicker(fuzzy)
        \/ \E items \in Lists : Given(items)
        \/ \E d \in {-1, 1} : PickerMove(d)
        \/ \E q \in Texts : PickerType(q)
        \/ PickerEnter
        \/ OpenForward
        \/ \E d \in {-1, 1} : ForwardMove(d)
        \/ \E q \in Texts, t \in Locals : ForwardType(q, t)
        \/ \E key \in Bar : ForwardKey(key)
        \/ \E n \in 0..MaxReplicas : OpenScale(n)
        \/ \E d \in {-1, 1} : ScaleMove(d)
        \/ \E n \in Counts : ScaleType(n)
        \/ \E key \in Bar : ScaleKey(key)
        \/ OpenImage
        \/ \E v \in Images \cup {NoImage} : ImageType(v)
        \/ \E key \in Bar \cup {"shift+tab"} : ImageKey(key)
        \/ \E ref \in Texts : OpenChart(ref)
        \/ \E ref \in Texts : ChartType(ref)
        \/ ChartEnter
        \/ Escape

Spec == Init /\ [][Next]_vars

----------------------------------------------------------------------------
(* What is drawn with a cursor or highlighted, and where the keys go.        *)
Drawn(f) ==
  [inputs |-> IF f.kind = "image" /\ f.kindOf # "image" THEN {} ELSE f.panel.on,
   policies |-> IF f.kind = "image" THEN f.lit ELSE {},
   button |-> IF f.kind \in {"picker", "chart"} THEN "none" ELSE f.footer]

Keys(f) ==
  LET typing == CASE f.kind \in {"picker", "chart"} -> TRUE
                  [] f.kind = "image" -> f.kindOf = "image"
                  [] OTHER -> f.input
  IN  [inputs |-> IF typing THEN {f.panel.focus} \ {List} ELSE {},
       policies |-> IF f.kind = "image" /\ f.kindOf = "policy" THEN {f.row} ELSE {},
       button |-> IF typing \/ (f.kind = "image" /\ f.kindOf = "policy") THEN "none" ELSE f.button]

(* The text cursor, the lit policy and the lit button are where the next key *)
(* goes, after any walk through the dialog, and the list's cursor is on an   *)
(* item that is drawn. The one exception is the footer that reports a bad    *)
(* port: it replaces the buttons until the focus next moves.                 *)
FocusIsDrawn ==
  form # None =>
    /\ \/ Drawn(form) = Keys(form)
       \/ /\ form.kind = "forward" /\ form.footer = "invalid"
          /\ Drawn(form).inputs = Keys(form).inputs
    /\ form.kind = "image" =>
         form.panel.on = IF form.kindOf = "image" THEN {form.row} ELSE {}
    /\ form.panel.items # <<>> =>
         form.panel.cursor \in DOMAIN form.panel.items
           \cap (form.panel.offset..(form.panel.offset + MaxVisible - 1))

(* What a dialog sends is what it showed when Enter was pressed: the item    *)
(* under the cursor, with the local port of the input; and the containers    *)
(* come out as shown when the set-image changes are applied to what they     *)
(* were, but for a cleared image and a policy set back to the default.       *)
Shown(f) == f.panel.items[f.panel.cursor]
Applied(changes, r, field, none) ==
  IF \E c \in changes : c.row = r /\ c[field] # none
  THEN (CHOOSE c \in changes : c.row = r)[field] ELSE Containers[r][field]

SentIsShown ==
  sent # None =>
    LET f == sent.form IN
    CASE f.kind = "picker" -> sent.msg = Shown(f)
      [] f.kind = "forward" -> /\ sent.msg = [remote |-> Shown(f), local |-> f.panel.text[2]]
                               /\ sent.msg.local \in 1..MaxPort
      [] f.kind = "image" ->
           \A r \in Rows :
             /\ f.panel.text[r] # NoImage =>
                  Applied(sent.msg, r, "image", NoImage) = f.panel.text[r]
             /\ f.policy[r] # Default =>
                  Applied(sent.msg, r, "policy", Value(Default)) = Value(f.policy[r])
      [] OTHER -> sent.msg = f.panel.text[1] /\ sent.msg # Blank
=============================================================================
