------------------------------ MODULE SearchBar ------------------------------
(* The search and filter bar (internal/ui/searchbar.go), the pattern each    *)
(* pane keeps (internal/ui/searchstate.go) and the app's handlers between    *)
(* them. A key the bar takes, and the apply it leads to, are commands:       *)
(* goroutines whose messages reach the update loop in any order.             *)
EXTENDS Integers, FiniteSets

CONSTANTS Panes,       \* what can have the focus: resource lists, the detail panel
          Patterns,    \* patterns that compile
          Broken,      \* texts that are no regular expression
          Modes,       \* {"search", "filter"}
          MaxKeys,     \* bound on the keys the bar takes
          Burst        \* bound: keys the user is ahead of the update loop

Blank == "blank"
Texts == Patterns \cup Broken \cup {Blank}

VARIABLES bar,      \* active, mode, text, and whether a key changed the text since it was opened
          focus,    \* the pane searchTarget returns
          seq,      \* searchApplySeq
          keys,     \* keys taken: the identity of each message
          inbox,    \* messages on their way
          handled,  \* history: the key whose message was handled last
          pattern   \* pattern[p][mode]: what pane p is searched or filtered for

vars == <<bar, focus, seq, keys, inbox, handled, pattern>>

Message(type, text) == [type |-> type, key |-> keys + 1, text |-> text, mode |-> bar.mode]
Apply(m) == [type |-> "apply", key |-> seq + 1, text |-> m.text, mode |-> m.mode]
FromKeys == {m \in inbox : m.type # "apply"}

----------------------------------------------------------------------------
(* The bar.                                                                  *)

Open(mode) ==
  /\ ~bar.active
  /\ bar' = [active |-> TRUE, mode |-> mode, text |-> Blank, typed |-> FALSE]
  /\ UNCHANGED <<focus, seq, keys, inbox, handled, pattern>>

Key(m, changed) ==
  /\ bar.active
  /\ keys < MaxKeys /\ Cardinality(FromKeys) < Burst
  /\ keys' = keys + 1
  /\ inbox' = inbox \cup {m}
  /\ bar' = changed
  /\ UNCHANGED <<focus, seq, handled, pattern>>

Close == [bar EXCEPT !.active = FALSE]

Type(text) == /\ text # bar.text
              /\ Key(Message("changed", text), [bar EXCEPT !.text = text, !.typed = TRUE])
Enter == Key(Message("submitted", bar.text), Close)
Cancel == Key(Message("cleared", Blank), Close)

(* ctrl+w, which the app takes before the bar: it sends nothing.             *)
CtrlW == bar.active /\ bar' = Close /\ UNCHANGED <<focus, seq, keys, inbox, handled, pattern>>

----------------------------------------------------------------------------
(* Compile: an empty pattern clears, one that does not compile keeps what    *)
(* was there.                                                                *)
Compile(text, mode) ==
  pattern' = IF text \in Broken THEN pattern ELSE [pattern EXCEPT ![focus][mode] = text]

Handles(m, type) ==
  /\ m.type = type
  /\ handled' = IF type = "apply" THEN handled ELSE m.key
  /\ UNCHANGED <<bar, focus, keys>>

Changed(m) ==
  /\ Handles(m, "changed")
  /\ seq' = seq + 1
  /\ IF m.text = Blank
     THEN Compile(Blank, m.mode) /\ inbox' = inbox \ {m}
     ELSE inbox' = (inbox \ {m}) \cup {Apply(m)} /\ UNCHANGED pattern

Submitted(m) ==
  /\ Handles(m, "submitted")
  /\ Compile(m.text, m.mode)
  /\ inbox' = inbox \ {m}
  /\ UNCHANGED seq

Cleared(m) ==
  /\ Handles(m, "cleared")
  /\ Compile(Blank, m.mode)
  /\ inbox' = inbox \ {m}
  /\ UNCHANGED seq

(* A slip: an apply is taken for what it says, however old it is.            *)
AppliedAnyway(m) ==
  /\ Handles(m, "apply")
  /\ Compile(m.text, m.mode)
  /\ inbox' = inbox \ {m}
  /\ UNCHANGED seq

Applied(m) ==
  /\ Handles(m, "apply")
  /\ IF m.key = seq THEN Compile(m.text, m.mode) ELSE UNCHANGED pattern
  /\ inbox' = inbox \ {m}
  /\ UNCHANGED seq

----------------------------------------------------------------------------
(* Keys while the bar is closed: the focus moves; escape takes the search    *)
(* first and the filter after it.                                            *)

MoveFocus(p) == /\ ~bar.active /\ focus' = p
                /\ UNCHANGED <<bar, seq, keys, inbox, handled, pattern>>

ClearOverlay ==
  /\ ~bar.active
  /\ \E mode \in Modes :
       /\ pattern[focus][mode] # Blank
       /\ mode = "filter" => pattern[focus]["search"] = Blank
       /\ Compile(Blank, mode)
  /\ UNCHANGED <<bar, focus, seq, keys, inbox, handled>>

Init == /\ bar = [active |-> FALSE, mode |-> "search", text |-> Blank, typed |-> FALSE]
        /\ focus \in Panes
        /\ seq = 0 /\ keys = 0 /\ inbox = {} /\ handled = 0
        /\ pattern = [p \in Panes |-> [mode \in Modes |-> Blank]]

Next == \/ \E mode \in Modes : Open(mode)
        \/ \E text \in Texts : Type(text)
        \/ Enter
        \/ Cancel
        \/ CtrlW
        \/ \E m \in inbox : Changed(m) \/ Submitted(m) \/ Cleared(m) \/ Applied(m)
        \/ \E p \in Panes : MoveFocus(p)
        \/ ClearOverlay

Spec == Init /\ [][Next]_vars

----------------------------------------------------------------------------
(* While the bar is open and the message of the last key was the last one    *)
(* handled, the pane is searched for the text the bar shows once the apply    *)
(* that led to is done, whatever applies of earlier keys, of this bar or of   *)
(* one that was closed, are still on their way.                               *)
CurrentApply == \E m \in inbox : m.type = "apply" /\ m.key = seq
Shows == pattern[focus][bar.mode] = bar.text
BarIsApplied ==
  (bar.active /\ bar.typed /\ handled = keys /\ ~CurrentApply /\ bar.text \notin Broken) => Shows
=============================================================================
