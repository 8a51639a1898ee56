--------------------------------- MODULE Keys ---------------------------------
(* Key bindings: the flat list of internal/config/binding.go compiled into a  *)
(* trie for the focused pane, the chords the user types along it              *)
(* (internal/config/keytrie.go, internal/app/app.go handleKey), the hints the *)
(* status bar shows meanwhile, and the help overlay that lists them all       *)
(* (internal/ui/helpoverlay.go). Chords are interrupted by clicks and by      *)
(* panes that go away. The search of the help is by words: a binding has a    *)
(* set of them, and a query one.                                              *)
EXTENDS Integers, Sequences, FiniteSets, SequencesExt

CONSTANTS Bindings,    \* the list: key, cmd, scope, for, visible, capture, words, keys (nested)
          MaxChord,    \* how many keys the longest chord has
          Places,      \* what can have the focus: [details, shell, live, plugin]
          Moves,       \* commands that move the focus
          Heights,     \* heights the user gives the terminal
          Queries      \* words typed in the help's search

VARIABLES place,    \* currentContext, and whether a live shell takes the keys
          compiled, \* the context the trie was compiled for
          typed,    \* the chord so far: the trie's current node
          began,    \* the place in which its first key was pressed
          hints,    \* the status bar's keys
          ran,      \* the chord the last step ran, if it ran one
          help      \* active, of (the place), groups, scroll, searching, query, height

vars == <<place, compiled, typed, began, hints, ran, help>>

AnyScope == "any"
NoCmd == "none"
NoQuery == "none"
Nothing == [cmd |-> NoCmd]

----------------------------------------------------------------------------
(* The scope of what has the focus: the detail panel by what it shows, with  *)
(* the plugin of the list it is about; a shell; or a list.                   *)
currentContext(p) ==
  [type |-> IF p.details # "none" THEN p.details ELSE IF p.shell THEN "terminal" ELSE "resources",
   res |-> IF p.shell THEN "" ELSE p.plugin]

----------------------------------------------------------------------------
(* The compiler.                                                             *)

matchesContext(b, c) ==
  /\ \/ b.scope \in {AnyScope, c.type}
     \/ b.scope = "details" /\ c.type \in {"yaml", "describe", "logs"}
  /\ b.for = {} \/ c.res \in b.for

(* A child takes the scope and the resources of its chord when it has none,  *)
(* and is shown whenever the chord is.                                       *)
Inherited(child, b) ==
  [key |-> child.key, cmd |-> child.cmd, capture |-> child.capture, words |-> child.words,
   keys |-> child.keys, visible |-> TRUE,
   scope |-> IF child.scope = AnyScope THEN b.scope ELSE child.scope,
   for |-> IF child.for = {} THEN b.for ELSE child.for]

(* The bindings nested in a chord, and all lists of bindings by how deep     *)
(* they are nested.                                                          *)
Within(b) == [i \in DOMAIN b.keys |-> Inherited(b.keys[i], b)]
Nested(lists) == UNION {{Within(list[i]) : i \in DOMAIN list} : list \in lists}
ListsAt(n) ==
  LET lists[k \in 0..MaxChord] == IF k = 0 THEN {Bindings} ELSE Nested(lists[k - 1]) IN lists[n]
Lists == UNION {ListsAt(n) : n \in 0..MaxChord}
AllKeys == UNION {{list[i].key : i \in DOMAIN list} : list \in Lists}

NoKeys == [key \in {} |-> NoCmd]
Leaf(b) == [cmd |-> b.cmd, hidden |-> ~b.visible, keys |-> NoKeys]
With(nodes, key, node) == [k \in DOMAIN nodes \cup {key} |-> IF k = key THEN node ELSE nodes[k]]
Over(old, new) == [k \in DOMAIN old \cup DOMAIN new |-> IF k \in DOMAIN new THEN new[k] ELSE old[k]]

(* A slip: a second chord on a key takes the place of the first.             *)
ReplacedBranch(nodes, b, children) == With(nodes, b.key, [Leaf(b) EXCEPT !.keys = children])

Branch(nodes, b, children) ==
  IF b.key \in DOMAIN nodes /\ nodes[b.key].keys # NoKeys
  THEN With(nodes, b.key, [cmd |-> nodes[b.key].cmd, hidden |-> ~b.visible,
                           keys |-> Over(nodes[b.key].keys, children)])
  ELSE With(nodes, b.key, [Leaf(b) EXCEPT !.keys = children])

(* A binding goes into a trie, a chord with the trie of what is nested in it. *)
insertBinding(nodes, b, below, c) ==
  IF ~matchesContext(b, c) THEN nodes
  ELSE IF b.keys = <<>> THEN With(nodes, b.key, Leaf(b))
  ELSE Branch(nodes, b, below[Within(b)])

Inserted(list, below, c) ==
  LET nodes[i \in 0..Len(list)] == IF i = 0 THEN NoKeys ELSE insertBinding(nodes[i - 1], list[i], below, c)
  IN  nodes[Len(list)]

(* The trie of each list, as long as its chords have n keys at most.         *)
AllInserted(below, c) == [list \in Lists |-> Inserted(list, below, c)]
Tries(n, c) ==
  LET tries[k \in 0..MaxChord] ==
        IF k = 0 THEN [list \in Lists |-> NoKeys] ELSE AllInserted(tries[k - 1], c)
  IN  tries[n]

compile(c) == Tries(MaxChord, c)[Bindings]

IsCaptured(key) == \E i \in DOMAIN Bindings : Bindings[i].capture /\ Bindings[i].key = key

----------------------------------------------------------------------------
(* The trie and the hints.                                                   *)

At(nodes, keys) ==
  LET at[n \in 0..Len(keys)] == IF n = 0 THEN nodes ELSE at[n - 1][keys[n]].keys
  IN  at[Len(keys)]

AtRoot == typed = <<>>
CurrentHints(nodes) == {k \in DOMAIN nodes : ~nodes[k].hidden}
StatusHints(c) ==
  {Bindings[i].key : i \in {j \in DOMAIN Bindings :
     /\ Bindings[j].visible /\ matchesContext(Bindings[j], c)
     /\ Bindings[j].cmd # NoCmd \/ Bindings[j].keys # <<>>}}

----------------------------------------------------------------------------
(* The help: every applicable binding and all that is nested in it, by       *)
(* scope, whatever the scope of what is nested.                              *)

Under(key, found) ==
  [j \in DOMAIN found |-> [keys |-> <<key>> \o found[j].keys, words |-> found[j].words]]
flattenBinding(b, below) ==
  IF b.keys # <<>> THEN Under(b.key, below[Within(b)])
  ELSE IF b.cmd = NoCmd THEN <<>> ELSE <<[keys |-> << b.key >>, words |-> b.words]>>

(* The hints of each list, as long as its chords have n keys at most.        *)
AllFlat(below) ==
  [list \in Lists |-> FlattenSeq([i \in DOMAIN list |-> flattenBinding(list[i], below)])]
Flat(n) ==
  LET flat[k \in 0..MaxChord] == IF k = 0 THEN [list \in Lists |-> <<>>] ELSE AllFlat(flat[k - 1])
  IN  flat[n]

Grouped(s, c) ==
  FlattenSeq([i \in DOMAIN Bindings |->
    IF matchesContext(Bindings[i], c) /\ Bindings[i].scope = s
    THEN flattenBinding(Bindings[i], Flat(MaxChord - 1)) ELSE <<>>])
HelpGroups(c) ==
  LET scopes == {Bindings[i].scope : i \in {j \in DOMAIN Bindings : matchesContext(Bindings[j], c)}}
  IN  {g \in {[scope |-> s, hints |-> Grouped(s, c)] : s \in scopes} : g.hints # <<>>}

Found(all, query) ==
  LET Keep(kept, hint) == IF query \in hint.words THEN Append(kept, hint) ELSE kept
      kept[k \in 0..Len(all)] == IF k = 0 THEN <<>> ELSE Keep(kept[k - 1], all[k])
  IN  kept[Len(all)]
filteredGroups(h) ==
  IF h.query = NoQuery THEN h.groups
  ELSE {g \in {[scope |-> x.scope, hints |-> Found(x.hints, h.query)] : x \in h.groups} : g.hints # <<>>}

AtLeast(n, low) == IF n < low THEN low ELSE n
tallestGroup(h) ==
  IF filteredGroups(h) = {} THEN 0
  ELSE CHOOSE n \in {1 + Len(g.hints) : g \in filteredGroups(h)} : \A g \in filteredGroups(h) : 1 + Len(g.hints) <= n
visibleHeight(h) == AtLeast(h.height - (IF h.searching \/ h.query # NoQuery THEN 11 ELSE 10), 5)
maxScroll(h) == AtLeast(tallestGroup(h) - visibleHeight(h), 0)

(* The lines of a column: the header, and as many hints as fit below it.     *)
Column(h, g, scroll) ==
  LET from == IF scroll > maxScroll(h) THEN maxScroll(h) ELSE scroll
      body == SubSeq(g.hints, from + 1, Len(g.hints))
  IN  SubSeq(body, 1, IF Len(body) > visibleHeight(h) - 1 THEN visibleHeight(h) - 1 ELSE Len(body))

----------------------------------------------------------------------------
(* A key: a live shell has it unless it is captured, the help has it while   *)
(* it is open, and otherwise the trie, compiled anew for the focused pane    *)
(* only when no chord is begun.                                              *)

Refreshed == IF AtRoot THEN currentContext(place) ELSE compiled
Nodes == At(compile(Refreshed), typed)
Began == IF AtRoot THEN place ELSE began
ForTrie(key) == ~help.active /\ (place.live => IsCaptured(key))

Resolved(p) ==
  /\ compiled' = Refreshed /\ began' = Began
  /\ typed' = <<>>
  /\ place' = p
  /\ hints' = StatusHints(currentContext(p))

Resolves(key, nodes) == key \in DOMAIN nodes /\ nodes[key].keys = NoKeys /\ nodes[key].cmd # NoCmd

(* The key leads further into a chord.                                       *)
Descend(key, nodes) ==
  /\ ForTrie(key) /\ key \in DOMAIN nodes /\ nodes[key].keys # NoKeys
  /\ compiled' = Refreshed /\ began' = Began
  /\ typed' = Append(typed, key)
  /\ hints' = CurrentHints(nodes[key].keys)
  /\ ran' = Nothing
  /\ UNCHANGED <<place, help>>

(* The key means nothing here: the chord is dropped.                         *)
Swallow(key, nodes) ==
  /\ ForTrie(key)
  /\ key \in DOMAIN nodes => nodes[key].keys = NoKeys /\ nodes[key].cmd = NoCmd
  /\ Resolved(place)
  /\ ran' = Nothing
  /\ UNCHANGED help

Opened(h, groups) ==
  [active |-> TRUE, of |-> place, groups |-> groups, scroll |-> 0, searching |-> FALSE,
   query |-> NoQuery, height |-> h.height]

(* The key runs a command, which may move the focus or open the help.        *)
Execute(key, nodes) ==
  /\ ForTrie(key) /\ Resolves(key, nodes)
  /\ \E p \in IF nodes[key].cmd \in Moves THEN Places ELSE {place} : Resolved(p)
  /\ ran' = [place |-> Began, keys |-> Append(typed, key), cmd |-> nodes[key].cmd]
  /\ help' = IF nodes[key].cmd = "help" THEN Opened(help, HelpGroups(currentContext(place))) ELSE help

(* A click moves the focus and leaves the chord; a double click runs         *)
(* enter-detail, which drops it. A placeholder pane that goes away drops it  *)
(* too, and does not touch the hints.                                        *)
Click(p) ==
  /\ ~help.active /\ place' = p /\ p # place /\ ran' = Nothing
  /\ UNCHANGED <<compiled, typed, began, hints, help>>

DoubleClick ==
  /\ ~help.active /\ currentContext(place).type = "resources"
  /\ typed' = <<>> /\ hints' = StatusHints(currentContext(place)) /\ ran' = Nothing
  /\ UNCHANGED <<place, compiled, began, help>>

PaneRemoved(p) ==
  /\ typed' = <<>> /\ place' = p /\ ran' = Nothing
  /\ UNCHANGED <<compiled, began, hints, help>>

----------------------------------------------------------------------------
(* Keys and wheel in the help, and a new size.                               *)

Help(active, scroll, searching, query) ==
  /\ help.active /\ ran' = Nothing
  /\ help' = [active |-> active, of |-> help.of, groups |-> help.groups, scroll |-> scroll,
              searching |-> searching, query |-> query, height |-> help.height]
  /\ UNCHANGED <<place, compiled, typed, began, hints>>
ScrollTo(n) == Help(TRUE, n, help.searching, help.query)

ScrollDown == ScrollTo(IF help.scroll + 1 > maxScroll(help) THEN maxScroll(help) ELSE help.scroll + 1)
ScrollUp == help.scroll > 0 /\ ScrollTo(help.scroll - 1)
OpenSearch == ~help.searching /\ Help(TRUE, help.scroll, TRUE, help.query)
TypeQuery(q) == help.searching /\ Help(TRUE, 0, TRUE, q)
EraseQuery ==
  help.searching /\ Help(TRUE, IF help.query = NoQuery THEN help.scroll ELSE 0, FALSE, NoQuery)
CancelSearch == help.searching /\ Help(TRUE, 0, FALSE, NoQuery)
ApplySearch == help.searching /\ Help(TRUE, help.scroll, FALSE, help.query)
CloseHelp == ~help.searching /\ Help(FALSE, help.scroll, FALSE, NoQuery)

WindowSize(n) ==
  /\ n # help.height
  /\ help' = [help EXCEPT !.height = n] /\ ran' = Nothing
  /\ UNCHANGED <<place, compiled, typed, began, hints>>

----------------------------------------------------------------------------
Init ==
  /\ place \in Places
  /\ compiled = currentContext(place) /\ began = place
  /\ typed = <<>>
  /\ hints = {}
  /\ ran = Nothing
  /\ help \in {[active |-> FALSE, of |-> place, groups |-> {}, scroll |-> 0, searching |-> FALSE, query |-> NoQuery, height |-> n] : n \in Heights}

Next ==
  \/ \E nodes \in {Nodes} : \E key \in AllKeys : Descend(key, nodes)
  \/ \E nodes \in {Nodes} : \E key \in AllKeys : Swallow(key, nodes)
  \/ \E nodes \in {Nodes} : \E key \in AllKeys : Execute(key, nodes)
  \/ \E p \in Places : Click(p)
  \/ DoubleClick
  \/ \E p \in Places : PaneRemoved(p)
  \/ ScrollDown
  \/ ScrollUp
  \/ OpenSearch
  \/ \E q \in Queries : TypeQuery(q)
  \/ EraseQuery
  \/ CancelSearch
  \/ ApplySearch
  \/ CloseHelp
  \/ \E n \in Heights : WindowSize(n)

Spec == Init /\ [][Next]_vars

----------------------------------------------------------------------------
(* What a list of bindings makes a chord mean, said without the compiler:    *)
(* the last binding on the key decides; if it is a chord, the chords on that *)
(* key since the last plain binding are read together, and of those the last *)
(* that binds the next key.  A chord that no other key continues is plain.   *)
On(list, key, c) == {i \in DOMAIN list : list[i].key = key /\ matchesContext(list[i], c)}
LastOf(S) == CHOOSE i \in S : \A j \in S : j <= i
Chords(list, key, c) ==
  {i \in On(list, key, c) : list[i].keys # <<>> /\ \A j \in On(list, key, c) : list[j].keys = <<>> => j < i}
Further(list, key, next, c) == {i \in Chords(list, key, c) : On(Within(list[i]), next, c) # {}}

(* The list in which the last key of a chord is looked up.                   *)
Into(list, key, next, c) ==
  IF Further(list, key, next, c) = {} THEN <<>> ELSE Within(list[LastOf(Further(list, key, next, c))])
Read(keys, c) ==
  LET list[n \in 0..(Len(keys) - 1)] ==
        IF n = 0 THEN Bindings ELSE Into(list[n - 1], keys[n], keys[n + 1], c)
  IN  list[Len(keys) - 1]
Applying(keys, c) == On(Read(keys, c), Last(keys), c)
Decides(keys, c) == Read(keys, c)[LastOf(Applying(keys, c))]
Continues(keys, c) == \E k \in AllKeys : Further(Read(keys, c), Last(keys), k, c) # {}
Meaning(keys, c) ==
  IF Applying(keys, c) = {} \/ Continues(keys, c) THEN NoCmd ELSE Decides(keys, c).cmd

(* A chord that runs runs what the pane in which it began binds it to, even  *)
(* when a click or a command moved the focus meanwhile; and while it is      *)
(* under way the status bar shows the keys that are bound to go on with, and *)
(* no others.                                                                *)
KeysMeanTheirBindings ==
  /\ ran.cmd # NoCmd => ran.cmd = Meaning(ran.keys, currentContext(ran.place))
  /\ ~AtRoot => hints = {k \in AllKeys : Applying(Append(typed, k), currentContext(began)) # {}}

(* The help leaves nothing out: while it is open every chord that runs in    *)
(* the pane it was opened in is listed, but for a command that a chord has   *)
(* itself, and every line of what is listed or found can be scrolled to,     *)
(* whatever the size of the screen.                                          *)
HelpShowsEveryKey ==
  help.active =>
    /\ \A n \in 1..MaxChord : \A keys \in [1..n -> AllKeys] :
         LET c == currentContext(help.of)
         IN  Meaning(keys, c) # NoCmd /\ Decides(keys, c).keys = <<>> =>
               \E g \in help.groups : \E i \in DOMAIN g.hints : g.hints[i].keys = keys
    /\ \A g \in filteredGroups(help) : \A i \in DOMAIN g.hints :
         \E s \in 0..maxScroll(help) :
           \E j \in DOMAIN Column(help, g, s) : Column(help, g, s)[j] = g.hints[i]
=============================================================================
