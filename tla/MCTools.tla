------------------------------- MODULE MCTools -------------------------------
(***************************************************************************)
(* An instance of the modules around the panes, for TLC.                   *)
(***************************************************************************)
EXTENDS Tools

-----------------------------------------------------------------------------
(* Terminal sessions: a shell in a container and one in a debug pod, which *)
(* compete for being the last split.                                       *)
CONSTANTS sh, node

-----------------------------------------------------------------------------
(* Keys.  The shape of the default list: a global chord with a child for   *)
(* pods only, a captured key, a key that means one thing on a list and     *)
(* another in a detail view; and what a user's list may add: a second      *)
(* chord on g, a chord over a plain key, a plain key over a chord, and in  *)
(* a chord one with a command of its own and a key for deployments only.   *)
Bind(key, cmd, scope, for, words) ==
    [key |-> key, cmd |-> cmd, scope |-> scope, for |-> for, visible |-> TRUE,
     capture |-> FALSE, words |-> words, keys |-> <<>>]
Chord(key, scope, for, keys) == [Bind(key, "none", scope, for, {}) EXCEPT !.keys = keys]
Plain(key, cmd) == Bind(key, cmd, "any", {}, {cmd})

KeysOfAll == <<
    Plain("q", "quit"),
    [Plain("z", "focus") EXCEPT !.capture = TRUE, !.visible = FALSE],
    Chord("g", "any", {}, <<Plain("p", "goto-pods"),
                            Bind("n", "nav-node", "any", {"pods"}, {"node"})>>),
    Chord("o", "any", {}, <<Plain("p", "split-pods")>>),
    Bind("x", "uncover", "resources", {"pods"}, {"env"}),
    Bind("x", "resolve-env", "details", {"pods"}, {"env"}),
    Plain("?", "help"),
    Chord("g", "resources", {}, <<Plain("p", "goto-mine"), Plain("x", "goto-x"),
        [Chord("w", "any", {}, <<Bind("w", "nav-w", "any", {"deployments"}, {"w"})>>)
            EXCEPT !.cmd = "own"]>>),
    Chord("q", "yaml", {}, <<Plain("q", "quit")>>),
    Bind("o", "open", "yaml", {}, {"open"}) >>

Place(details, plugin) ==
    [details |-> details, shell |-> FALSE, live |-> FALSE, plugin |-> plugin]
FourPlaces ==
    {Place("none", "pods"), Place("none", "deployments"), Place("yaml", "pods"),
     [Place("none", "") EXCEPT !.shell = TRUE, !.live = TRUE]}

-----------------------------------------------------------------------------
(* The search bar over two panes.                                          *)
TwoPanes == {"p1", "p2"}
SearchAndFilter == {"search", "filter"}

-----------------------------------------------------------------------------
(* Dialogs: lists longer than what is drawn, matches of every sort, ports  *)
(* and counts at and past their bounds.                                    *)
Match(name, group) ==
    [name |-> [as |-> name, share |-> 50], group |-> [as |-> group, share |-> 50]]
Items == {10, 11, 12, 13}
SomeLists == {<<10>>, <<10, 11, 12, 13>>, <<10, 13>>}
ContainerPorts == <<1, 2, 80>>
HowItMatches ==
       [a |-> [i \in Items \cup {1, 2, 80} |->
                  CASE i = 11 -> Match("inside", "none")
                    [] i = 12 -> Match("prefix", "none")
                    [] i = 13 -> Match("letters", "same")
                    [] i \in {2, 80} -> Match("inside", "none")
                    [] OTHER -> Match("none", "none")],
        z |-> [i \in Items \cup {1, 2, 80} |-> Match("none", "none")]]
Lengths == [i \in Items |-> 20 - i]
ThreePolicies == <<"default", "Always", "Never">>
TwoContainers == <<[image |-> "v1", policy |-> "Always"], [image |-> "v1", policy |-> "Other"]>>

-----------------------------------------------------------------------------
(* Lifetimes of notices.                                                   *)
Lifetimes == [info |-> 1, warning |-> 2, error |-> 0]

-----------------------------------------------------------------------------
(* The catalog.  Name 1 is built in and has a CRD of the same name in two  *)
(* versions; name 2 is built in but has no plugin, and a CRD; name 3 is    *)
(* built in in two groups, and a CRD.                                      *)
Type(n, group, version, short, builtin) ==
    [name |-> n, group |-> group, version |-> version, short |-> short,
     builtin |-> builtin, listable |-> TRUE]
Pods == Type(1, "core", "v1", "po", TRUE)
Events == Type(3, "core", "v1", "ev", TRUE)
ServedBy ==
    [one |-> {Pods, Type(1, "crd", "v1", "po", FALSE), Type(2, "net.k8s.io", "v1", "ip", TRUE),
              Type(2, "crd", "v2", "ip", FALSE),
              [Type(1, "core", "v1", "none", TRUE) EXCEPT !.listable = FALSE]},
     two |-> {Type(1, "crd", "v2", "po", FALSE), Type(2, "crd", "v1", "ip", FALSE),
              Type(2, "crd", "v2", "ip", FALSE), Type(3, "events.k8s.io", "v1", "ev", TRUE),
              Type(3, "crd", "v1", "ev", FALSE)}]

StartupPlugins == <<Pods, Events>>

=============================================================================
