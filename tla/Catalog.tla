------------------------------- MODULE Catalog -------------------------------
(* What resource types aku knows: the process-wide plugin registry           *)
(* (internal/plugin/registry.go), each cluster's discovery index             *)
(* (internal/k8s/discovery.go), the handler that feeds the one from the      *)
(* other (internal/app/app.go) and the rows of the resource picker, told     *)
(* apart where names collide (internal/app/collision.go). A discovery runs   *)
(* off the update loop and its result arrives whenever it does.              *)
EXTENDS Integers, Sequences, FiniteSets, SequencesExt

CONSTANTS Contexts,    \* clusters
          Builtins,    \* plugins registered at startup, in order
          Served,      \* Served[c]: types the API server of c lists
          MaxRefresh   \* bound on the discoveries of a cluster

(* A type is a record: name (a number, for the order), group, version,       *)
(* short, builtin (isBuiltInGroup of its group) and listable.                *)
Known == {Builtins[i] : i \in DOMAIN Builtins} \cup UNION {Served[c] : c \in Contexts}
Names == {t.name : t \in Known}
Shorts == {t.short : t \in Known} \ {"none"}

VARIABLES ordered,    \* registered plugins, in order
          byName,     \* byName[n]: the plugin a plain name means
          byShort,    \* byShort[s]: the one a short name means
          index,      \* index[c]: the types cluster c's Discovery has
          refreshed,  \* discoveries of c so far
          inbox,      \* results on their way: [ctx, types, err]
          focus,      \* context of the focused pane
          listed,     \* what the api-resources view shows
          rows,       \* the picker's entries
          opened      \* the last row picked and the plugin it opened

registry == <<ordered, byName, byShort>>
vars == <<registry, index, refreshed, inbox, focus, listed, rows, opened>>

None == [name |-> 0]
GVR(t) == <<t.group, t.version, t.name>>
ByGVR(r) == {GVR(r.ordered[i]) : i \in DOMAIN r.ordered}
Registry == [ordered |-> ordered, byName |-> byName, byShort |-> byShort]

----------------------------------------------------------------------------
(* Register, at startup, overwrites; RegisterIfAbsent leaves the first       *)
(* plugin of a name, but adds every new type to the list.                    *)
Register(r, t) ==
  [ordered |-> Append(r.ordered, t),
   byName  |-> [r.byName EXCEPT ![t.name] = t],
   byShort |-> IF t.short = "none" THEN r.byShort ELSE [r.byShort EXCEPT ![t.short] = t]]

(* A slip: a later type takes over the plain name.                           *)
RegisterTakingOver(r, t) == IF GVR(t) \in ByGVR(r) THEN r ELSE Register(r, t)

RegisterIfAbsent(r, t) ==
  IF GVR(t) \in ByGVR(r) THEN r
  ELSE IF r.byName[t.name] # None THEN [r EXCEPT !.ordered = Append(@, t)]
  ELSE Register(r, t)

RegisterAll(r, types) ==
  LET after[i \in 0..Len(types)] == IF i = 0 THEN r ELSE RegisterIfAbsent(after[i - 1], types[i])
  IN  after[Len(types)]

----------------------------------------------------------------------------
(* The picker's rows: markCollisions.                                        *)
Same(entries, i) == {j \in DOMAIN entries : entries[j].name = entries[i].name}
Collides(entries, i) == Same(entries, i) # {i}
HasBuiltin(entries, i) == \E j \in Same(entries, i) : entries[j].builtin
HasOther(entries, i) == \E j \in Same(entries, i) : ~entries[j].builtin

(* Of types that are all built in, the first stands for all.                 *)
Removed(entries, i) ==
  Collides(entries, i) /\ ~HasOther(entries, i) /\ \E j \in Same(entries, i) : j < i

Qualified(entries, i) == ~entries[i].builtin /\ Collides(entries, i)

Row(entries, i) == [type |-> entries[i], qualified |-> Qualified(entries, i)]
markCollisions(entries) ==
  LET kept[i \in 0..Len(entries)] ==
        IF i = 0 THEN <<>>
        ELSE IF Removed(entries, i) THEN kept[i - 1]
        ELSE Append(kept[i - 1], Row(entries, i))
  IN  kept[Len(entries)]

buildPickerEntries(r) == markCollisions(r.ordered)

(* What a row shows.                                                         *)
Label(e) == [name |-> e.type.name, short |-> e.type.short,
             group |-> IF e.qualified THEN <<e.type.group, e.type.version>> ELSE <<>>]

----------------------------------------------------------------------------
(* A discovery: whatever the server could list, sorted by name alone.        *)
Orders(types) ==
  {s \in SetToSeqs(types) : \A i, j \in DOMAIN s : i < j => s[i].name <= s[j].name}

filterAPIResources(types) == {t \in types : t.listable}

(* Populate replaces the cluster's index with one result in one step; a      *)
(* discovery that got nothing leaves it.                                     *)
Refresh(c) ==
  /\ refreshed[c] < MaxRefresh
  /\ refreshed' = [refreshed EXCEPT ![c] = @ + 1]
  /\ \/ \E types \in {Served[c]} \cup {Served[c] \ {t} : t \in Served[c]} :
        \E s \in Orders(filterAPIResources(types)) :
          /\ index' = [index EXCEPT ![c] = filterAPIResources(types)]
          /\ inbox' = inbox \cup {[ctx |-> c, types |-> s, err |-> types # Served[c]]}
     \/ /\ inbox' = inbox \cup {[ctx |-> c, types |-> <<>>, err |-> TRUE]}
        /\ UNCHANGED index
  /\ UNCHANGED <<registry, focus, listed, rows, opened>>

(* Only a result of the focused pane's cluster feeds the registry.           *)
Takes(m) == ~(m.err /\ m.types = <<>>) /\ m.ctx = focus

Discovered(m) ==
  /\ inbox' = inbox \ {m}
  /\ IF ~Takes(m) THEN UNCHANGED <<registry, listed, rows>>
     ELSE LET r == RegisterAll(Registry, m.types) IN
          /\ ordered' = r.ordered /\ byName' = r.byName /\ byShort' = r.byShort
          /\ listed' = m.types
          /\ rows' = buildPickerEntries(r)
  /\ UNCHANGED <<index, refreshed, focus, opened>>

Focus(c) ==
  /\ c # focus
  /\ focus' = c
  /\ UNCHANGED <<registry, index, refreshed, inbox, listed, rows, opened>>

(* A row's command: the type itself, or the plain name.                      *)
ByName(n) == byName[n]
Pick(i) ==
  /\ opened' = [row |-> rows[i], plugin |-> IF rows[i].qualified THEN rows[i].type
                                            ELSE ByName(rows[i].type.name)]
  /\ UNCHANGED <<registry, index, refreshed, inbox, focus, listed, rows>>

(* Enter in the api-resources view goes by the plain name too.               *)
GoTo(i) ==
  /\ ByName(listed[i].name) # None
  /\ opened' = [row |-> [type |-> listed[i], qualified |-> FALSE],
                plugin |-> ByName(listed[i].name)]
  /\ UNCHANGED <<registry, index, refreshed, inbox, focus, listed, rows>>

----------------------------------------------------------------------------
Empty == [ordered |-> <<>>, byName |-> [n \in Names |-> None], byShort |-> [s \in Shorts |-> None]]
Startup ==
  LET after[i \in 0..Len(Builtins)] == IF i = 0 THEN Empty ELSE Register(after[i - 1], Builtins[i])
  IN  after[Len(Builtins)]

Init ==
  /\ ordered = Startup.ordered /\ byName = Startup.byName /\ byShort = Startup.byShort
  /\ index = [c \in Contexts |-> {}]
  /\ refreshed = [c \in Contexts |-> 0]
  /\ inbox = {}
  /\ focus \in Contexts
  /\ listed = <<>>
  /\ rows = buildPickerEntries(Startup)
  /\ opened = [row |-> [type |-> None, qualified |-> FALSE], plugin |-> None]

Next ==
  \/ \E c \in Contexts : Refresh(c)
  \/ \E m \in inbox : Discovered(m)
  \/ \E c \in Contexts : Focus(c)
  \/ \E i \in DOMAIN rows : Pick(i)
  \/ \E i \in DOMAIN listed : GoTo(i)

Spec == Init /\ [][Next]_vars

----------------------------------------------------------------------------
(* Two built-in types of one name of which a custom type keeps both listed.  *)
Twins(s, t) ==
  /\ s.name = t.name /\ s.builtin /\ t.builtin
  /\ \E i \in DOMAIN ordered : ordered[i].name = s.name /\ ~ordered[i].builtin

(* A picker row says what it opens: twins apart, no two rows look the same,  *)
(* a row that names a group opens that very type, and any other a type of    *)
(* its name, whatever the clusters listed and in whatever order the results  *)
(* came.                                                                     *)
RowsSayWhatTheyOpen ==
  /\ \A i, j \in DOMAIN rows :
       Label(rows[i]) = Label(rows[j]) => i = j \/ Twins(rows[i].type, rows[j].type)
  /\ opened.row.type # None =>
       /\ opened.plugin.name = opened.row.type.name
       /\ opened.row.qualified => opened.plugin = opened.row.type

(* The registry only grows: what a plain name means, once it means a type,   *)
(* it means for the session, and a type that could be opened still can.      *)
NameStep ==
  /\ \A n \in Names : byName[n] # None => byName'[n] = byName[n]
  /\ IsPrefix(ordered, ordered')
NamesKeepTheirMeaning == [][NameStep]_vars
=============================================================================
