------------------------------- MODULE Notices -------------------------------
(* aku's own messages: the bounded store (internal/notify), the toasts drawn *)
(* from it (internal/ui/toaststack.go), the list of messages in a pane       *)
(* (internal/plugins/notifications), and the app's handlers. Time is a       *)
(* discrete clock; the screen is drawn after every update.                   *)
EXTENDS Integers, Sequences, FiniteSets, SequencesExt

CONSTANTS Capacity,    \* messages the store keeps
          MaxVisible,  \* toasts on the screen
          TTL,         \* lifetime of a toast of each level; Sticky: until cleared
          MaxAdded, MaxTime  \* bounds on the messages and on the clock

Sticky == 0
Levels == DOMAIN TTL
Longest == CHOOSE d \in {TTL[l] : l \in Levels} : \A l \in Levels : TTL[l] <= d

VARIABLES store,      \* messages, oldest first
          nextID,
          now,
          arriving,   \* MessageAddedMsgs on their way, in any order
          ticks,      \* armed ticks: an id and the time it fires
          dismissed,  \* ids hidden from the screen
          drawn,      \* ids of the toasts on the screen, newest first
          listed      \* the ids the messages pane shows

vars == <<store, nextID, now, arriving, ticks, dismissed, drawn, listed>>

Window(s) == {s[k].id : k \in DOMAIN s}

(* Live: the places of the messages that are sticky or younger than their    *)
(* lifetime.                                                                 *)
Live(s, t) ==
  {k \in DOMAIN s : TTL[s[k].level] = Sticky \/ t - s[k].time < TTL[s[k].level]}

Visible(s, t, hidden) == {k \in Live(s, t) : s[k].id \notin hidden}
Ids(s, places) == {s[k].id : k \in places}

(* Newest first, as many as there is room for.                               *)
Draw(s, t, hidden) ==
  LET places == Visible(s, t, hidden)
      total == Cardinality(places)
      Nth(n) == CHOOSE k \in places : Cardinality({j \in places : j >= k}) = n
  IN  [n \in 1..(IF total > MaxVisible THEN MaxVisible ELSE total) |-> s[Nth(n)].id]

Redraw == drawn' = Draw(store', now, dismissed')

Prune(hidden) == hidden \cap Window(store)

----------------------------------------------------------------------------

(* Add, called within an update: the oldest message makes room.              *)
Add(level) ==
  /\ nextID < MaxAdded /\ now + Longest < MaxTime
  /\ nextID' = nextID + 1
  /\ store' = LET s == Append(store, [id |-> nextID', time |-> now, level |-> level])
              IN  IF Len(s) > Capacity THEN SubSeq(s, Len(s) - Capacity + 1, Len(s)) ELSE s
  /\ arriving' = arriving \cup {[id |-> nextID', level |-> level]}
  /\ UNCHANGED <<now, ticks, dismissed, listed>>
  /\ Redraw

(* How long a message that has just arrived may still be shown.              *)
Held(id) == id \in Window(store)
Message(id) == store[CHOOSE k \in DOMAIN store : store[k].id = id]
Remaining(m) == TTL[m.level] - (now - m.time)

(* A slip: a tick that is due in the next instant is not worth arming.       *)
ArmLate(m) == IF Remaining(m) <= 1 THEN {} ELSE {[id |-> m.id, at |-> now + Remaining(m)]}
Arm(m) == {[id |-> m.id, at |-> now + Remaining(m)]}

Relist(id) == listed' = Window(store)

Arrives(a) ==
  /\ arriving' = arriving \ {a}
  /\ Relist(a.id)
  /\ IF TTL[a.level] = Sticky THEN UNCHANGED <<dismissed, ticks>>
     ELSE IF ~Held(a.id) \/ Remaining(Message(a.id)) <= 0
     THEN dismissed' = Prune(dismissed \cup {a.id}) /\ UNCHANGED ticks
     ELSE ticks' = ticks \cup Arm(Message(a.id)) /\ UNCHANGED dismissed
  /\ UNCHANGED <<store, nextID, now>>
  /\ Redraw

Expires(tick) ==
  /\ tick.at <= now
  /\ ticks' = ticks \ {tick}
  /\ dismissed' = Prune(dismissed \cup {tick.id})
  /\ UNCHANGED <<store, nextID, now, arriving, listed>>
  /\ Redraw

(* A slip: what was hidden before is forgotten.                              *)
ClearOnly == dismissed' = Prune(Ids(store, Visible(store, now, dismissed)))
ClearAll == dismissed' = Prune(dismissed \cup Ids(store, Live(store, now)))

ClearNotifications ==
  /\ Live(store, now) # {}
  /\ ClearAll
  /\ UNCHANGED <<store, nextID, now, arriving, ticks, listed>>
  /\ Redraw

(* Time passes; nothing is drawn until the next update.                      *)
Clock == /\ now < MaxTime
         /\ now' = now + 1
         /\ UNCHANGED <<store, nextID, arriving, ticks, dismissed, drawn, listed>>

Init == /\ store = <<>> /\ nextID = 0 /\ now = 0
        /\ arriving = {} /\ ticks = {} /\ dismissed = {} /\ drawn = <<>> /\ listed = {}

Next == \/ \E level \in Levels : Add(level)
        \/ \E a \in arriving : Arrives(a)
        \/ \E tick \in ticks : Expires(tick)
        \/ ClearNotifications
        \/ Clock

(* The clock runs; messages arrive; a timer that is due fires.               *)
Spec == /\ Init /\ [][Next]_vars
        /\ WF_vars(Clock)
        /\ WF_vars(\E a \in arriving : Arrives(a))
        /\ WF_vars(\E tick \in ticks : Expires(tick))

----------------------------------------------------------------------------
(* A toast that is gone does not come back: not when the clock goes on, a    *)
(* late arrival is handled, a message is evicted or the toasts are cleared   *)
(* again.                                                                    *)
Toasts(s, t, hidden) == Ids(s, Visible(s, t, hidden))
GoneStep ==
  \A id \in 1..nextID : id \notin Toasts(store, now, dismissed)
                           => id \notin Toasts(store', now', dismissed')
GoneStaysGone == [][GoneStep]_vars

(* What is kept about hidden toasts stays within the store's capacity.       *)
DismissedIsBounded == dismissed # {} => Cardinality(dismissed) <= Capacity

(* A toast that is not sticky leaves the screen by itself, however late its  *)
(* message is handled and with no other message to cause a redraw.           *)
ToastShown(id) == id \in ToSet(drawn) /\ TTL[Message(id).level] # Sticky
ToastGone(id) == id \notin ToSet(drawn)
ToastsLeave == \A id \in 1..MaxAdded : ToastShown(id) ~> ToastGone(id)

(* Once the messages on their way have arrived the pane lists the store.     *)
SettledListIsCurrent == arriving = {} => listed = Window(store)
=============================================================================
