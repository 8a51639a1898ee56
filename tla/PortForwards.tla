---------------------------- MODULE PortForwards ----------------------------
(* Port forwards: the registry (internal/portforward), the forwarder of      *)
(* internal/k8s/portforward.go, the commands that start and watch it, and    *)
(* the app's handlers.                                                       *)
(* A command is a goroutine whose result comes back as a message; messages   *)
(* of different commands arrive in any order. One update runs at a time, and *)
(* a deletion blocks the update loop until the forwarder has ended.          *)
EXTENDS Integers, FiniteSets

CONSTANTS Requests,  \* requests the user makes; one that is registered gives its id
          Locals,    \* local ports
          None

VARIABLES local,    \* the local port a request asked for, or None
          command,  \* "idle", "dial", "add", "refused" or "over": its start command
          forward,  \* "none", "starting", "ready" or "ended": its forwarder
          failed,   \* forwarders that ended with an error
          stop,     \* forwarders told to stop
          entries,  \* the registry: the status of each registered id
          handles,  \* ids whose handle the app keeps (pfHandles)
          watch,    \* "no", "ready" or "done": what a watch command waits for
          inbox,    \* messages on their way to the app
          blocked   \* the forwarder the update loop waits for, or None

vars == <<local, command, forward, failed, stop, entries, handles, watch, inbox, blocked>>

Registered == DOMAIN entries
Without(r) == [i \in Registered \ {r} |-> entries[i]]
With(r, status) == [i \in Registered \cup {r} |-> IF i = r THEN status ELSE entries[i]]
HasLocalPort(p) == \E i \in Registered : local[i] = p

Started(r, ok) == [type |-> "started", id |-> r, ok |-> ok]
Status(r, s) == [type |-> "status", id |-> r, status |-> s]

----------------------------------------------------------------------------
(* The registry.                                                             *)

(* A slip: Add, which takes no notice of the port.                           *)
AddUnchecked(r) ==
  /\ entries' = With(r, "Starting")
  /\ command' = [command EXCEPT ![r] = "over"]
  /\ inbox' = inbox \cup {Started(r, TRUE)}
  /\ UNCHANGED stop

AddIfNotPresent(r) ==
  IF HasLocalPort(local[r])
  THEN /\ stop' = stop \cup {r}
       /\ command' = [command EXCEPT ![r] = "refused"]
       /\ UNCHANGED <<entries, inbox>>
  ELSE /\ entries' = With(r, "Starting")
       /\ command' = [command EXCEPT ![r] = "over"]
       /\ inbox' = inbox \cup {Started(r, TRUE)}
       /\ UNCHANGED stop

(* Remove calls the entry's Cancel, which waits for the forwarder to end.    *)
Remove(r) ==
  IF r \in Registered
  THEN /\ entries' = Without(r)
       /\ stop' = stop \cup {r}
       /\ blocked' = IF forward[r] = "ended" THEN None ELSE r
  ELSE UNCHANGED <<entries, stop, blocked>>

UpdateStatus(r, s) == entries' = IF r \in Registered THEN With(r, s) ELSE entries

----------------------------------------------------------------------------
(* The forwarder: ready at most once, then ended, with an error or without.  *)

Ready(r) == /\ forward[r] = "starting"
            /\ forward' = [forward EXCEPT ![r] = "ready"]
            /\ UNCHANGED <<local, command, failed, stop, entries, handles, watch, inbox, blocked>>

(* It ends because it was stopped, or by itself: the port is taken, the pod  *)
(* is gone, the connection lost. An update loop that waits for it goes on.   *)
Ends(r, error) ==
  /\ forward[r] \in {"starting", "ready"}
  /\ forward' = [forward EXCEPT ![r] = "ended"]
  /\ failed' = IF error THEN failed \cup {r} ELSE failed
  /\ blocked' = IF blocked = r THEN None ELSE blocked
  /\ UNCHANGED <<local, command, stop, entries, handles, watch, inbox>>

----------------------------------------------------------------------------
(* Commands.                                                                 *)

(* handlePortForwardRequested: the port is checked before the command runs,  *)
(* and again, for good, when it registers.                                   *)
Request(r, p) ==
  /\ blocked = None /\ local[r] = None
  /\ local' = [local EXCEPT ![r] = p]
  /\ IF HasLocalPort(p)
     THEN inbox' = inbox \cup {Started(r, FALSE)} /\ UNCHANGED command
     ELSE command' = [command EXCEPT ![r] = "dial"] /\ UNCHANGED inbox
  /\ UNCHANGED <<forward, failed, stop, entries, handles, watch, blocked>>

Dial(r) ==
  /\ command[r] = "dial"
  /\ command' = [command EXCEPT ![r] = "add"]
  /\ forward' = [forward EXCEPT ![r] = "starting"]
  /\ UNCHANGED <<local, failed, stop, entries, handles, watch, inbox, blocked>>

DialFails(r) ==
  /\ command[r] = "dial"
  /\ command' = [command EXCEPT ![r] = "over"]
  /\ inbox' = inbox \cup {Started(r, FALSE)}
  /\ UNCHANGED <<local, forward, failed, stop, entries, handles, watch, blocked>>

Register(r) ==
  /\ command[r] = "add"
  /\ AddIfNotPresent(r)
  /\ UNCHANGED <<local, forward, failed, handles, watch, blocked>>

(* The port was taken in the meantime: the forwarder is stopped and awaited. *)
Refused(r) ==
  /\ command[r] = "refused" /\ forward[r] = "ended"
  /\ command' = [command EXCEPT ![r] = "over"]
  /\ inbox' = inbox \cup {Started(r, FALSE)}
  /\ UNCHANGED <<local, forward, failed, stop, entries, handles, watch, blocked>>

Ended(r) == Status(r, IF r \in failed THEN "Error" ELSE "Stopped")

(* When the forwarder is ready and has ended too, select takes either.       *)
WatchReady(r) ==
  /\ watch[r] = "ready"
  /\ \/ forward[r] \in {"ready", "ended"} /\ inbox' = inbox \cup {Status(r, "Ready")}
     \/ forward[r] = "ended" /\ inbox' = inbox \cup {Ended(r)}
  /\ watch' = [watch EXCEPT ![r] = "no"]
  /\ UNCHANGED <<local, command, forward, failed, stop, entries, handles, blocked>>

WatchDone(r) ==
  /\ watch[r] = "done" /\ forward[r] = "ended"
  /\ inbox' = inbox \cup {Ended(r)}
  /\ watch' = [watch EXCEPT ![r] = "no"]
  /\ UNCHANGED <<local, command, forward, failed, stop, entries, handles, blocked>>

----------------------------------------------------------------------------
(* Handlers of the update loop.                                              *)

Takes(m) == blocked = None /\ m \in inbox

HandleStarted(r, ok) ==
  /\ Takes(Started(r, ok))
  /\ inbox' = inbox \ {Started(r, ok)}
  /\ IF ok THEN /\ handles' = handles \cup {r}
                /\ watch' = [watch EXCEPT ![r] = "ready"]
           ELSE UNCHANGED <<handles, watch>>
  /\ UNCHANGED <<local, command, forward, failed, stop, entries, blocked>>

(* A slip: nobody waits for the end of a forward that became ready.          *)
HandleReadyOnce(r) ==
  /\ Takes(Status(r, "Ready"))
  /\ inbox' = inbox \ {Status(r, "Ready")}
  /\ UpdateStatus(r, "Ready")
  /\ UNCHANGED <<local, command, forward, failed, stop, handles, watch, blocked>>

HandleReady(r) ==
  /\ Takes(Status(r, "Ready"))
  /\ inbox' = inbox \ {Status(r, "Ready")}
  /\ UpdateStatus(r, "Ready")
  /\ watch' = IF r \in handles THEN [watch EXCEPT ![r] = "done"] ELSE watch
  /\ UNCHANGED <<local, command, forward, failed, stop, handles, blocked>>

HandleEnded(r, s) ==
  /\ Takes(Status(r, s))
  /\ inbox' = inbox \ {Status(r, s)}
  /\ Remove(r)
  /\ handles' = handles \ {r}
  /\ UNCHANGED <<local, command, forward, failed, watch>>

(* The user deletes it from the list of port forwards.                       *)
Delete(r) ==
  /\ blocked = None /\ r \in Registered
  /\ Remove(r)
  /\ handles' = handles \ {r}
  /\ UNCHANGED <<local, command, forward, failed, watch, inbox>>

----------------------------------------------------------------------------

Init ==
  /\ local = [r \in Requests |-> None]
  /\ command = [r \in Requests |-> "idle"]
  /\ forward = [r \in Requests |-> "none"]
  /\ watch = [r \in Requests |-> "no"]
  /\ failed = {} /\ stop = {} /\ handles = {} /\ inbox = {}
  /\ entries = [r \in {} |-> "Starting"]
  /\ blocked = None

Step(r) == \/ Dial(r) \/ DialFails(r) \/ Register(r) \/ Refused(r)
           \/ WatchReady(r) \/ WatchDone(r)
           \/ \E ok \in BOOLEAN : HandleStarted(r, ok)
           \/ HandleReady(r)
           \/ \E s \in {"Error", "Stopped"} : HandleEnded(r, s)

Next == \E r \in Requests :
          \/ \E p \in Locals : Request(r, p)
          \/ Step(r)
          \/ Ready(r)
          \/ \E error \in BOOLEAN : Ends(r, error)
          \/ Delete(r)

(* Goroutines run, messages are handled, and a stopped forwarder ends.       *)
StoppedEnds(r) == r \in stop /\ \E error \in BOOLEAN : Ends(r, error)
Fairness == \A r \in Requests : WF_vars(Step(r)) /\ WF_vars(StoppedEnds(r))

Spec == Init /\ [][Next]_vars /\ Fairness

----------------------------------------------------------------------------

TypeOK ==
  /\ local \in [Requests -> Locals \cup {None}]
  /\ command \in [Requests -> {"idle", "dial", "add", "refused", "over"}]
  /\ forward \in [Requests -> {"none", "starting", "ready", "ended"}]
  /\ watch \in [Requests -> {"no", "ready", "done"}]
  /\ failed \subseteq Requests /\ stop \subseteq Requests /\ handles \subseteq Requests
  /\ Registered \subseteq Requests
  /\ \A r \in Registered : entries[r] \in {"Starting", "Ready"}
  /\ inbox \subseteq {Started(r, ok) : r \in Requests, ok \in BOOLEAN}
                \cup {Status(r, s) : r \in Requests, s \in {"Ready", "Error", "Stopped"}}
  /\ blocked \in Requests \cup {None}

(* Two forwards are never registered for one local port, although the check  *)
(* that refuses a request is made before its command registers.              *)
OneForwardPerPort ==
  \A i, j \in Registered : local[i] = local[j] => i = j

(* A registered forward is always one whose end somebody will report: its    *)
(* start or its status is on its way, or a command waits for it. One that    *)
(* is no longer registered has ended, or was told to.                        *)
Watched(r) == \/ Started(r, TRUE) \in inbox
              \/ \E s \in {"Ready", "Error", "Stopped"} : Status(r, s) \in inbox
              \/ watch[r] # "no"
EveryForwardIsWatched ==
  /\ \A r \in Registered : Watched(r) /\ r \notin stop
  /\ \A r \in Requests \ Registered :
       command[r] = "over" => forward[r] \in {"none", "ended"} \/ r \in stop

(* A forward that has ended leaves the list, and its handle goes: no row and *)
(* no local port stays taken by a dead forward.                              *)
ForwardEnded(r) == forward[r] = "ended"
ForwardGone(r) == r \notin Registered /\ r \notin handles
EndedForwardGoes == \A r \in Requests : ForwardEnded(r) ~> ForwardGone(r)
=============================================================================
