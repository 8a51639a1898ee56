---------------------------- MODULE Tools_proofs -----------------------------
(***************************************************************************)
(* The facts about the parts around the panes, each for any instance of    *)
(* its part and for every order in which keys, commands and messages come. *)
(* A step is one of one part, so that what a part's steps keep, every step *)
(* keeps while that part is the one that runs.                             *)
(***************************************************************************)
EXTENDS Tools, FiniteSetTheorems, SequenceTheorems, WellFoundedInduction, TLAPS

-----------------------------------------------------------------------------
\* The part that runs is the one that was chosen.
LEMMA PartStays == [ToolsNext]_toolsVars => part' = part
BY DEF ToolsNext, toolsVars, TerminalsStep, SearchBarStep, FormsStep, PortForwardsStep,
       NoticesStep, EditsStep, CatalogStep, KeysStep

-----------------------------------------------------------------------------
(***************************************************************************)
(* Port forwards: a local port never has two registered forwards, and no   *)
(* forward is ever unwatched or left running.                              *)
(*                                                                         *)
(* Neither is inductive alone.  What is missing is how far a request whose *)
(* command still runs can be (Early), and that the app keeps the handle of *)
(* every registered forward once it was told of it (Handled): without the  *)
(* handle the message that a forward is ready would be its last.           *)
(***************************************************************************)

ForwardsTyped ==
    /\ local \in [Requests -> LocalPorts \cup {Absent}]
    /\ command \in [Requests -> {"idle", "dial", "add", "refused", "over"}]
    /\ forward \in [Requests -> {"none", "starting", "ready", "ended"}]
    /\ watch \in [Requests -> {"no", "ready", "done"}]
    /\ P!Registered \subseteq Requests

\* A request whose command is not over is not registered, is not told to stop
\* before its command refused it, and has no forwarder before it dialed.
Early ==
    \A r \in Requests :
        /\ local[r] = Absent => command[r] = "idle"
        /\ command[r] # "over" => r \notin P!Registered
        /\ command[r] \in {"idle", "dial", "add"} => r \notin stop
        /\ command[r] \in {"idle", "dial"} => forward[r] = "none"

Handled == \A r \in P!Registered : P!Started(r, TRUE) \in inbox \/ r \in handles

ForwardsInv == ForwardsTyped /\ Early /\ Handled /\ P!OneForwardPerPort /\ P!EveryForwardIsWatched

-----------------------------------------------------------------------------
\* Messages differ when their type or their request does.
LEMMA MessagesDiffer ==
  \A r, q, ok, ok2, s, s2 :
     /\ P!Started(r, ok) # P!Status(q, s)
     /\ (r # q \/ ok # ok2) => P!Started(r, ok) # P!Started(q, ok2)
     /\ (r # q \/ s # s2) => P!Status(r, s) # P!Status(q, s2)
<1> TAKE r, q, ok, ok2, s, s2
<1>1. P!Started(r, ok).type = "started" /\ P!Started(r, ok).id = r /\ P!Started(r, ok).ok = ok
      /\ P!Started(q, ok2).id = q /\ P!Started(q, ok2).ok = ok2
  BY DEF P!Started
<1>2. P!Status(r, s).id = r /\ P!Status(r, s).status = s
      /\ P!Status(q, s2).id = q /\ P!Status(q, s2).status = s2 /\ P!Status(q, s).type = "status"
  BY DEF P!Status
<1> QED BY <1>1, <1>2

\* The registry's two changes.
LEMMA RegistryChanges ==
  ASSUME NEW r, NEW s
  PROVE  /\ DOMAIN P!Without(r) = P!Registered \ {r}
         /\ DOMAIN P!With(r, s) = P!Registered \cup {r}
BY DEF P!Without, P!With

\* At the start nothing is registered.
LEMMA InitKeeps == ASSUME P!Init PROVE ForwardsInv
BY DEF P!Init, ForwardsInv, ForwardsTyped, Early, Handled, P!OneForwardPerPort, P!EveryForwardIsWatched, P!Registered,
       P!Watched

\* A request's forwarder is dialed, becomes ready or ends.
LEMMA ForwarderKeeps ==
  ASSUME ForwardsInv, NEW r \in Requests,
         P!Dial(r) \/ P!DialFails(r) \/ P!Refused(r) \/ P!Ready(r) \/ \E error \in BOOLEAN : P!Ends(r, error)
  PROVE  ForwardsInv'
<1>1. UNCHANGED <<local, entries, stop, handles, watch>> /\ inbox \subseteq inbox'
  BY DEF P!Dial, P!DialFails, P!Refused, P!Ready, P!Ends
<1>2. ForwardsTyped'
  BY <1>1 DEF ForwardsInv, ForwardsTyped, P!Registered, P!Dial, P!DialFails, P!Refused, P!Ready, P!Ends
<1>3. Early'
  BY <1>1 DEF ForwardsInv, ForwardsTyped, Early, P!Registered, P!Dial, P!DialFails, P!Refused, P!Ready, P!Ends
<1>4. Handled' /\ P!OneForwardPerPort'
  BY <1>1 DEF ForwardsInv, Handled, P!OneForwardPerPort, P!Registered
<1>5. \A q \in P!Registered : P!Watched(q)' /\ q \notin stop'
  BY <1>1 DEF ForwardsInv, P!EveryForwardIsWatched, P!Watched
<1>6. \A q \in Requests \ P!Registered :
         command'[q] = "over" => forward'[q] \in {"none", "ended"} \/ q \in stop'
  BY <1>1 DEF ForwardsInv, ForwardsTyped, Early, P!EveryForwardIsWatched, P!Dial, P!DialFails, P!Refused, P!Ready, P!Ends
<1> QED BY <1>1, <1>2, <1>3, <1>4, <1>5, <1>6 DEF ForwardsInv, P!EveryForwardIsWatched, P!Registered, P!Watched

\* AddIfNotPresent looks for the port and takes it in one step.
LEMMA RegisterKeeps ==
  ASSUME ForwardsInv, NEW r \in Requests, P!Register(r)
  PROVE  ForwardsInv'
<1>1. CASE P!HasLocalPort(local[r])
  <2>1. /\ UNCHANGED <<local, forward, handles, watch, entries, inbox>>
        /\ command' = [command EXCEPT ![r] = "refused"] /\ stop' = stop \cup {r}
        /\ command[r] = "add"
    BY <1>1 DEF P!Register, P!AddIfNotPresent
  <2>2. r \notin P!Registered
    BY <2>1 DEF ForwardsInv, Early
  <2> QED BY <2>1, <2>2 DEF ForwardsInv, ForwardsTyped, Early, Handled, P!OneForwardPerPort,
                             P!EveryForwardIsWatched, P!Watched, P!Registered
<1>2. CASE ~P!HasLocalPort(local[r])
  <2>1. /\ UNCHANGED <<local, forward, handles, watch, stop>>
        /\ entries' = P!With(r, "Starting") /\ command' = [command EXCEPT ![r] = "over"]
        /\ inbox' = inbox \cup {P!Started(r, TRUE)} /\ command[r] = "add"
    BY <1>2 DEF P!Register, P!AddIfNotPresent
  <2>2. P!Registered' = P!Registered \cup {r} /\ r \notin P!Registered /\ r \notin stop
    BY <2>1, RegistryChanges DEF ForwardsInv, Early, P!Registered
  <2>3. P!OneForwardPerPort'
    BY <1>2, <2>1, <2>2 DEF ForwardsInv, P!OneForwardPerPort, P!HasLocalPort
  <2>4. ForwardsTyped' /\ Early'
    BY <2>1, <2>2 DEF ForwardsInv, ForwardsTyped, Early
  <2>5. Handled'
    BY <2>1, <2>2 DEF ForwardsInv, Handled
  <2>6. P!EveryForwardIsWatched'
    BY <2>1, <2>2 DEF ForwardsInv, ForwardsTyped, P!EveryForwardIsWatched, P!Watched
  <2> QED BY <2>3, <2>4, <2>5, <2>6 DEF ForwardsInv
<1> QED BY <1>1, <1>2

\* A new request, whose command may start.
LEMMA RequestKeeps ==
  ASSUME ForwardsInv, NEW r \in Requests, NEW p \in LocalPorts, P!Request(r, p)
  PROVE  ForwardsInv'
<1>1. /\ UNCHANGED <<forward, handles, watch, stop, entries>> /\ inbox \subseteq inbox'
      /\ local' = [local EXCEPT ![r] = p] /\ local[r] = Absent /\ command[r] = "idle"
      /\ command' \in {command, [command EXCEPT ![r] = "dial"]}
  BY DEF P!Request, ForwardsInv, Early
<1>2. r \notin P!Registered /\ p # Absent
  BY <1>1, ForwardsAssumption DEF ForwardsInv, Early
<1>3. ForwardsTyped' /\ Early'
  BY <1>1, <1>2 DEF ForwardsInv, ForwardsTyped, Early, P!Registered
<1>4. P!OneForwardPerPort' /\ Handled'
  BY <1>1, <1>2 DEF ForwardsInv, ForwardsTyped, P!OneForwardPerPort, Handled, P!Registered
<1>5. P!EveryForwardIsWatched'
  BY <1>1, <1>2 DEF ForwardsInv, ForwardsTyped, P!EveryForwardIsWatched, P!Watched, P!Registered
<1> QED BY <1>3, <1>4, <1>5 DEF ForwardsInv

\* A command that watches reports, and a forward it reported of stays watched.
LEMMA WatchKeeps ==
  ASSUME ForwardsInv, NEW r \in Requests, P!WatchReady(r) \/ P!WatchDone(r)
  PROVE  ForwardsInv'
<1>1. /\ UNCHANGED <<local, command, forward, handles, stop, entries>> /\ inbox \subseteq inbox'
      /\ watch' = [watch EXCEPT ![r] = "no"]
      /\ \E s \in {"Ready", "Error", "Stopped"} : P!Status(r, s) \in inbox'
  BY DEF P!WatchReady, P!WatchDone, P!Ended
<1>2. \A q \in P!Registered : P!Watched(q)'
  BY <1>1 DEF ForwardsInv, ForwardsTyped, P!EveryForwardIsWatched, P!Watched
<1>3. ForwardsTyped' /\ Early' /\ Handled' /\ P!OneForwardPerPort'
  BY <1>1 DEF ForwardsInv, ForwardsTyped, Early, Handled, P!OneForwardPerPort, P!Registered
<1>4. P!EveryForwardIsWatched'
  BY <1>1, <1>2 DEF ForwardsInv, P!EveryForwardIsWatched, P!Registered
<1> QED BY <1>3, <1>4 DEF ForwardsInv

\* The message of a start is taken: the app watches what was registered.
LEMMA StartedKeeps ==
  ASSUME ForwardsInv, NEW r \in Requests, NEW ok \in BOOLEAN, P!HandleStarted(r, ok)
  PROVE  ForwardsInv'
<1>1. /\ UNCHANGED <<local, command, forward, stop, entries>>
      /\ inbox' = inbox \ {P!Started(r, ok)}
  BY DEF P!HandleStarted
<1>2. /\ ok => handles' = handles \cup {r} /\ watch' = [watch EXCEPT ![r] = "ready"]
      /\ ~ok => UNCHANGED <<handles, watch>>
  BY DEF P!HandleStarted
<1>3. \A q : (q # r \/ ~ok) => (P!Started(q, TRUE) \in inbox => P!Started(q, TRUE) \in inbox')
  BY <1>1, MessagesDiffer
<1>4. \A q, s : P!Status(q, s) \in inbox => P!Status(q, s) \in inbox'
  BY <1>1, MessagesDiffer
<1>5. ForwardsTyped' /\ Early' /\ P!OneForwardPerPort'
  BY <1>1, <1>2 DEF ForwardsInv, ForwardsTyped, Early, P!OneForwardPerPort, P!Registered
<1>6. Handled'
  BY <1>1, <1>2, <1>3 DEF ForwardsInv, Handled, P!Registered
<1>7. \A q \in P!Registered : P!Watched(q)'
  BY <1>1, <1>2, <1>3, <1>4 DEF ForwardsInv, ForwardsTyped, P!EveryForwardIsWatched, P!Watched
<1>8. P!EveryForwardIsWatched'
  BY <1>1, <1>7 DEF ForwardsInv, P!EveryForwardIsWatched, P!Registered
<1> QED BY <1>5, <1>6, <1>8 DEF ForwardsInv

\* The message that a forward is ready is taken: whoever has its handle waits
\* for its end.
LEMMA ReadyKeeps ==
  ASSUME ForwardsInv, NEW r \in Requests, P!HandleReady(r)
  PROVE  ForwardsInv'
<1>1. /\ UNCHANGED <<local, command, forward, stop, handles>>
      /\ inbox' = inbox \ {P!Status(r, "Ready")}
      /\ watch' = IF r \in handles THEN [watch EXCEPT ![r] = "done"] ELSE watch
  BY DEF P!HandleReady
<1>2. P!Registered' = P!Registered
  <2>1. \/ entries' = P!With(r, "Ready") /\ r \in P!Registered
        \/ entries' = entries
    BY DEF P!HandleReady, P!UpdateStatus
  <2>2. DOMAIN P!With(r, "Ready") = P!Registered \cup {r}
    BY RegistryChanges
  <2> QED BY <2>1, <2>2 DEF P!Registered
<1>3. \A q : P!Started(q, TRUE) \in inbox => P!Started(q, TRUE) \in inbox'
  BY <1>1, MessagesDiffer
<1>4. \A q, s : q # r /\ P!Status(q, s) \in inbox => P!Status(q, s) \in inbox'
  BY <1>1, MessagesDiffer
<1>5. ForwardsTyped' /\ Early' /\ P!OneForwardPerPort'
  BY <1>1, <1>2 DEF ForwardsInv, ForwardsTyped, Early, P!OneForwardPerPort
<1>6. Handled'
  BY <1>1, <1>2, <1>3 DEF ForwardsInv, Handled
<1>7. \A q \in P!Registered : P!Watched(q)'
  <2> TAKE q \in P!Registered
  <2>1. CASE q # r
    BY <1>1, <1>3, <1>4, <2>1 DEF ForwardsInv, ForwardsTyped, P!EveryForwardIsWatched, P!Watched
  <2>2. CASE q = r /\ r \in handles
    BY <1>1, <2>2 DEF ForwardsInv, ForwardsTyped, P!Watched
  <2>3. CASE q = r /\ r \notin handles
    BY <1>3, <2>3 DEF ForwardsInv, Handled, P!Watched
  <2> QED BY <2>1, <2>2, <2>3
<1>8. P!EveryForwardIsWatched'
  BY <1>1, <1>2, <1>7 DEF ForwardsInv, P!EveryForwardIsWatched
<1> QED BY <1>5, <1>6, <1>8 DEF ForwardsInv

\* A forward that ended, and one the user deletes, leaves the registry, and is
\* told to stop.
LEMMA RemovalKeeps ==
  ASSUME ForwardsInv, NEW r \in Requests, P!Remove(r), handles' = handles \ {r},
         UNCHANGED <<local, command, forward, watch>>,
         \A q, ok : P!Started(q, ok) \in inbox => P!Started(q, ok) \in inbox',
         \A q, s : q # r /\ P!Status(q, s) \in inbox => P!Status(q, s) \in inbox'
  PROVE  ForwardsInv'
<1>1. /\ P!Registered' = P!Registered \ {r}
      /\ stop \subseteq stop' /\ stop' \subseteq stop \cup {r}
      /\ r \in P!Registered => r \in stop'
      /\ r \notin P!Registered => stop' = stop
  BY RegistryChanges DEF P!Remove, P!Registered
<1>2. ForwardsTyped' /\ Early' /\ P!OneForwardPerPort'
  BY <1>1 DEF ForwardsInv, ForwardsTyped, Early, P!OneForwardPerPort
<1>3. Handled'
  BY <1>1 DEF ForwardsInv, Handled
<1>4. \A q \in P!Registered' : P!Watched(q)' /\ q \notin stop'
  BY <1>1 DEF ForwardsInv, P!EveryForwardIsWatched, P!Watched
<1>5. P!EveryForwardIsWatched'
  BY <1>1, <1>4 DEF ForwardsInv, P!EveryForwardIsWatched
<1> QED BY <1>2, <1>3, <1>5 DEF ForwardsInv

\* Every step keeps the invariant.
LEMMA NextKeeps == ASSUME ForwardsInv, [P!Next]_P!vars PROVE ForwardsInv'
<1>1. CASE UNCHANGED P!vars
  BY <1>1 DEF P!vars, ForwardsInv, ForwardsTyped, Early, Handled, P!OneForwardPerPort, P!EveryForwardIsWatched,
              P!Registered, P!Watched
<1>2. ASSUME NEW r \in Requests, NEW p \in LocalPorts, P!Request(r, p) PROVE ForwardsInv'
  BY <1>2, RequestKeeps
<1>3. ASSUME NEW r \in Requests, P!Step(r) PROVE ForwardsInv'
  <2>1. ASSUME NEW s \in {"Error", "Stopped"}, P!HandleEnded(r, s) PROVE ForwardsInv'
    BY <2>1, RemovalKeeps, MessagesDiffer DEF P!HandleEnded
  <2> QED BY <1>3, <2>1, ForwarderKeeps, RegisterKeeps, WatchKeeps, StartedKeeps, ReadyKeeps
          DEF P!Step
<1>4. ASSUME NEW r \in Requests, P!Ready(r) \/ \E error \in BOOLEAN : P!Ends(r, error) PROVE ForwardsInv'
  BY <1>4, ForwarderKeeps
<1>5. ASSUME NEW r \in Requests, P!Delete(r) PROVE ForwardsInv'
  BY <1>5, RemovalKeeps DEF P!Delete
<1> QED BY <1>1, <1>2, <1>3, <1>4, <1>5 DEF P!Next

LEMMA StepOfForwards ==
  ASSUME [ToolsNext]_toolsVars, part = "forwards"
  PROVE  [P!Next]_P!vars /\ part' = part
<1>1. CASE UNCHANGED toolsVars
  BY <1>1, ZenonT(30) DEF toolsVars, forwardsVars, P!vars
<1>2. CASE ToolsNext
  BY <1>2 DEF ToolsNext, TerminalsStep, SearchBarStep, FormsStep, PortForwardsStep, NoticesStep,
              EditsStep, CatalogStep, KeysStep, P!Next
<1> QED BY <1>1, <1>2

ForwardsPart == part = "forwards" => ForwardsInv

\* A local port has at most one registered forward, although requests for it are checked
\* before their commands run side by side (Registry.AddIfNotPresent); every registered
\* forward has somebody who will report its end, and one that is not registered any more
\* has ended or was told to: none is forgotten while it runs, in whatever order its
\* messages come (PortForwardStartedMsg, PortForwardStatusMsg, Registry.Remove).
THEOREM ForwardsStayKept == ToolsSpec => []ForwardsAreKept
<1>1. ToolsInit => ForwardsPart
  BY InitKeeps DEF ToolsInit, ForwardsPart
<1>2. ForwardsPart /\ [ToolsNext]_toolsVars => ForwardsPart'
  BY StepOfForwards, PartStays, NextKeeps DEF ForwardsPart
<1>3. ForwardsPart => ForwardsAreKept
  BY DEF ForwardsPart, ForwardsAreKept, ForwardsInv
<1> QED BY <1>1, <1>2, <1>3, PTL DEF ToolsSpec

-----------------------------------------------------------------------------
(***************************************************************************)
(* Terminals: their shells and their debug pods always have an owner.      *)
(*                                                                         *)
(* What is missing for an induction is what a pre-flight that is not done  *)
(* rules out (BoundWhenDone), and that after a quit nothing is named any   *)
(* more (QuitForgets).                                                     *)
(***************************************************************************)

\* A pod's name is recorded, and a debug session registered, only once the
\* pre-flight is done: closing and failing a placeholder touch neither.
BoundWhenDone ==
    /\ \A t \in named : preflight[t] = "done"
    /\ \A t \in terminals : t \in Exec \/ preflight[t] = "done"
    /\ \A t \in Exec : preflight[t] = "none"

\* A quit forgets every pod by name, and no pod is named after it.
QuitForgets == status \in {"quitting", "exited"} => termCleanup = {}

\* The inductive invariant.
TerminalsInv ==
    /\ TS!TypeOK /\ BoundWhenDone /\ QuitForgets
    /\ TS!PodsAreOwned /\ TS!OnlyUnreportedPodsStay /\ TS!ShellsAreOwned /\ TS!OutputIsPumped

\* At the start there is no terminal.
LEMMA TerminalsBegin == TS!Init => TerminalsInv
  BY TerminalsAssumption DEF TS!Init, TerminalsInv, TS!TypeOK, BoundWhenDone, QuitForgets, TS!PodsAreOwned,
         TS!OnlyUnreportedPodsStay, TS!ShellsAreOwned, TS!OutputIsPumped, TS!Terminal, TS!Debug,
         TS!Alive

\* Steps of the user that open and close panes, and the quit.
LEMMA TerminalKeysKeep ==
    ASSUME TerminalsInv,
           \/ \E t \in Exec : TS!OpenExec(t)
           \/ \E t \in TS!Debug : TS!OpenDebug(t)
           \/ \E t \in TS!Terminal : TS!CloseTerminal(t) \/ TS!CloseLastTerminal(t)
           \/ TS!ToggleList \/ TS!Quit \/ TS!Exit
    PROVE  TerminalsInv'
<1> USE TerminalsAssumption
    DEF TerminalsInv, TS!TypeOK, BoundWhenDone, QuitForgets, TS!PodsAreOwned,
            TS!OnlyUnreportedPodsStay, TS!ShellsAreOwned, TS!OutputIsPumped, TS!Terminal, TS!Debug,
            TS!cleanupVars, TS!sessionVars, TS!paneVars, TS!Alive
<1>1. ASSUME NEW t \in Exec, TS!OpenExec(t) PROVE TerminalsInv'
  BY <1>1 DEF TS!OpenExec, TS!StartSession, TS!Unused
<1>2. ASSUME NEW t \in TS!Debug, TS!OpenDebug(t) PROVE TerminalsInv'
  BY <1>2 DEF TS!OpenDebug, TS!Unused
<1>3. ASSUME NEW t \in TS!Terminal, TS!CloseTerminal(t) PROVE TerminalsInv'
  BY <1>3 DEF TS!CloseTerminal, TS!CloseSession
<1>4. ASSUME NEW t \in TS!Terminal, TS!CloseLastTerminal(t) PROVE TerminalsInv'
  BY <1>4 DEF TS!CloseLastTerminal, TS!CloseSession
<1>5. CASE TS!ToggleList
  BY <1>5 DEF TS!ToggleList
<1>6. CASE TS!Quit
  <2>1. /\ TS!TypeOK' /\ BoundWhenDone' /\ QuitForgets'
        /\ TS!OnlyUnreportedPodsStay' /\ TS!ShellsAreOwned' /\ TS!OutputIsPumped'
    BY <1>6 DEF TS!Quit
  <2>2. ASSUME NEW t \in NodeDebug, pod'[t] = "up" PROVE preflight'[t] \in {"waiting", "ready"}
    BY <1>6, <2>2 DEF TS!Quit, TS!TrieReachable
  <2> QED BY <2>1, <2>2
<1>7. CASE TS!Exit
  BY <1>7 DEF TS!Exit
<1> QED BY <1>1, <1>2, <1>3, <1>4, <1>5, <1>6, <1>7

\* Steps of the pre-flights and of their results.
LEMMA DebugKeeps ==
    ASSUME TerminalsInv, NEW t \in TS!Debug,
           \/ TS!ContainerRuns(t) \/ TS!WaitFailed(t) \/ TS!DebugFailed(t) \/ TS!DebugReady(t)
           \/ TS!DebugReadyLate(t) \/ TS!AttachFailed(t) \/ TS!DebugReadyWithoutMeta(t)
           \/ t \in NodeDebug /\ (TS!PodCreated(t) \/ TS!CreateFailed(t))
    PROVE  TerminalsInv'
<1> USE TerminalsAssumption
    DEF TerminalsInv, TS!TypeOK, BoundWhenDone, QuitForgets, TS!PodsAreOwned,
            TS!OnlyUnreportedPodsStay, TS!ShellsAreOwned, TS!OutputIsPumped, TS!Terminal, TS!Debug,
            TS!cleanupVars, TS!sessionVars, TS!paneVars,
            TS!Preflight, TS!DeletePod, TS!FailPane, TS!Alive
<1>1. CASE TS!ContainerRuns(t)
  BY <1>1 DEF TS!ContainerRuns
<1>2. CASE TS!WaitFailed(t)
  BY <1>2 DEF TS!WaitFailed
<1>3. CASE TS!DebugFailed(t)
  <2>1. t \notin named /\ t \notin terminals
    BY <1>3 DEF TS!DebugFailed
  <2> QED BY <1>3, <2>1 DEF TS!DebugFailed
<1>4. CASE TS!DebugReady(t)
  BY <1>4 DEF TS!DebugReady, TS!StartSession
<1>5. CASE TS!DebugReadyLate(t)
  <2>1. t \notin named /\ t \notin terminals
    BY <1>5 DEF TS!DebugReadyLate
  <2> QED BY <1>5, <2>1 DEF TS!DebugReadyLate
<1>6. CASE TS!AttachFailed(t)
  <2>1. t \notin named /\ t \notin terminals
    BY <1>6 DEF TS!AttachFailed
  <2> QED BY <1>6, <2>1 DEF TS!AttachFailed
<1>7. CASE TS!DebugReadyWithoutMeta(t)
  BY <1>7 DEF TS!DebugReadyWithoutMeta
<1>8. CASE t \in NodeDebug /\ TS!PodCreated(t)
  BY <1>8 DEF TS!PodCreated
<1>9. CASE t \in NodeDebug /\ TS!CreateFailed(t)
  BY <1>9 DEF TS!CreateFailed
<1> QED BY <1>1, <1>2, <1>3, <1>4, <1>5, <1>6, <1>7, <1>8, <1>9

\* Steps of the sessions.
LEMMA SessionKeeps ==
    ASSUME TerminalsInv, NEW t \in TS!Terminal,
           \/ TS!Output(t) \/ TS!StreamReturns(t) \/ TS!Read(t) \/ TS!TermBytes(t)
           \/ TS!TermExit(t) \/ TS!Closed(t)
    PROVE  TerminalsInv'
<1> USE TerminalsAssumption
    DEF TerminalsInv, TS!TypeOK, BoundWhenDone, QuitForgets, TS!PodsAreOwned,
            TS!OnlyUnreportedPodsStay, TS!ShellsAreOwned, TS!OutputIsPumped,
            TS!cleanupVars, TS!paneVars, TS!Alive
<1>1. CASE TS!Output(t)
  BY <1>1 DEF TS!Output
<1>2. CASE TS!StreamReturns(t)
  BY <1>2 DEF TS!StreamReturns
<1>3. CASE TS!Read(t)
  BY <1>3 DEF TS!Read
<1>4. CASE TS!TermBytes(t)
  BY <1>4 DEF TS!TermBytes
<1>5. CASE TS!TermExit(t)
  BY <1>5 DEF TS!TermExit
<1>6. CASE TS!Closed(t)
  BY <1>6 DEF TS!Closed
<1> QED BY <1>1, <1>2, <1>3, <1>4, <1>5, <1>6

\* Every step keeps the invariant.
LEMMA TerminalsKeep == TerminalsInv /\ [TS!Next]_TS!vars => TerminalsInv'
<1> SUFFICES ASSUME TerminalsInv, [TS!Next]_TS!vars PROVE TerminalsInv'
  OBVIOUS
<1>1. CASE UNCHANGED TS!vars
  BY <1>1 DEF TS!vars, TerminalsInv, TS!TypeOK, BoundWhenDone, QuitForgets,
              TS!PodsAreOwned, TS!OnlyUnreportedPodsStay, TS!ShellsAreOwned,
              TS!OutputIsPumped, TS!Alive
<1>2. CASE TS!Next
  <2>1. ASSUME NEW t \in Exec, TS!OpenExec(t) PROVE TerminalsInv'
    BY <2>1, TerminalKeysKeep
  <2>2. ASSUME NEW t \in TS!Debug,
               \/ TS!OpenDebug(t) \/ TS!ContainerRuns(t) \/ TS!WaitFailed(t) \/ TS!DebugFailed(t)
               \/ TS!DebugReady(t) \/ TS!DebugReadyLate(t) \/ TS!AttachFailed(t)
               \/ TS!DebugReadyWithoutMeta(t)
        PROVE  TerminalsInv'
    BY <2>2, TerminalKeysKeep, DebugKeeps
  <2>3. ASSUME NEW t \in NodeDebug, TS!PodCreated(t) \/ TS!CreateFailed(t) PROVE TerminalsInv'
    BY <2>3, DebugKeeps DEF TS!Debug
  <2>4. ASSUME NEW t \in TS!Terminal,
               \/ TS!CloseTerminal(t) \/ TS!CloseLastTerminal(t) \/ TS!Output(t)
               \/ TS!StreamReturns(t) \/ TS!Read(t) \/ TS!TermBytes(t) \/ TS!TermExit(t)
               \/ TS!Closed(t)
        PROVE  TerminalsInv'
    BY <2>4, TerminalKeysKeep, SessionKeeps
  <2>5. CASE TS!ToggleList \/ TS!Quit \/ TS!Exit
    BY <2>5, TerminalKeysKeep
  <2> QED BY <1>2, <2>1, <2>2, <2>3, <2>4, <2>5 DEF TS!Next
<1> QED BY <1>1, <1>2

LEMMA StepOfTerminals ==
  ASSUME [ToolsNext]_toolsVars, part = "terminals"
  PROVE  [TS!Next]_TS!vars /\ part' = part
<1>1. CASE UNCHANGED toolsVars
  BY <1>1, ZenonT(30) DEF toolsVars, terminalsVars, TS!vars
<1>2. CASE ToolsNext
  BY <1>2 DEF ToolsNext, TerminalsStep, SearchBarStep, FormsStep, PortForwardsStep, NoticesStep,
              EditsStep, CatalogStep, KeysStep, TS!Next
<1> QED BY <1>1, <1>2

TerminalsPart == part = "terminals" => TerminalsInv

LEMMA TerminalsInvariant == ToolsSpec => []TerminalsPart
<1>1. ToolsInit => TerminalsPart
  BY TerminalsBegin DEF ToolsInit, TerminalsPart
<1>2. TerminalsPart /\ [ToolsNext]_toolsVars => TerminalsPart'
  BY StepOfTerminals, PartStays, TerminalsKeep DEF TerminalsPart
<1> QED BY <1>1, <1>2, PTL DEF ToolsSpec

\* However closing, cancelling, failing and late success interleave: no shell that was
\* started, and while the program runs no debug pod, is out of reach of what would end it
\* (closeTerminalSession, handleDebugReady); when the program has ended, the only pods
\* left are those whose pre-flight was not handled before (shutdownTerminals).
THEOREM TerminalsLeakNothing == ToolsSpec => []NothingLeaks
<1>1. TerminalsPart => NothingLeaks
  BY DEF TerminalsPart, TerminalsInv, NothingLeaks, TS!NothingLeaks
<1> QED BY <1>1, TerminalsInvariant, PTL

\* A registered session always has its pane, and a read in flight until its exit is
\* shown (TermBytesMsg re-arms, TermExitMsg freezes the pane).
THEOREM OutputStaysPumped == ToolsSpec => []OutputIsPumped
<1>1. TerminalsPart => OutputIsPumped
  BY DEF TerminalsPart, TerminalsInv, OutputIsPumped
<1> QED BY <1>1, TerminalsInvariant, PTL

\* The variables keep their types: a session's output channel stays within its capacity,
\* and only debug terminals have metadata.
THEOREM TerminalsStayTyped == ToolsSpec => [](part = "terminals" => TS!TypeOK)
<1>1. TerminalsPart => (part = "terminals" => TS!TypeOK)
  BY DEF TerminalsPart, TerminalsInv
<1> QED BY <1>1, TerminalsInvariant, PTL

-----------------------------------------------------------------------------
(***************************************************************************)
(* The search bar: a pane is searched for what the open bar shows, once    *)
(* the message of the last key was the last one handled.                   *)
(*                                                                         *)
(* However many keys are ahead of the update loop.  What is missing for an *)
(* induction is what the messages on their way know: that of the last key  *)
(* speaks of the bar as it is now (LastKeySpeaksOfTheBar), and so does an  *)
(* apply of the current sequence number, when that key was the last one    *)
(* handled (AppliesAreOfText).                                             *)
(***************************************************************************)

BarRecord == [active : BOOLEAN, mode : BarModes, text : B!Texts, typed : BOOLEAN]
BarMessage == [type : {"changed", "submitted", "cleared", "apply"}, key : Nat,
               text : B!Texts, mode : BarModes]

BarTyped ==
    /\ bar \in BarRecord /\ target \in Searched /\ seq \in Nat /\ pressed \in Nat
    /\ taken \in SUBSET BarMessage /\ handled \in 0 .. pressed
    /\ \A m \in taken : m.type # "apply" => m.key <= pressed
    /\ pattern \in [Searched -> [BarModes -> B!Texts]]

Typing == bar.active /\ bar.typed
Says(m) == m.text = bar.text /\ m.mode = bar.mode

LastKeySpeaksOfTheBar ==
    \A m \in taken :
        Typing /\ m.type # "apply" /\ m.key = pressed => m.type = "changed" /\ Says(m)

LastIsHandled == Typing /\ handled = pressed

AppliesAreOfText ==
    \A m \in taken :
        m.type = "apply" => m.key <= seq /\ (LastIsHandled /\ m.key = seq => Says(m))

Searching ==
    /\ LastIsHandled /\ bar.text \notin BrokenTexts
    /\ \A m \in taken : m.type = "apply" => m.key # seq
    => pattern[target][bar.mode] = bar.text

BarInv == BarTyped /\ LastKeySpeaksOfTheBar /\ AppliesAreOfText /\ Searching

LEMMA BarInitInv == ASSUME B!Init PROVE BarInv
<1>1. bar \in BarRecord /\ pattern \in [Searched -> [BarModes -> B!Texts]]
  BY BarAssumption DEF B!Init, BarRecord, B!Texts
<1>2. taken = {} /\ ~Typing
  BY DEF B!Init, Typing
<1>3. BarTyped
  BY <1>1, <1>2 DEF B!Init, BarTyped
<1> QED BY <1>2, <1>3 DEF BarInv, LastKeySpeaksOfTheBar, AppliesAreOfText, Searching, LastIsHandled

\* While the bar is closed, or nothing was typed since it was opened, a step that sends
\* nothing only has to keep the types.
LEMMA QuietKeeps ==
  ASSUME BarInv, BarTyped', ~Typing', UNCHANGED <<seq, taken>>
  PROVE  BarInv'
BY DEF BarInv, LastKeySpeaksOfTheBar, AppliesAreOfText, Searching, LastIsHandled

LEMMA OpenKeeps == ASSUME BarInv, NEW mode \in BarModes, B!Open(mode) PROVE BarInv'
<1>1. bar' \in BarRecord /\ ~Typing'
  BY DEF B!Open, BarRecord, Typing, B!Texts
<1>2. BarTyped'
  BY <1>1 DEF BarInv, BarTyped, B!Open
<1> QED BY <1>1, <1>2, QuietKeeps DEF B!Open

LEMMA CtrlWKeeps == ASSUME BarInv, B!CtrlW PROVE BarInv'
<1>1. bar' \in BarRecord /\ ~bar'.active
  BY DEF B!CtrlW, B!Close, BarInv, BarTyped, BarRecord
<1>2. BarTyped' /\ ~Typing'
  BY <1>1 DEF BarInv, BarTyped, Typing, B!CtrlW
<1> QED BY <1>2, QuietKeeps DEF B!CtrlW

LEMMA MoveFocusKeeps == ASSUME BarInv, NEW p \in Searched, B!MoveFocus(p) PROVE BarInv'
<1>1. BarTyped' /\ ~Typing'
  BY DEF BarInv, BarTyped, Typing, B!MoveFocus
<1> QED BY <1>1, QuietKeeps DEF B!MoveFocus

\* A pattern that compiles is the one of the pane that has the focus.
LEMMA Compiles ==
  ASSUME BarTyped, NEW text \in B!Texts, NEW mode \in BarModes, B!Compile(text, mode)
  PROVE  /\ pattern' \in [Searched -> [BarModes -> B!Texts]]
         /\ text \notin BrokenTexts => pattern'[target][mode] = text
BY DEF BarTyped, B!Compile

LEMMA ClearOverlayKeeps == ASSUME BarInv, B!ClearOverlay PROVE BarInv'
<1>1. PICK mode \in BarModes : B!Compile(B!Blank, mode)
  BY DEF B!ClearOverlay
<1>2. B!Blank \in B!Texts
  BY DEF B!Texts
<1>3. BarTyped' /\ ~Typing'
  BY <1>1, <1>2, Compiles DEF BarInv, BarTyped, Typing, B!ClearOverlay
<1> QED BY <1>3, QuietKeeps DEF B!ClearOverlay

-----------------------------------------------------------------------------
\* A key of the bar: its message is the last key's, and not handled yet.
LEMMA KeyTaken ==
  ASSUME BarTyped, NEW m \in BarMessage, m.type # "apply", m.key = pressed + 1,
         NEW changed \in BarRecord, B!Key(m, changed)
  PROVE  /\ BarTyped' /\ ~LastIsHandled' /\ pressed' = pressed + 1
         /\ \A n \in taken : n.type # "apply" => n.key # pressed'
<1>1. pressed \in Nat /\ pressed' = pressed + 1 /\ handled' = handled /\ handled \in 0 .. pressed
  BY DEF BarTyped, B!Key
<1>2. taken' = taken \cup {m} /\ bar' = changed /\ UNCHANGED <<target, seq, pattern>>
  BY DEF B!Key
<1>3. \A n \in taken : n.type # "apply" => n.key \in Nat /\ n.key <= pressed
  BY DEF BarTyped, BarMessage
<1>4. \A n \in taken' : n.type # "apply" => n.key <= pressed'
  BY <1>1, <1>2, <1>3
<1>5. BarTyped'
  BY <1>1, <1>2, <1>4 DEF BarTyped
<1> QED BY <1>1, <1>3, <1>5 DEF LastIsHandled

LEMMA TypeKeeps == ASSUME BarInv, NEW text \in B!Texts, B!Type(text) PROVE BarInv'
<1> DEFINE m == B!Message("changed", text)
           b == [bar EXCEPT !.text = text, !.typed = TRUE]
<1>1. B!Key(m, b)
  BY DEF B!Type
<1>2. /\ m \in BarMessage /\ m.type = "changed" /\ m.key = pressed + 1
      /\ m.text = text /\ m.mode = bar.mode
  BY DEF B!Message, BarInv, BarTyped, BarMessage, BarRecord
<1>3. b \in BarRecord /\ b.text = text /\ b.mode = bar.mode
  BY DEF BarInv, BarTyped, BarRecord
<1> HIDE DEF m, b
<1>4. /\ BarTyped' /\ ~LastIsHandled' /\ pressed' = pressed + 1
      /\ \A n \in taken : n.type # "apply" => n.key # pressed'
  BY <1>1, <1>2, <1>3, KeyTaken DEF BarInv
<1>5. bar' = b /\ seq' = seq /\ taken' = taken \cup {m}
  BY <1>1 DEF B!Key
<1>6. LastKeySpeaksOfTheBar'
  BY <1>2, <1>3, <1>4, <1>5 DEF LastKeySpeaksOfTheBar, Says
<1>7. AppliesAreOfText' /\ Searching'
  BY <1>2, <1>4, <1>5 DEF BarInv, AppliesAreOfText, Searching
<1> QED BY <1>4, <1>6, <1>7 DEF BarInv

\* Enter and Escape close the bar.
LEMMA CloseKeeps == ASSUME BarInv, B!Enter \/ B!Cancel PROVE BarInv'
<1> DEFINE b == B!Close
<1>1. PICK m \in {B!Message("submitted", bar.text), B!Message("cleared", B!Blank)} : B!Key(m, b)
  BY DEF B!Enter, B!Cancel
<1>2. m \in BarMessage /\ m.type \in {"submitted", "cleared"} /\ m.key = pressed + 1
  BY DEF B!Message, BarInv, BarTyped, BarMessage, BarRecord, B!Texts
<1>3. b \in BarRecord /\ ~b.active
  BY DEF BarInv, BarTyped, BarRecord, B!Close
<1> HIDE DEF b
<1>4. BarTyped' /\ ~LastIsHandled'
  BY <1>1, <1>2, <1>3, KeyTaken DEF BarInv
<1>5. ~Typing' /\ seq' = seq /\ taken' = taken \cup {m}
  BY <1>1, <1>3 DEF B!Key, Typing
<1>6. LastKeySpeaksOfTheBar'
  BY <1>5 DEF LastKeySpeaksOfTheBar
<1>7. AppliesAreOfText' /\ Searching'
  BY <1>2, <1>4, <1>5 DEF BarInv, AppliesAreOfText, Searching
<1> QED BY <1>4, <1>6, <1>7 DEF BarInv

-----------------------------------------------------------------------------
\* The message of a key that closed the bar: while somebody types it is not the last
\* key's.
LEMMA ClosedKeyKeeps ==
  ASSUME BarInv, NEW m \in taken, B!Submitted(m) \/ B!Cleared(m)
  PROVE  BarInv'
<1>1. PICK text \in B!Texts : B!Compile(text, m.mode)
  BY DEF B!Submitted, B!Cleared, BarInv, BarTyped, BarMessage, B!Texts
<1>2. /\ UNCHANGED <<bar, target, pressed, seq>> /\ taken' = taken \ {m}
      /\ m.type \in {"submitted", "cleared"} /\ handled' = m.key
  BY DEF B!Submitted, B!Cleared, B!Handles
<1>3. m \in BarMessage /\ m.key \in 0 .. pressed
  BY <1>2 DEF BarInv, BarTyped, BarMessage
<1>4. BarTyped'
  BY <1>1, <1>2, <1>3, Compiles DEF BarInv, BarTyped, BarMessage
<1>5. ~LastIsHandled'
  BY <1>2 DEF BarInv, LastKeySpeaksOfTheBar, LastIsHandled, Typing
<1>6. LastKeySpeaksOfTheBar'
  BY <1>2 DEF BarInv, LastKeySpeaksOfTheBar, Typing, Says
<1> QED BY <1>2, <1>4, <1>5, <1>6 DEF BarInv, AppliesAreOfText, Searching

\* The message of a text: an empty one is applied at once, any other by the apply of the
\* next sequence number.
LEMMA ChangedKeeps == ASSUME BarInv, NEW m \in taken, B!Changed(m) PROVE BarInv'
<1>1. /\ UNCHANGED <<bar, target, pressed>> /\ seq' = seq + 1 /\ m.type = "changed"
      /\ handled' = m.key
  BY DEF B!Changed, B!Handles
<1>2. m \in BarMessage /\ m.key \in 0 .. pressed /\ seq \in Nat
  BY <1>1 DEF BarInv, BarTyped, BarMessage
<1>3. LastIsHandled' => Says(m)
  BY <1>1 DEF BarInv, LastKeySpeaksOfTheBar, LastIsHandled, Typing
<1>4. \A n \in taken : n.type = "apply" => n.key <= seq /\ n.key \in Nat
  BY DEF BarInv, BarTyped, BarMessage, AppliesAreOfText
<1>5. \A n : Says(n)' <=> Says(n)
  BY <1>1 DEF Says
<1>6. CASE m.text = B!Blank
  <2>1. B!Compile(B!Blank, m.mode) /\ taken' = taken \ {m}
    BY <1>6 DEF B!Changed
  <2>2. B!Blank \in B!Texts /\ B!Blank \notin BrokenTexts /\ m.mode \in BarModes
    BY <1>2, BarAssumption DEF B!Texts, BarMessage
  <2>3. BarTyped' /\ pattern'[target'][m.mode] = B!Blank
    BY <1>1, <1>2, <2>1, <2>2, Compiles DEF BarInv, BarTyped
  <2>4. LastKeySpeaksOfTheBar'
    BY <1>1, <1>5, <2>1 DEF BarInv, LastKeySpeaksOfTheBar, Typing
  <2>5. AppliesAreOfText'
    BY <1>1, <1>2, <1>4, <2>1 DEF AppliesAreOfText
  <2>6. Searching'
    BY <1>1, <1>3, <1>6, <2>3 DEF Searching, Says
  <2> QED BY <2>3, <2>4, <2>5, <2>6 DEF BarInv
<1>7. CASE m.text # B!Blank
  <2> DEFINE a == B!Apply(m)
  <2>1. UNCHANGED pattern /\ taken' = (taken \ {m}) \cup {a}
    BY <1>7 DEF B!Changed
  <2>2. /\ a \in BarMessage /\ a.type = "apply" /\ a.key = seq + 1
        /\ a.text = m.text /\ a.mode = m.mode
    BY <1>2 DEF B!Apply, BarMessage
  <2> HIDE DEF a
  <2>3. LastIsHandled' => Says(a)
    BY <1>3, <2>2 DEF Says
  <2>4. BarTyped'
    BY <1>1, <1>2, <2>1, <2>2 DEF BarInv, BarTyped
  <2>5. LastKeySpeaksOfTheBar'
    BY <1>1, <1>5, <2>1, <2>2 DEF BarInv, LastKeySpeaksOfTheBar, Typing
  <2>6. AppliesAreOfText'
    BY <1>1, <1>2, <1>4, <1>5, <2>1, <2>2, <2>3 DEF AppliesAreOfText
  <2>7. Searching'
    BY <1>1, <2>1, <2>2 DEF Searching
  <2> QED BY <2>4, <2>5, <2>6, <2>7 DEF BarInv
<1> QED BY <1>6, <1>7

LEMMA AppliedKeeps == ASSUME BarInv, NEW m \in taken, B!Applied(m) PROVE BarInv'
<1>1. /\ UNCHANGED <<bar, target, pressed, seq, handled>> /\ taken' = taken \ {m}
      /\ m.type = "apply"
  BY DEF B!Applied, B!Handles
<1>2. m \in BarMessage
  BY DEF BarInv, BarTyped
<1>3. m.text \in B!Texts /\ m.mode \in BarModes
  BY <1>2 DEF BarMessage
<1>4. (LastIsHandled' <=> LastIsHandled) /\ (\A n : Says(n)' <=> Says(n))
  BY <1>1 DEF LastIsHandled, Typing, Says
<1>5. LastKeySpeaksOfTheBar'
  BY <1>1, <1>4 DEF BarInv, LastKeySpeaksOfTheBar, Typing
<1>6. AppliesAreOfText'
  BY <1>1, <1>4 DEF BarInv, AppliesAreOfText
<1>7. BarTyped'
  BY <1>1, <1>2, <1>3, Compiles DEF BarInv, BarTyped, B!Applied
<1>8. CASE m.key = seq
  <2>1. B!Compile(m.text, m.mode)
    BY <1>8 DEF B!Applied
  <2>2. m.text \notin BrokenTexts => pattern'[target][m.mode] = m.text
    BY <1>3, <2>1, Compiles DEF BarInv
  <2>3. Searching'
    BY <1>1, <1>4, <1>8, <2>2 DEF BarInv, AppliesAreOfText, Searching, Says
  <2> QED BY <1>5, <1>6, <1>7, <2>3 DEF BarInv
<1>9. CASE m.key # seq
  <2>1. UNCHANGED pattern
    BY <1>9 DEF B!Applied
  <2>2. Searching'
    BY <1>1, <1>4, <1>9, <2>1 DEF BarInv, Searching
  <2> QED BY <1>5, <1>6, <1>7, <2>2 DEF BarInv
<1> QED BY <1>8, <1>9

LEMMA BarKeeps == ASSUME BarInv, [B!Next]_B!vars PROVE BarInv'
<1>1. CASE UNCHANGED B!vars
  BY <1>1 DEF B!vars, BarInv, BarTyped, LastKeySpeaksOfTheBar, AppliesAreOfText, Searching,
              LastIsHandled, Typing, Says
<1>2. CASE B!Next
  BY <1>2, OpenKeeps, TypeKeeps, CloseKeeps, CtrlWKeeps, ChangedKeeps, ClosedKeyKeeps,
     AppliedKeeps, MoveFocusKeeps, ClearOverlayKeeps DEF B!Next
<1> QED BY <1>1, <1>2

LEMMA StepOfBar ==
  ASSUME [ToolsNext]_toolsVars, part = "bar"
  PROVE  [B!Next]_B!vars /\ part' = part
<1>1. CASE UNCHANGED toolsVars
  BY <1>1, ZenonT(30) DEF toolsVars, barVars, B!vars
<1>2. CASE ToolsNext
  BY <1>2 DEF ToolsNext, TerminalsStep, SearchBarStep, FormsStep, PortForwardsStep, NoticesStep,
              EditsStep, CatalogStep, KeysStep, B!Next
<1> QED BY <1>1, <1>2

BarPart == part = "bar" => BarInv

\* While the bar is open and the message of the last key was the last one handled, the
\* pane is searched for the text the bar shows once the apply that led to is done,
\* whatever applies of earlier keys, of this bar or of one that was closed, are still on
\* their way, and however many (SearchChangedMsg, searchApplyMsg and its sequence number).
THEOREM BarStaysApplied == ToolsSpec => []BarIsApplied
<1>1. ToolsInit => BarPart
  BY BarInitInv DEF ToolsInit, BarPart
<1>2. BarPart /\ [ToolsNext]_toolsVars => BarPart'
  BY StepOfBar, PartStays, BarKeeps DEF BarPart
<1>3. BarPart => BarIsApplied
  BY DEF BarPart, BarIsApplied, BarInv, Searching, LastIsHandled, Typing, B!BarIsApplied,
         B!Shows, B!CurrentApply
<1> QED BY <1>1, <1>2, <1>3, PTL DEF ToolsSpec

-----------------------------------------------------------------------------
(***************************************************************************)
(* Dialogs: keys go where a dialog shows its focus, and it sends what it   *)
(* showed.  An open dialog is of one of five shapes, and in each the       *)
(* panel's focus, the inputs that have a cursor and the footer follow from *)
(* each other; the list of a picker is what its filter leaves of the items *)
(* it was given.  Texts and items may be anything.                         *)
(***************************************************************************)

IsList(s) == s \in Seq({s[i] : i \in DOMAIN s})
IsText(t, n) == t \in [1..n -> {t[i] : i \in 1..n}]

IsPanel(p, n) ==
    /\ p \in [on : SUBSET Int, focus : 0..n, text : {p.text}, items : {p.items},
              cursor : Int, offset : Int]
    /\ IsText(p.text, n) /\ IsList(p.items)

CursorInView(p) ==
    p.items # <<>> =>
        /\ p.cursor \in DOMAIN p.items
        /\ p.cursor \in p.offset..(p.offset + ListHeight - 1)

GoodPanel(p, n) == IsPanel(p, n) /\ CursorInView(p)

SameList(q, p) == q.items = p.items /\ q.cursor = p.cursor /\ q.offset = p.offset

-----------------------------------------------------------------------------
\* The items of some places of a list are a list.
LEMMA ChosenIsList ==
  ASSUME NEW items, IsList(items), NEW q
  PROVE  IsList(F!Better(q, items)) /\ IsList(F!Containing(q, items))
<1>1. IsFiniteSet(DOMAIN items)
  <2>1. DOMAIN items = 1..Len(items) /\ Len(items) \in Nat
    BY DEF IsList
  <2> QED BY <2>1, FS_Interval
<1>2. ASSUME NEW S, S \subseteq DOMAIN items PROVE F!Cardinality(S) \in Nat
  <2>1. IsFiniteSet(S) /\ F!Cardinality(S) = Cardinality(S)
    BY <1>1, <1>2, FS_Subset DEF F!Cardinality, Cardinality
  <2> QED BY <2>1, FS_CardinalityType
<1>3. ASSUME NEW n \in Nat, NEW s, s = [k \in 1..n |-> s[k]] PROVE IsList(s)
  <2>1. DOMAIN s = 1..n
    BY <1>3
  <2>2. s \in [1..n -> {s[i] : i \in DOMAIN s}]
    BY <1>3, <2>1
  <2>3. s \in Seq({s[i] : i \in DOMAIN s})
    BY <2>2
  <2> QED BY <2>3 DEF IsList
<1>4. IsList(F!Better(q, items))
  <2> DEFINE S == {j \in DOMAIN items :
                      (IF q = EmptyInput THEN 1 ELSE F!ScoreEntry(q, items[j])) > 0}
  <2>1. F!Cardinality(S) \in Nat
    BY <1>2
  <2> DEFINE s == F!Better(q, items)
  <2>2. s = [k \in 1..F!Cardinality(S) |-> s[k]]
    BY DEF F!Better, F!Chosen
  <2> HIDE DEF s, S
  <2> QED BY <2>1, <2>2, <1>3 DEF s
<1>5. IsList(F!Containing(q, items))
  <2> DEFINE S == {j \in DOMAIN items : q = EmptyInput \/ F!Holds(q, items[j])}
  <2>1. F!Cardinality(S) \in Nat
    BY <1>2
  <2> DEFINE s == F!Containing(q, items)
  <2>2. s = [k \in 1..F!Cardinality(S) |-> s[k]]
    BY DEF F!Containing, F!Chosen
  <2> HIDE DEF s, S
  <2> QED BY <2>1, <2>2, <1>3 DEF s
<1> QED BY <1>4, <1>5

LEMMA FilterIsList ==
  ASSUME NEW items, IsList(items), NEW fuzzy, NEW q
  PROVE  IsList(F!Filter(fuzzy, q, items))
BY ChosenIsList DEF F!Filter

-----------------------------------------------------------------------------
\* The cursor of a list is kept on an item, and in the window.
LEMMA AtIsInView ==
  ASSUME NEW n, NEW p, IsPanel(p, n), NEW c \in Int
  PROVE  /\ GoodPanel(F!At(p, c), n)
         /\ F!At(p, c).items = p.items /\ F!At(p, c).text = p.text
         /\ F!At(p, c).on = p.on /\ F!At(p, c).focus = p.focus
<1>1. DOMAIN p.items = 1..Len(p.items) /\ Len(p.items) \in Nat
  BY DEF IsPanel, IsList
<1>2. ListHeight \in Nat \ {0} /\ p.offset \in Int
  BY FormsAssumption DEF IsPanel
<1>4. CASE p.items = <<>>
  <2>1. F!At(p, c) = [p EXCEPT !.cursor = 1, !.offset = 1]
    BY <1>4 DEF F!At
  <2> DEFINE q == F!At(p, c)
  <2> HIDE DEF q
  <2> DEFINE one == 1
  <2>2. q = [p EXCEPT !.cursor = one, !.offset = one] /\ one \in Int
    BY <2>1 DEF q
  <2> HIDE DEF one
  <2>3. /\ IsPanel(q, n) /\ q.items = p.items /\ q.text = p.text /\ q.on = p.on
        /\ q.focus = p.focus
    BY <2>2 DEF IsPanel
  <2> QED BY <1>4, <2>3 DEF GoodPanel, CursorInView, q
<1>5. CASE p.items # <<>>
  <2> DEFINE l == Len(p.items)
             at == IF c < 1 THEN 1 ELSE IF c > l THEN l ELSE c
             from == IF at < p.offset THEN at ELSE p.offset
             o == IF at >= from + ListHeight THEN at - ListHeight + 1 ELSE from
  <2>1. F!At(p, c) = [p EXCEPT !.cursor = at, !.offset = o]
    BY <1>5 DEF F!At
  <2>2. l \in Nat \ {0}
    BY <1>1, <1>5 DEF IsPanel, IsList
  <2>3. at \in 1..l
    BY <2>2
  <2>4. o \in Int /\ at \in o..(o + ListHeight - 1)
    BY <1>2, <2>3
  <2> DEFINE q == F!At(p, c)
  <2> HIDE DEF at, o, q
  <2>5. at \in Int
    BY <2>3
  <2>6. q = [p EXCEPT !.cursor = at, !.offset = o]
    BY <2>1 DEF q
  <2>7. /\ IsPanel(q, n) /\ q.items = p.items /\ q.text = p.text /\ q.on = p.on
        /\ q.focus = p.focus /\ q.cursor = at /\ q.offset = o
    BY <2>4, <2>5, <2>6 DEF IsPanel
  <2>8. CursorInView(q)
    BY <1>1, <2>3, <2>4, <2>7 DEF CursorInView, l
  <2> QED BY <2>7, <2>8 DEF GoodPanel, q
<1> QED BY <1>4, <1>5

LEMMA SetItemsShows ==
  ASSUME NEW n, NEW p, IsPanel(p, n), NEW items, IsList(items)
  PROVE  LET q == F!SetItems(p, items)
         IN  GoodPanel(q, n) /\ q.items = items /\ q.text = p.text /\ q.on = p.on /\ q.focus = p.focus
<1> DEFINE v == [p EXCEPT !.items = items]
           u == [v EXCEPT !.offset = 1]
<1>1. /\ v \in [on : SUBSET Int, focus : 0..n, text : {p.text}, items : {items},
                cursor : Int, offset : Int]
      /\ v.items = items /\ v.text = p.text /\ v.on = p.on /\ v.focus = p.focus
  BY DEF IsPanel
<1> HIDE DEF v
<1>2. IsPanel(u, n) /\ u.items = items /\ u.text = p.text /\ u.on = p.on /\ u.focus = p.focus
  BY <1>1 DEF IsPanel
<1> HIDE DEF u
<1>3. F!SetItems(p, items) = F!At(u, 1)
  BY DEF F!SetItems, u, v
<1> QED BY <1>2, <1>3, AtIsInView

LEMMA ListKeyShows ==
  ASSUME NEW n, NEW p, IsPanel(p, n), NEW d \in Int
  PROVE  LET q == F!ListKey(p, d)
         IN  GoodPanel(q, n) /\ q.items = p.items /\ q.text = p.text /\ q.on = p.on /\ q.focus = p.focus
<1>1. p.cursor + d \in Int
  BY DEF IsPanel
<1> QED BY <1>1, AtIsInView DEF F!ListKey

LEMMA FocusInputShows ==
  ASSUME NEW n \in Nat, NEW p, IsPanel(p, n), NEW i \in 1..n
  PROVE  LET q == F!FocusInput(p, i)
         IN  /\ IsPanel(q, n) /\ (CursorInView(p) => CursorInView(q)) /\ SameList(q, p)
             /\ q.text = p.text /\ q.on = {i} /\ q.focus = i
<1> DEFINE q == F!FocusInput(p, i)
<1>0. q = [p EXCEPT !.focus = i, !.on = {i}] /\ {i} \in SUBSET Int /\ i \in 0..n
  BY DEF F!FocusInput
<1> HIDE DEF q
<1>1. IsPanel(q, n) /\ SameList(q, p) /\ q.text = p.text /\ q.on = {i} /\ q.focus = i
  BY <1>0 DEF IsPanel, SameList
<1> HIDE DEF q
<1>2. CursorInView(p) => CursorInView(q)
  BY <1>1 DEF SameList, CursorInView
<1> QED BY <1>1, <1>2 DEF q

LEMMA BlurAllShows ==
  ASSUME NEW n \in Nat, NEW p, IsPanel(p, n)
  PROVE  LET q == F!BlurAll(p)
         IN  /\ IsPanel(q, n) /\ (CursorInView(p) => CursorInView(q)) /\ SameList(q, p)
             /\ q.text = p.text /\ q.on = {} /\ q.focus = p.focus
<1> DEFINE q == F!BlurAll(p)
<1>1. IsPanel(q, n) /\ SameList(q, p) /\ q.text = p.text /\ q.on = {} /\ q.focus = p.focus
  BY DEF IsPanel, F!BlurAll, SameList
<1> HIDE DEF q
<1>2. CursorInView(p) => CursorInView(q)
  BY <1>1 DEF SameList, CursorInView
<1> QED BY <1>1, <1>2 DEF q

LEMMA FocusListShows ==
  ASSUME NEW n \in Nat, NEW p, IsPanel(p, n)
  PROVE  LET q == F!FocusList(p)
         IN  /\ IsPanel(q, n) /\ (CursorInView(p) => CursorInView(q)) /\ SameList(q, p)
             /\ q.text = p.text /\ q.on = {} /\ q.focus = 0
<1> DEFINE u == F!BlurAll(p)
           q == [u EXCEPT !.focus = 0]
<1>1. /\ IsPanel(u, n) /\ (CursorInView(p) => CursorInView(u)) /\ SameList(u, p)
      /\ u.text = p.text /\ u.on = {}
  BY BlurAllShows
<1>2. F!FocusList(p) = q
  BY DEF F!FocusList, F!List
<1> HIDE DEF u
<1>3. /\ IsPanel(q, n) /\ SameList(q, p) /\ q.text = p.text /\ q.on = {} /\ q.focus = 0
  BY <1>1 DEF IsPanel, SameList
<1> HIDE DEF q
<1>4. CursorInView(p) => CursorInView(q)
  BY <1>3 DEF SameList, CursorInView
<1> QED BY <1>2, <1>3, <1>4

LEMMA TypedTextIsText ==
  ASSUME NEW n \in Nat, NEW t, IsText(t, n), NEW i \in 1..n, NEW v
  PROVE  IsText([t EXCEPT ![i] = v], n) /\ [t EXCEPT ![i] = v][i] = v
<1> DEFINE u == [t EXCEPT ![i] = v]
<1>1. DOMAIN u = 1..n /\ u[i] = v /\ u = [j \in 1..n |-> u[j]]
  BY DEF IsText
<1> HIDE DEF u
<1>2. u \in [1..n -> {u[j] : j \in 1..n}]
  BY <1>1
<1> QED BY <1>1, <1>2 DEF IsText, u

LEMMA SetTextShows ==
  ASSUME NEW n \in Nat, NEW p, IsPanel(p, n), NEW i \in 1..n, NEW v
  PROVE  LET q == [p EXCEPT !.text[i] = v]
         IN  /\ IsPanel(q, n) /\ (CursorInView(p) => CursorInView(q)) /\ SameList(q, p)
             /\ q.on = p.on /\ q.focus = p.focus
<1> DEFINE t == [p.text EXCEPT ![i] = v]
           q == [p EXCEPT !.text = t]
<1>1. IsText(t, n)
  BY TypedTextIsText DEF IsPanel
<1>2. [p EXCEPT !.text[i] = v] = q
  BY DEF IsPanel
<1> HIDE DEF t
<1>3. IsPanel(q, n) /\ SameList(q, p) /\ q.on = p.on /\ q.focus = p.focus
  BY <1>1 DEF IsPanel, SameList
<1> HIDE DEF q
<1>4. CursorInView(p) => CursorInView(q)
  BY <1>3 DEF SameList, CursorInView
<1> QED BY <1>2, <1>3, <1>4

LEMMA UpdateInputShows ==
  ASSUME NEW n \in Nat, NEW p, IsPanel(p, n), NEW v
  PROVE  LET q == F!UpdateInput(p, v)
         IN  /\ IsPanel(q, n) /\ (CursorInView(p) => CursorInView(q)) /\ SameList(q, p)
             /\ q.on = p.on /\ q.focus = p.focus
<1>1. CASE p.focus = 0
  BY <1>1 DEF F!UpdateInput, F!List, SameList
<1>2. CASE p.focus # 0
  <2>1. p.focus \in 1..n
    BY <1>2 DEF IsPanel
  <2>2. F!UpdateInput(p, v) = [p EXCEPT !.text[p.focus] = v]
    BY <1>2 DEF F!UpdateInput, F!List
  <2> QED BY <2>1, <2>2, SetTextShows
<1> QED BY <1>1, <1>2

LEMMA NewPanelShows ==
  ASSUME NEW n \in Nat \ {0}, NEW texts, IsText(texts, n)
  PROVE  LET q == F!NewPanel(texts)
         IN  GoodPanel(q, n) /\ q.items = <<>> /\ q.text = texts /\ q.on = {1} /\ q.focus = 1
<1> DEFINE p == [on |-> {}, focus |-> 0, text |-> texts, items |-> <<>>, cursor |-> 1, offset |-> 1]
<1>1. IsList(<<>>)
  BY DEF IsList
<1>2. IsPanel(p, n) /\ p.items = <<>> /\ p.text = texts
  BY <1>1 DEF IsPanel
<1>3. F!NewPanel(texts) = F!FocusInput(p, 1) /\ 1 \in 1..n
  BY DEF F!NewPanel, F!List
<1>4. CursorInView(p)
  BY <1>2 DEF CursorInView
<1> HIDE DEF p
<1> QED BY <1>2, <1>3, <1>4, FocusInputShows DEF GoodPanel, SameList

LEMMA OneText == ASSUME NEW v PROVE IsText(<<v>>, 1)
BY DEF IsText

LEMMA TwoTexts == ASSUME NEW v, NEW w PROVE IsText(<<v, w>>, 2)
BY DEF IsText

-----------------------------------------------------------------------------
(* The five dialogs.                                                       *)

Button == {"yes", "no"}
Footed(f) == f.footer = IF f.input THEN "none" ELSE f.button

GoodPicker(f, items) ==
    /\ f \in [kind : {"picker"}, fuzzy : BOOLEAN, panel : {f.panel}]
    /\ GoodPanel(f.panel, 1) /\ f.panel.focus = 1 /\ f.panel.on = {1}
    /\ f.panel.items = F!Filter(f.fuzzy, f.panel.text[1], items)

GoodForward(f) ==
    /\ f \in [kind : {"forward"}, panel : {f.panel}, input : BOOLEAN, button : Button,
              footer : Button \cup {"none", "invalid"}]
    /\ GoodPanel(f.panel, 2)
    /\ f.panel.on = IF f.input THEN {f.panel.focus} \ {0} ELSE {}
    /\ Footed(f) \/ f.footer = "invalid"

GoodScale(f) ==
    /\ f \in [kind : {"scale"}, panel : {f.panel}, was : Int, input : BOOLEAN,
              button : Button, footer : Button \cup {"none"}]
    /\ GoodPanel(f.panel, 1) /\ f.panel.focus = 1
    /\ f.panel.on = IF f.input THEN {1} ELSE {}
    /\ Footed(f)

GoodImage(f) ==
    /\ f \in [kind : {"image"}, panel : {f.panel}, policy : [F!Rows -> DOMAIN Policies],
              lit : SUBSET F!Rows, kindOf : {"image", "policy", "buttons"}, row : F!Rows,
              input : BOOLEAN, button : Button, footer : Button \cup {"none"}]
    /\ GoodPanel(f.panel, Len(Containers))
    /\ f.kindOf = "image" => f.input /\ f.lit = {} /\ f.panel.on = {f.row} /\ f.panel.focus = f.row
    /\ f.kindOf = "policy" => f.input /\ f.lit = {f.row} /\ f.panel.on = {}
    /\ f.kindOf = "buttons" => ~f.input /\ f.lit = {} /\ f.panel.on = {}
    /\ Footed(f)

GoodChart(f) ==
    /\ f \in [kind : {"chart"}, panel : {f.panel}]
    /\ GoodPanel(f.panel, 1) /\ f.panel.focus = 1 /\ f.panel.on = {1}

GoodForm(f, items) ==
    GoodPicker(f, items) \/ GoodForward(f) \/ GoodScale(f) \/ GoodImage(f) \/ GoodChart(f)

FormsInv ==
    /\ form = Absent \/ GoodForm(form, given)
    /\ IsList(given)
    /\ F!SentIsShown

\* A dialog of a kind has the shape of its kind.
LEMMA OpenedIsGood ==
  ASSUME FormsInv
  PROVE  /\ F!Opened("picker") => GoodPicker(form, given)
         /\ F!Opened("forward") => GoodForward(form)
         /\ F!Opened("scale") => GoodScale(form)
         /\ F!Opened("image") => GoodImage(form)
         /\ F!Opened("chart") => GoodChart(form)
<1>1. /\ GoodPicker(form, given) => form.kind = "picker"
      /\ GoodForward(form) => form.kind = "forward"
      /\ GoodScale(form) => form.kind = "scale"
      /\ GoodImage(form) => form.kind = "image"
      /\ GoodChart(form) => form.kind = "chart"
  BY DEF GoodPicker, GoodForward, GoodScale, GoodImage, GoodChart
<1> QED BY <1>1 DEF FormsInv, GoodForm, F!Opened

\* What a key does to a dialog: it becomes a good one, closes, or sends what it showed.
LEMMA BecomesKeeps ==
  ASSUME FormsInv, NEW f, GoodForm(f, given), F!Becomes(f) PROVE FormsInv'
BY DEF FormsInv, F!Becomes, F!SentIsShown

LEMMA ClosesKeeps == ASSUME FormsInv, F!Closes PROVE FormsInv'
BY DEF FormsInv, F!Closes, F!SentIsShown

LEMMA StartsKeeps ==
  ASSUME FormsInv, NEW f, GoodForm(f, given), F!Starts(f) PROVE FormsInv'
BY DEF FormsInv, F!Starts, F!SentIsShown

\* A message says what its dialog shows.
SaysShown(f, msg) ==
    CASE f.kind = "picker" -> msg = F!Shown(f)
      [] f.kind = "forward" -> /\ msg = [remote |-> F!Shown(f), local |-> f.panel.text[2]]
                               /\ msg.local \in 1..MaxPort
      [] f.kind = "image" ->
           \A r \in F!Rows :
             /\ f.panel.text[r] # NoImage =>
                  F!Applied(msg, r, "image", NoImage) = f.panel.text[r]
             /\ f.policy[r] # F!Default =>
                  F!Applied(msg, r, "policy", F!Value(F!Default)) = F!Value(f.policy[r])
      [] OTHER -> msg = f.panel.text[1] /\ msg # EmptyInput

LEMMA SendsKeeps ==
  ASSUME FormsInv, NEW msg, SaysShown(form, msg), F!Sends(msg) PROVE FormsInv'
<1>1. /\ form' = Absent /\ given' = given
      /\ sent' = [form |-> form, msg |-> msg]
  BY DEF F!Sends
<1>2. sent'.form = form /\ sent'.msg = msg
  BY <1>1
<1>3. F!SentIsShown'
  BY <1>2 DEF F!SentIsShown, SaysShown
<1> QED BY <1>1, <1>3 DEF FormsInv

LEMMA EscapeKeeps == ASSUME FormsInv, F!Escape PROVE FormsInv'
BY ClosesKeeps DEF F!Escape

-----------------------------------------------------------------------------
(* Pickers.                                                                *)

\* A filter that is applied leaves a list of what it was applied to.
LEMMA ApplyFilterGood ==
  ASSUME NEW f, NEW items, IsList(items),
         f \in [kind : {"picker"}, fuzzy : BOOLEAN, panel : {f.panel}],
         IsPanel(f.panel, 1), f.panel.focus = 1, f.panel.on = {1}
  PROVE  GoodPicker(F!ApplyFilter(f, items), items)
<1> DEFINE l == F!Filter(f.fuzzy, f.panel.text[1], items)
           p == F!SetItems(f.panel, l)
           g == [f EXCEPT !.panel = p]
<1>1. IsList(l)
  BY FilterIsList
<1> HIDE DEF l
<1>2. /\ GoodPanel(p, 1) /\ p.items = l /\ p.text = f.panel.text /\ p.on = {1} /\ p.focus = 1
  BY <1>1, SetItemsShows
<1> HIDE DEF p
<1>3. /\ g \in [kind : {"picker"}, fuzzy : BOOLEAN, panel : {p}]
      /\ g.panel = p /\ g.fuzzy = f.fuzzy
  OBVIOUS
<1>4. F!ApplyFilter(f, items) = g
  BY DEF F!ApplyFilter, p, l
<1> HIDE DEF g
<1>5. GoodPicker(g, items)
  BY <1>2, <1>3 DEF GoodPicker, l
<1> QED BY <1>4, <1>5

LEMMA OpenPickerKeeps ==
  ASSUME FormsInv, NEW fuzzy \in BOOLEAN, F!OpenPicker(fuzzy) PROVE FormsInv'
<1> DEFINE p == F!NewPanel(<<EmptyInput>>)
           f == [kind |-> "picker", fuzzy |-> fuzzy, panel |-> p]
<1>1. IsPanel(p, 1) /\ p.focus = 1 /\ p.on = {1}
  BY OneText, NewPanelShows DEF GoodPanel
<1> HIDE DEF p
<1>2. f \in [kind : {"picker"}, fuzzy : BOOLEAN, panel : {f.panel}] /\ f.panel = p
  OBVIOUS
<1>3. F!Starts(F!ApplyFilter(f, given))
  BY DEF F!OpenPicker, p
<1> HIDE DEF f
<1>4. GoodPicker(F!ApplyFilter(f, given), given)
  BY <1>1, <1>2, ApplyFilterGood DEF FormsInv
<1> QED BY <1>3, <1>4, StartsKeeps DEF GoodForm

LEMMA GivenKeeps ==
  ASSUME FormsInv, NEW items \in ItemLists, F!Given(items) PROVE FormsInv'
<1>1. items \in Seq(Int)
  BY FormsAssumption
<1>2. IsList(items)
  BY <1>1 DEF IsList
<1>3. given' = items /\ sent' = sent
  BY DEF F!Given
<1>4. CASE F!Opened("picker")
  <2>1. GoodPicker(form, given) /\ form' = F!ApplyFilter(form, items)
    BY <1>4, OpenedIsGood DEF F!Given
  <2>2. GoodPicker(form', items)
    BY <1>2, <2>1, ApplyFilterGood DEF GoodPicker, GoodPanel
  <2> QED BY <1>2, <1>3, <2>2 DEF FormsInv, GoodForm, F!SentIsShown
<1>5. CASE ~F!Opened("picker")
  <2>1. form' = form
    BY <1>5 DEF F!Given
  <2>2. form = Absent \/ GoodForm(form, items)
    BY <1>5 DEF FormsInv, GoodForm, F!Opened, GoodPicker
  <2> QED BY <1>2, <1>3, <2>1, <2>2 DEF FormsInv, F!SentIsShown
<1> QED BY <1>4, <1>5

LEMMA PickerMoveKeeps ==
  ASSUME FormsInv, NEW d \in Int, F!PickerMove(d) PROVE FormsInv'
<1> DEFINE p == F!ListKey(form.panel, d)
           f == [form EXCEPT !.panel = p]
<1>1. GoodPicker(form, given) /\ F!Becomes(f)
  BY OpenedIsGood DEF F!PickerMove
<1>2. /\ GoodPanel(p, 1) /\ p.focus = 1 /\ p.on = {1}
      /\ p.items = form.panel.items /\ p.text = form.panel.text
  BY <1>1, ListKeyShows DEF GoodPicker, GoodPanel
<1> HIDE DEF p
<1>3. /\ f \in [kind : {"picker"}, fuzzy : BOOLEAN, panel : {p}]
      /\ f.panel = p /\ f.fuzzy = form.fuzzy
  BY <1>1 DEF GoodPicker
<1> HIDE DEF f
<1>4. GoodPicker(f, given)
  BY <1>1, <1>2, <1>3 DEF GoodPicker
<1> QED BY <1>1, <1>4, BecomesKeeps DEF GoodForm

LEMMA PickerTypeKeeps ==
  ASSUME FormsInv, NEW q, F!PickerType(q) PROVE FormsInv'
<1> DEFINE p == F!UpdateInput(form.panel, q)
           f == [form EXCEPT !.panel = p]
<1>1. GoodPicker(form, given) /\ F!Becomes(F!ApplyFilter(f, given))
  BY OpenedIsGood DEF F!PickerType
<1>2. IsPanel(p, 1) /\ p.focus = 1 /\ p.on = {1}
  BY <1>1, UpdateInputShows DEF GoodPicker, GoodPanel
<1> HIDE DEF p
<1>3. f \in [kind : {"picker"}, fuzzy : BOOLEAN, panel : {f.panel}] /\ f.panel = p
  BY <1>1 DEF GoodPicker
<1> HIDE DEF f
<1>4. GoodPicker(F!ApplyFilter(f, given), given)
  BY <1>2, <1>3, ApplyFilterGood DEF FormsInv
<1> QED BY <1>1, <1>4, BecomesKeeps DEF GoodForm

LEMMA PickerEnterKeeps == ASSUME FormsInv, F!PickerEnter PROVE FormsInv'
<1> DEFINE all == F!Filter(form.fuzzy, form.panel.text[1], given)
<1>1. GoodPicker(form, given) /\ form.kind = "picker"
  BY OpenedIsGood DEF F!PickerEnter, F!Opened
<1>2. F!Closes \/ F!Sends(all[form.panel.cursor])
  BY DEF F!PickerEnter
<1>3. all[form.panel.cursor] = F!Shown(form)
  BY <1>1 DEF GoodPicker, F!Shown
<1> HIDE DEF all
<1>4. SaysShown(form, all[form.panel.cursor])
  BY <1>1, <1>3 DEF SaysShown
<1> QED BY <1>2, <1>4, ClosesKeeps, SendsKeeps

-----------------------------------------------------------------------------
(* Port forwards.                                                          *)

ForwardRecord(p) ==
    [kind : {"forward"}, panel : {p}, input : BOOLEAN, button : Button,
     footer : Button \cup {"none", "invalid"}]

\* The footer shows the button that is chosen, and none while an input has the keys.
LEMMA FooterMakesGood ==
  ASSUME NEW p, GoodPanel(p, 2), NEW f \in ForwardRecord(p),
         p.on = IF f.input THEN {p.focus} \ {0} ELSE {}
  PROVE  GoodForward(F!Footer(f))
<1> DEFINE v == IF f.input THEN "none" ELSE f.button
           g == [f EXCEPT !.footer = v]
<1>1. v \in Button \cup {"none", "invalid"}
  BY DEF ForwardRecord
<1>2. F!Footer(f) = g
  BY DEF F!Footer, ForwardRecord
<1>3. v = IF f.input THEN "none" ELSE f.button
  OBVIOUS
<1> HIDE DEF v
<1>4. /\ g \in ForwardRecord(p) /\ g.panel = p /\ g.input = f.input /\ g.button = f.button
      /\ g.footer = v
  BY <1>1 DEF ForwardRecord
<1> HIDE DEF g
<1>5. GoodForward(g)
  BY <1>3, <1>4 DEF GoodForward, ForwardRecord, Footed
<1> QED BY <1>2, <1>5

LEMMA FooterGood == ASSUME NEW f, GoodForward(f) PROVE GoodForward(F!Footer(f))
BY FooterMakesGood DEF GoodForward, ForwardRecord

\* The dialog with another panel whose cursor is where it was.
LEMMA ForwardPanelGood ==
  ASSUME NEW f, GoodForward(f), NEW p, GoodPanel(p, 2),
         p.focus = f.panel.focus, p.on = f.panel.on
  PROVE  LET g == [f EXCEPT !.panel = p]
         IN  GoodForward(g) /\ g.panel = p /\ g.input = f.input
<1> DEFINE g == [f EXCEPT !.panel = p]
<1>1. /\ g \in ForwardRecord(p) /\ g.panel = p /\ g.input = f.input /\ g.button = f.button
      /\ g.footer = f.footer
  BY DEF GoodForward, ForwardRecord
<1> HIDE DEF g
<1>2. GoodForward(g)
  BY <1>1 DEF GoodForward, ForwardRecord, Footed
<1> QED BY <1>1, <1>2 DEF g

LEMMA SyncLocalGood ==
  ASSUME NEW f, GoodForward(f) PROVE GoodForward(F!SyncLocal(f))
<1>1. CASE f.panel.focus = 2
  BY <1>1 DEF F!SyncLocal
<1>2. CASE f.panel.focus # 2
  <2> DEFINE v == IF f.panel.items = <<>> THEN 0 ELSE f.panel.items[f.panel.cursor]
             p == [f.panel EXCEPT !.text[2] = v]
  <2>1. IsPanel(f.panel, 2) /\ CursorInView(f.panel) /\ 2 \in 1..2
    BY DEF GoodForward, GoodPanel
  <2>2. F!SyncLocal(f) = [f EXCEPT !.panel.text[2] = v]
    BY <1>2 DEF F!SyncLocal
  <2> HIDE DEF v
  <2>3. GoodPanel(p, 2) /\ p.focus = f.panel.focus /\ p.on = f.panel.on
    BY <2>1, SetTextShows DEF GoodPanel
  <2>4. F!SyncLocal(f) = [f EXCEPT !.panel = p]
    BY <2>2 DEF GoodForward
  <2> HIDE DEF p
  <2> QED BY <2>3, <2>4, ForwardPanelGood
<1> QED BY <1>1, <1>2

LEMMA FilterPortsGood ==
  ASSUME NEW f, GoodForward(f) PROVE GoodForward(F!FilterPorts(f))
<1> DEFINE l == F!Containing(f.panel.text[1], FormPorts)
           p == F!SetItems(f.panel, l)
           g == [f EXCEPT !.panel = p]
<1>1. IsList(FormPorts)
  BY FormsAssumption DEF IsList
<1>2. IsList(l)
  BY <1>1, ChosenIsList
<1> HIDE DEF l
<1>3. GoodPanel(p, 2) /\ p.focus = f.panel.focus /\ p.on = f.panel.on
  BY <1>2, SetItemsShows DEF GoodForward, GoodPanel
<1>4. F!FilterPorts(f) = F!SyncLocal(g)
  BY DEF F!FilterPorts, p, l
<1> HIDE DEF p
<1>5. GoodForward(g)
  BY <1>3, ForwardPanelGood
<1> HIDE DEF g
<1> QED BY <1>4, <1>5, SyncLocalGood

LEMMA OpenForwardKeeps == ASSUME FormsInv, F!OpenForward PROVE FormsInv'
<1> DEFINE p == F!NewPanel(<<EmptyInput, 0>>)
           f == [kind |-> "forward", panel |-> p, input |-> TRUE, button |-> "yes",
                 footer |-> "none"]
           g == F!FilterPorts(f)
<1>1. GoodPanel(p, 2) /\ p.focus = 1 /\ p.on = {1}
  BY TwoTexts, NewPanelShows
<1>2. F!Starts(F!Footer(g))
  BY DEF F!OpenForward
<1> HIDE DEF p
<1>3. GoodForward(f)
  BY <1>1 DEF GoodForward, Footed, Button
<1> HIDE DEF f
<1>4. GoodForward(g)
  BY <1>3, FilterPortsGood
<1> HIDE DEF g
<1>5. GoodForward(F!Footer(g))
  BY <1>4, FooterGood
<1> QED BY <1>2, <1>5, StartsKeeps DEF GoodForm

\* Focus goes to an input, or to the buttons.
LEMMA ToInputGood ==
  ASSUME NEW f, GoodForward(f), NEW i \in 1..2 PROVE GoodForward(F!ToInput(f, i))
<1> DEFINE p == F!FocusInput(f.panel, i)
           g == [f EXCEPT !.input = TRUE, !.panel = p]
<1>1. GoodPanel(p, 2) /\ p.on = {i} /\ p.focus = i
  BY FocusInputShows DEF GoodForward, GoodPanel
<1>2. F!ToInput(f, i) = F!Footer(g)
  BY DEF F!ToInput, GoodForward
<1> HIDE DEF p
<1>3. g \in ForwardRecord(p) /\ g.panel = p /\ g.input
  BY DEF GoodForward, ForwardRecord
<1> HIDE DEF g
<1>4. p.on = IF g.input THEN {p.focus} \ {0} ELSE {}
  BY <1>1, <1>3
<1> QED BY <1>1, <1>2, <1>3, <1>4, FooterMakesGood

LEMMA ToButtonsGood ==
  ASSUME NEW f, GoodForward(f) PROVE GoodForward(F!ToButtons(f))
<1> DEFINE p == F!BlurAll(f.panel)
           g == [f EXCEPT !.input = FALSE, !.panel = p]
<1>1. GoodPanel(p, 2) /\ p.on = {}
  BY BlurAllShows DEF GoodForward, GoodPanel
<1>2. F!ToButtons(f) = F!Footer(g)
  BY DEF F!ToButtons, GoodForward
<1> HIDE DEF p
<1>3. g \in ForwardRecord(p) /\ g.panel = p /\ ~g.input
  BY DEF GoodForward, ForwardRecord
<1> HIDE DEF g
<1> QED BY <1>1, <1>2, <1>3, FooterMakesGood

LEMMA ForwardTabGood ==
  ASSUME NEW f, GoodForward(f) PROVE GoodForward(F!ForwardTab(f))
<1>1. CASE ~f.input
  BY <1>1, ToInputGood DEF F!ForwardTab
<1>2. CASE f.input /\ f.panel.focus = 1
  <2> DEFINE p == F!FocusList(f.panel)
             g == [f EXCEPT !.panel = p]
  <2>1. GoodPanel(p, 2) /\ p.on = {} /\ p.focus = 0
    BY FocusListShows DEF GoodForward, GoodPanel
  <2>2. F!ForwardTab(f) = g
    BY <1>2 DEF F!ForwardTab, F!List, GoodForward
  <2> HIDE DEF p
  <2>3. g \in ForwardRecord(p) /\ g.panel = p /\ g.input = f.input /\ g.footer = f.footer
    BY DEF GoodForward, ForwardRecord
  <2> HIDE DEF g
  <2>4. GoodForward(g)
    BY <1>2, <2>1, <2>3 DEF GoodForward, ForwardRecord, Footed
  <2> QED BY <2>2, <2>4
<1>3. CASE f.input /\ f.panel.focus = 0
  <2> DEFINE p == F!FocusInput(f.panel, 2)
             g == [f EXCEPT !.panel = p]
  <2>1. GoodPanel(p, 2) /\ p.on = {2} /\ p.focus = 2
    BY FocusInputShows DEF GoodForward, GoodPanel
  <2>2. F!ForwardTab(f) = g
    BY <1>3 DEF F!ForwardTab, F!List, GoodForward
  <2> HIDE DEF p
  <2>3. g \in ForwardRecord(p) /\ g.panel = p /\ g.input = f.input /\ g.footer = f.footer
    BY DEF GoodForward, ForwardRecord
  <2> HIDE DEF g
  <2>4. GoodForward(g)
    BY <1>3, <2>1, <2>3 DEF GoodForward, ForwardRecord, Footed
  <2> QED BY <2>2, <2>4
<1>4. CASE f.input /\ f.panel.focus = 2
  <2>1. F!ForwardTab(f) = F!ToButtons(f)
    BY <1>4 DEF F!ForwardTab, F!List
  <2> QED BY <2>1, ToButtonsGood
<1> QED BY <1>1, <1>2, <1>3, <1>4 DEF GoodForward, GoodPanel, IsPanel

LEMMA ForwardMoveKeeps ==
  ASSUME FormsInv, NEW d \in Int, F!ForwardMove(d) PROVE FormsInv'
<1>1. GoodForward(form)
  BY OpenedIsGood DEF F!ForwardMove
<1>2. CASE form.input
  <2> DEFINE p == F!ListKey(form.panel, d)
             f == [form EXCEPT !.panel = p]
  <2>1. GoodPanel(p, 2) /\ p.on = form.panel.on /\ p.focus = form.panel.focus
    BY <1>1, ListKeyShows DEF GoodForward, GoodPanel
  <2>2. F!Becomes(F!SyncLocal(f))
    BY <1>1, <1>2 DEF F!ForwardMove, GoodForward
  <2> HIDE DEF p
  <2>3. GoodForward(f)
    BY <1>1, <2>1, ForwardPanelGood
  <2> HIDE DEF f
  <2> QED BY <2>2, <2>3, SyncLocalGood, BecomesKeeps DEF GoodForm
<1>3. CASE ~form.input
  <2>1. F!Becomes(F!ToInput(form, 2)) \/ F!Becomes(form)
    BY <1>3 DEF F!ForwardMove
  <2>2. GoodForward(F!ToInput(form, 2))
    BY <1>1, ToInputGood
  <2> QED BY <1>1, <2>1, <2>2, BecomesKeeps DEF GoodForm
<1> QED BY <1>2, <1>3

LEMMA ForwardTypeKeeps ==
  ASSUME FormsInv, NEW q, NEW t, F!ForwardType(q, t) PROVE FormsInv'
<1>1. GoodForward(form)
  BY OpenedIsGood DEF F!ForwardType
<1>2. ASSUME NEW v PROVE GoodForward([form EXCEPT !.panel = F!UpdateInput(@, v)])
  <2> DEFINE p == F!UpdateInput(form.panel, v)
  <2>1. GoodPanel(p, 2) /\ p.on = form.panel.on /\ p.focus = form.panel.focus
    BY <1>1, UpdateInputShows DEF GoodForward, GoodPanel
  <2> HIDE DEF p
  <2>2. GoodForward([form EXCEPT !.panel = p])
    BY <1>1, <2>1, ForwardPanelGood
  <2> QED BY <2>2 DEF p
<1> DEFINE f == [form EXCEPT !.panel = F!UpdateInput(@, q)]
           g == [form EXCEPT !.panel = F!UpdateInput(@, t)]
<1>3. F!Becomes(F!FilterPorts(f)) \/ F!Becomes(g)
  BY DEF F!ForwardType
<1>4. GoodForward(f) /\ GoodForward(g)
  BY <1>2
<1> HIDE DEF f, g
<1> QED BY <1>3, <1>4, FilterPortsGood, BecomesKeeps DEF GoodForm

LEMMA ForwardSubmitKeeps ==
  ASSUME FormsInv, GoodForward(form), F!ForwardSubmit PROVE FormsInv'
<1>1. CASE F!Becomes(form)
  BY <1>1, BecomesKeeps DEF GoodForm
<1>2. CASE F!Becomes([form EXCEPT !.footer = "invalid"])
  <2> DEFINE f == [form EXCEPT !.footer = "invalid"]
  <2>1. /\ f \in ForwardRecord(form.panel) /\ f.panel = form.panel /\ f.input = form.input
        /\ f.footer = "invalid"
    BY DEF GoodForward, ForwardRecord
  <2>2. F!Becomes(f)
    BY <1>2
  <2> HIDE DEF f
  <2>3. GoodForward(f)
    BY <2>1 DEF GoodForward, ForwardRecord
  <2> QED BY <2>2, <2>3, BecomesKeeps DEF GoodForm
<1>3. CASE /\ form.panel.text[2] \in 1..MaxPort
           /\ F!Sends([remote |-> F!Shown(form), local |-> form.panel.text[2]])
  <2>1. form.kind = "forward"
    BY DEF GoodForward
  <2> DEFINE msg == [remote |-> F!Shown(form), local |-> form.panel.text[2]]
  <2>2. SaysShown(form, msg)
    BY <1>3, <2>1 DEF SaysShown
  <2>3. F!Sends(msg)
    BY <1>3
  <2> HIDE DEF msg
  <2> QED BY <2>2, <2>3, SendsKeeps
<1> QED BY <1>1, <1>2, <1>3 DEF F!ForwardSubmit, F!Shown

LEMMA ForwardKeyKeeps ==
  ASSUME FormsInv, NEW key \in F!Bar, F!ForwardKey(key) PROVE FormsInv'
<1>1. GoodForward(form)
  BY OpenedIsGood DEF F!ForwardKey
<1>2. \/ F!Becomes(F!ForwardTab(form))
      \/ F!ForwardSubmit
      \/ F!Closes
      \/ key \in Button /\ F!Becomes(F!ToButton(form, key))
  BY DEF F!ForwardKey, F!Bar, Button
<1>3. ASSUME key \in Button, F!Becomes(F!ToButton(form, key)) PROVE FormsInv'
  <2> DEFINE f == [form EXCEPT !.button = key]
  <2>1. f \in ForwardRecord(form.panel) /\ f.panel = form.panel /\ f.input = form.input
    BY <1>1, <1>3 DEF GoodForward, ForwardRecord
  <2>2. F!Becomes(F!Footer(f))
    BY <1>3 DEF F!ToButton
  <2> HIDE DEF f
  <2>3. GoodForward(F!Footer(f))
    BY <1>1, <2>1, FooterMakesGood DEF GoodForward
  <2> QED BY <2>2, <2>3, BecomesKeeps DEF GoodForm
<1>4. GoodForward(F!ForwardTab(form))
  BY <1>1, ForwardTabGood
<1> QED BY <1>1, <1>2, <1>3, <1>4, ForwardSubmitKeeps, ClosesKeeps, BecomesKeeps DEF GoodForm

-----------------------------------------------------------------------------
(* Scale, and the source of a chart.                                       *)

ScaleRecord(p) ==
    [kind : {"scale"}, panel : {p}, was : Int, input : BOOLEAN, button : Button,
     footer : Button \cup {"none"}]

LEMMA ScaleFooterGood ==
  ASSUME NEW p, GoodPanel(p, 1), p.focus = 1, NEW f \in ScaleRecord(p),
         p.on = IF f.input THEN {1} ELSE {}
  PROVE  GoodScale(F!Footer(f))
<1> DEFINE v == IF f.input THEN "none" ELSE f.button
           g == [f EXCEPT !.footer = v]
<1>1. v \in Button \cup {"none"}
  BY DEF ScaleRecord
<1>2. F!Footer(f) = g
  BY DEF F!Footer, ScaleRecord
<1>3. v = IF f.input THEN "none" ELSE f.button
  OBVIOUS
<1> HIDE DEF v
<1>4. /\ g \in ScaleRecord(p) /\ g.panel = p /\ g.input = f.input /\ g.button = f.button
      /\ g.footer = v
  BY <1>1 DEF ScaleRecord
<1> HIDE DEF g
<1>5. GoodScale(g)
  BY <1>3, <1>4 DEF GoodScale, ScaleRecord, Footed
<1> QED BY <1>2, <1>5

LEMMA OpenScaleKeeps ==
  ASSUME FormsInv, NEW n \in Int, F!OpenScale(n) PROVE FormsInv'
<1> DEFINE p == F!NewPanel(<<n>>)
           f == [kind |-> "scale", panel |-> p, was |-> n, input |-> TRUE, button |-> "yes",
                 footer |-> "none"]
<1>1. GoodPanel(p, 1) /\ p.focus = 1 /\ p.on = {1}
  BY OneText, NewPanelShows
<1>2. F!Starts(F!Footer(f))
  BY DEF F!OpenScale
<1> HIDE DEF p
<1>3. f \in ScaleRecord(p) /\ f.input
  BY DEF ScaleRecord, Button
<1> HIDE DEF f
<1>4. GoodScale(F!Footer(f))
  BY <1>1, <1>3, ScaleFooterGood
<1> QED BY <1>2, <1>4, StartsKeeps DEF GoodForm

\* Another panel with the cursor where it was.
LEMMA ScalePanelGood ==
  ASSUME NEW f, GoodScale(f), NEW p, GoodPanel(p, 1), p.focus = f.panel.focus, p.on = f.panel.on
  PROVE  GoodScale([f EXCEPT !.panel = p])
<1> DEFINE g == [f EXCEPT !.panel = p]
<1>1. /\ g \in ScaleRecord(p) /\ g.panel = p /\ g.input = f.input /\ g.button = f.button
      /\ g.footer = f.footer
  BY DEF GoodScale, ScaleRecord
<1> HIDE DEF g
<1>2. GoodScale(g)
  BY <1>1 DEF GoodScale, ScaleRecord, Footed
<1> QED BY <1>2 DEF g

LEMMA ScaleToInputGood ==
  ASSUME NEW f, GoodScale(f) PROVE GoodScale(F!ToInput(f, 1))
<1> DEFINE p == F!FocusInput(f.panel, 1)
           g == [f EXCEPT !.input = TRUE, !.panel = p]
<1>1. GoodPanel(p, 1) /\ p.on = {1} /\ p.focus = 1
  BY FocusInputShows DEF GoodScale, GoodPanel
<1>2. F!ToInput(f, 1) = F!Footer(g)
  BY DEF F!ToInput, GoodScale
<1> HIDE DEF p
<1>3. g \in ScaleRecord(p) /\ g.input
  BY DEF GoodScale, ScaleRecord
<1> HIDE DEF g
<1> QED BY <1>1, <1>2, <1>3, ScaleFooterGood

LEMMA ScaleToButtonsGood ==
  ASSUME NEW f, GoodScale(f) PROVE GoodScale(F!ToButtons(f))
<1> DEFINE p == F!BlurAll(f.panel)
           g == [f EXCEPT !.input = FALSE, !.panel = p]
<1>1. GoodPanel(p, 1) /\ p.on = {} /\ p.focus = 1
  BY BlurAllShows DEF GoodScale, GoodPanel
<1>2. F!ToButtons(f) = F!Footer(g)
  BY DEF F!ToButtons, GoodScale
<1> HIDE DEF p
<1>3. g \in ScaleRecord(p) /\ ~g.input
  BY DEF GoodScale, ScaleRecord
<1> HIDE DEF g
<1> QED BY <1>1, <1>2, <1>3, ScaleFooterGood

LEMMA ScaleMoveKeeps ==
  ASSUME FormsInv, NEW d \in Int, F!ScaleMove(d) PROVE FormsInv'
<1>1. GoodScale(form)
  BY OpenedIsGood DEF F!ScaleMove
<1>2. CASE form.input
  <2> DEFINE v == F!Adjusted(form.panel.text[1], d)
             i == 1
             p == [form.panel EXCEPT !.text[i] = v]
  <2>1. F!Becomes([form EXCEPT !.panel.text[1] = v])
    BY <1>2 DEF F!ScaleMove
  <2>2. IsPanel(form.panel, 1) /\ CursorInView(form.panel) /\ i \in 1..1
    BY <1>1 DEF GoodScale, GoodPanel
  <2> HIDE DEF v, i
  <2>3. GoodPanel(p, 1) /\ p.focus = form.panel.focus /\ p.on = form.panel.on
    BY <2>2, SetTextShows DEF GoodPanel
  <2>4. [form EXCEPT !.panel.text[1] = v] = [form EXCEPT !.panel = p]
    BY <1>1 DEF GoodScale, i
  <2> HIDE DEF p
  <2>5. GoodScale([form EXCEPT !.panel = p])
    BY <1>1, <2>3, ScalePanelGood
  <2> QED BY <2>1, <2>4, <2>5, BecomesKeeps DEF GoodForm
<1>3. CASE ~form.input
  <2>1. F!Becomes(F!ToInput(form, 1)) \/ F!Becomes(form)
    BY <1>3 DEF F!ScaleMove
  <2>2. GoodScale(F!ToInput(form, 1))
    BY <1>1, ScaleToInputGood
  <2> QED BY <1>1, <2>1, <2>2, BecomesKeeps DEF GoodForm
<1> QED BY <1>2, <1>3

LEMMA ScaleTypeKeeps ==
  ASSUME FormsInv, NEW n, F!ScaleType(n) PROVE FormsInv'
<1> DEFINE p == F!UpdateInput(form.panel, n)
<1>1. GoodScale(form) /\ F!Becomes([form EXCEPT !.panel = p])
  BY OpenedIsGood DEF F!ScaleType
<1>2. GoodPanel(p, 1) /\ p.on = form.panel.on /\ p.focus = form.panel.focus
  BY <1>1, UpdateInputShows DEF GoodScale, GoodPanel
<1> HIDE DEF p
<1>3. GoodScale([form EXCEPT !.panel = p])
  BY <1>1, <1>2, ScalePanelGood
<1> QED BY <1>1, <1>3, BecomesKeeps DEF GoodForm

LEMMA ScaleSubmitKeeps ==
  ASSUME FormsInv, GoodScale(form), F!ScaleSubmit PROVE FormsInv'
<1> DEFINE n == form.panel.text[1]
<1>1. \/ F!Becomes(form)
      \/ F!Closes
      \/ n \in 0..MaxInt /\ F!Sends(n)
  BY DEF F!ScaleSubmit
<1>2. ASSUME n \in 0..MaxInt PROVE SaysShown(form, n)
  <2> HIDE DEF n
  <2>0. n \in Int
    BY <1>2
  <2>1. form.kind = "scale" /\ n # EmptyInput
    BY <2>0, FormsAssumption DEF GoodScale
  <2> QED BY <2>1 DEF SaysShown, n
<1> HIDE DEF n
<1> QED BY <1>1, <1>2, BecomesKeeps, ClosesKeeps, SendsKeeps DEF GoodForm

LEMMA ScaleKeyKeeps ==
  ASSUME FormsInv, NEW key \in F!Bar, F!ScaleKey(key) PROVE FormsInv'
<1>1. GoodScale(form)
  BY OpenedIsGood DEF F!ScaleKey
<1>2. \/ F!Becomes(F!ScaleTab(form))
      \/ F!ScaleSubmit
      \/ F!Closes
      \/ key \in Button /\ F!Becomes(F!ToButton(form, key))
  BY DEF F!ScaleKey, F!Bar, Button
<1>3. ASSUME key \in Button, F!Becomes(F!ToButton(form, key)) PROVE FormsInv'
  <2> DEFINE f == [form EXCEPT !.button = key]
  <2>1. f \in ScaleRecord(form.panel) /\ f.input = form.input
    BY <1>1, <1>3 DEF GoodScale, ScaleRecord
  <2>2. F!Becomes(F!Footer(f))
    BY <1>3 DEF F!ToButton
  <2> HIDE DEF f
  <2>3. GoodScale(F!Footer(f))
    BY <1>1, <2>1, ScaleFooterGood DEF GoodScale
  <2> QED BY <2>2, <2>3, BecomesKeeps DEF GoodForm
<1>4. GoodScale(F!ScaleTab(form))
  BY <1>1, ScaleToInputGood, ScaleToButtonsGood DEF F!ScaleTab
<1> QED BY <1>1, <1>2, <1>3, <1>4, ScaleSubmitKeeps, ClosesKeeps, BecomesKeeps DEF GoodForm

LEMMA OpenChartKeeps == ASSUME FormsInv, NEW ref, F!OpenChart(ref) PROVE FormsInv'
<1> DEFINE p == F!NewPanel(<<ref>>)
           f == [kind |-> "chart", panel |-> p]
<1>1. GoodPanel(p, 1) /\ p.focus = 1 /\ p.on = {1}
  BY OneText, NewPanelShows
<1>2. F!Starts(f)
  BY DEF F!OpenChart
<1> HIDE DEF p
<1>3. GoodChart(f)
  BY <1>1 DEF GoodChart
<1> QED BY <1>2, <1>3, StartsKeeps DEF GoodForm

LEMMA ChartTypeKeeps == ASSUME FormsInv, NEW ref, F!ChartType(ref) PROVE FormsInv'
<1> DEFINE p == F!UpdateInput(form.panel, ref)
           f == [form EXCEPT !.panel = p]
<1>1. GoodChart(form) /\ F!Becomes(f)
  BY OpenedIsGood DEF F!ChartType
<1>2. GoodPanel(p, 1) /\ p.on = {1} /\ p.focus = 1
  BY <1>1, UpdateInputShows DEF GoodChart, GoodPanel
<1> HIDE DEF p
<1>3. f \in [kind : {"chart"}, panel : {p}] /\ f.panel = p
  BY <1>1 DEF GoodChart
<1> HIDE DEF f
<1>4. GoodChart(f)
  BY <1>2, <1>3 DEF GoodChart
<1> QED BY <1>1, <1>4, BecomesKeeps DEF GoodForm

LEMMA ChartEnterKeeps == ASSUME FormsInv, F!ChartEnter PROVE FormsInv'
<1> DEFINE ref == form.panel.text[1]
<1>1. form.kind = "chart"
  BY OpenedIsGood DEF F!ChartEnter, F!Opened
<1>2. F!Closes \/ (ref # EmptyInput /\ F!Sends(ref))
  BY DEF F!ChartEnter
<1>3. ref # EmptyInput => SaysShown(form, ref)
  BY <1>1 DEF SaysShown
<1> HIDE DEF ref
<1> QED BY <1>2, <1>3, ClosesKeeps, SendsKeeps

-----------------------------------------------------------------------------
(* Set image.                                                              *)

ImageRecord(p) ==
    [kind : {"image"}, panel : {p}, policy : [F!Rows -> DOMAIN Policies], lit : SUBSET F!Rows,
     kindOf : {"image", "policy", "buttons"}, row : F!Rows, input : BOOLEAN, button : Button,
     footer : Button \cup {"none"}]

Focused(f) ==
    /\ f.kindOf = "image" => f.input /\ f.lit = {} /\ f.panel.on = {f.row} /\ f.panel.focus = f.row
    /\ f.kindOf = "policy" => f.input /\ f.lit = {f.row} /\ f.panel.on = {}
    /\ f.kindOf = "buttons" => ~f.input /\ f.lit = {} /\ f.panel.on = {}

ImageInputs == Len(Containers)

LEMMA RowsAreInputs ==
  F!Rows = 1..ImageInputs /\ ImageInputs \in Nat \ {0} /\ 1 \in F!Rows /\ ImageInputs \in F!Rows
BY FormsAssumption DEF F!Rows, ImageInputs

LEMMA GoodImageSays ==
  ASSUME NEW f, GoodImage(f)
  PROVE  /\ f \in ImageRecord(f.panel) /\ GoodPanel(f.panel, ImageInputs) /\ IsPanel(f.panel, ImageInputs)
         /\ CursorInView(f.panel) /\ Focused(f) /\ f.row \in F!Rows
BY DEF GoodImage, ImageRecord, Focused, GoodPanel, ImageInputs

LEMMA ImageFooterGood ==
  ASSUME NEW p, GoodPanel(p, ImageInputs), NEW f \in ImageRecord(p), Focused(f)
  PROVE  GoodImage(F!Footer(f))
<1> DEFINE v == IF f.input THEN "none" ELSE f.button
           g == [f EXCEPT !.footer = v]
<1>1. v \in Button \cup {"none"}
  BY DEF ImageRecord
<1>2. F!Footer(f) = g
  BY DEF F!Footer, ImageRecord
<1>3. v = IF f.input THEN "none" ELSE f.button
  OBVIOUS
<1> HIDE DEF v
<1>4. /\ g \in ImageRecord(p) /\ g.panel = p /\ g.input = f.input /\ g.button = f.button
      /\ g.footer = v /\ g.kindOf = f.kindOf /\ g.lit = f.lit /\ g.row = f.row
  BY <1>1 DEF ImageRecord
<1>5. f.panel = p
  BY DEF ImageRecord
<1> HIDE DEF g
<1>6. GoodImage(g)
  BY <1>3, <1>4, <1>5 DEF GoodImage, ImageRecord, Focused, Footed, ImageInputs
<1> QED BY <1>2, <1>6

LEMMA FocusImageGood ==
  ASSUME NEW q, IsPanel(q, ImageInputs), CursorInView(q), NEW f \in ImageRecord(q),
         NEW r \in F!Rows
  PROVE  GoodImage(F!FocusImage(f, r))
<1> DEFINE p == F!FocusInput(q, r)
           g == [f EXCEPT !.input = TRUE, !.lit = {}, !.kindOf = "image", !.row = r, !.panel = p]
<1>1. GoodPanel(p, ImageInputs) /\ p.on = {r} /\ p.focus = r
  BY RowsAreInputs, FocusInputShows DEF GoodPanel
<1>2. F!FocusImage(f, r) = F!Footer(g)
  BY DEF F!FocusImage, ImageRecord
<1> HIDE DEF p
<1>3. g \in ImageRecord(p)
  BY DEF ImageRecord
<1>4. g.input /\ g.lit = {} /\ g.kindOf = "image" /\ g.row = r /\ g.panel = p
  BY DEF ImageRecord
<1> HIDE DEF g
<1>5. Focused(g)
  BY <1>1, <1>4 DEF Focused
<1> QED BY <1>1, <1>2, <1>3, <1>5, ImageFooterGood

LEMMA FocusPolicyGood ==
  ASSUME NEW q, IsPanel(q, ImageInputs), CursorInView(q), NEW f \in ImageRecord(q),
         NEW r \in F!Rows
  PROVE  GoodImage(F!FocusPolicy(f, r))
<1> DEFINE p == F!BlurAll(q)
           g == [f EXCEPT !.input = TRUE, !.lit = {r}, !.kindOf = "policy", !.row = r, !.panel = p]
<1>1. GoodPanel(p, ImageInputs) /\ p.on = {}
  BY RowsAreInputs, BlurAllShows DEF GoodPanel
<1>2. F!FocusPolicy(f, r) = F!Footer(g)
  BY DEF F!FocusPolicy, ImageRecord
<1> HIDE DEF p
<1>3. g \in ImageRecord(p)
  BY DEF ImageRecord
<1>4. g.input /\ g.lit = {r} /\ g.kindOf = "policy" /\ g.row = r /\ g.panel = p
  BY DEF ImageRecord
<1> HIDE DEF g
<1>5. Focused(g)
  BY <1>1, <1>4 DEF Focused
<1> QED BY <1>1, <1>2, <1>3, <1>5, ImageFooterGood

LEMMA FocusButtonsGood ==
  ASSUME NEW q, IsPanel(q, ImageInputs), CursorInView(q), NEW f \in ImageRecord(q)
  PROVE  GoodImage(F!FocusButtons(f))
<1> DEFINE p == F!BlurAll(q)
           g == [f EXCEPT !.input = FALSE, !.lit = {}, !.kindOf = "buttons", !.panel = p]
<1>1. GoodPanel(p, ImageInputs) /\ p.on = {}
  BY RowsAreInputs, BlurAllShows DEF GoodPanel
<1>2. F!FocusButtons(f) = F!Footer(g)
  BY DEF F!FocusButtons, ImageRecord
<1> HIDE DEF p
<1>3. g \in ImageRecord(p)
  BY DEF ImageRecord
<1>4. ~g.input /\ g.lit = {} /\ g.kindOf = "buttons" /\ g.panel = p
  BY DEF ImageRecord
<1> HIDE DEF g
<1>5. Focused(g)
  BY <1>1, <1>4 DEF Focused
<1> QED BY <1>1, <1>2, <1>3, <1>5, ImageFooterGood

LEMMA OpenImageKeeps == ASSUME FormsInv, F!OpenImage PROVE FormsInv'
<1> DEFINE t == [r \in F!Rows |-> Containers[r].image]
           p == F!NewPanel(t)
           policies == [r \in F!Rows |-> F!PolicyOf(Containers[r].policy)]
           f == [kind |-> "image", panel |-> p, policy |-> policies, lit |-> {},
                 kindOf |-> "image", row |-> 1, input |-> TRUE, button |-> "yes",
                 footer |-> "none"]
<1>1. F!Starts(F!FocusImage(f, 1))
  BY DEF F!OpenImage
<1>2. DOMAIN t = 1..ImageInputs
  BY RowsAreInputs
<1>3. IsText(t, ImageInputs)
  BY <1>2, RowsAreInputs DEF IsText
<1> HIDE DEF t
<1>4. IsPanel(p, ImageInputs) /\ CursorInView(p)
  BY <1>3, RowsAreInputs, NewPanelShows DEF GoodPanel
<1>5. \A v : F!PolicyOf(v) \in DOMAIN Policies
  <2>1. 1 \in DOMAIN Policies
    BY FormsAssumption
  <2> QED BY <2>1 DEF F!PolicyOf, F!Default
<1>6. policies \in [F!Rows -> DOMAIN Policies]
  BY <1>5
<1> HIDE DEF p, policies
<1>7. f \in ImageRecord(p)
  BY <1>6, RowsAreInputs DEF ImageRecord, Button
<1> HIDE DEF f
<1>8. GoodImage(F!FocusImage(f, 1))
  BY <1>4, <1>7, RowsAreInputs, FocusImageGood
<1> QED BY <1>1, <1>8, StartsKeeps DEF GoodForm

LEMMA FocusNextGood == ASSUME NEW f, GoodImage(f) PROVE GoodImage(F!FocusNext(f))
<1>1. /\ IsPanel(f.panel, ImageInputs) /\ CursorInView(f.panel) /\ f \in ImageRecord(f.panel)
      /\ f.row \in F!Rows
  BY GoodImageSays
<1>2. \/ F!FocusNext(f) = F!FocusPolicy(f, f.row)
      \/ F!FocusNext(f) = F!FocusButtons(f)
      \/ f.row < ImageInputs /\ F!FocusNext(f) = F!FocusImage(f, f.row + 1)
      \/ F!FocusNext(f) = F!FocusImage(f, 1)
  BY <1>1, RowsAreInputs DEF F!FocusNext, ImageInputs
<1>3. f.row < ImageInputs => f.row + 1 \in F!Rows
  BY <1>1, RowsAreInputs
<1> QED BY <1>1, <1>2, <1>3, RowsAreInputs, FocusPolicyGood, FocusButtonsGood, FocusImageGood

LEMMA FocusPrevGood == ASSUME NEW f, GoodImage(f) PROVE GoodImage(F!FocusPrev(f))
<1>1. /\ IsPanel(f.panel, ImageInputs) /\ CursorInView(f.panel) /\ f \in ImageRecord(f.panel)
      /\ f.row \in F!Rows
  BY GoodImageSays
<1>2. \/ F!FocusPrev(f) = F!FocusButtons(f)
      \/ f.row > 1 /\ F!FocusPrev(f) = F!FocusPolicy(f, f.row - 1)
      \/ F!FocusPrev(f) = F!FocusImage(f, f.row)
      \/ F!FocusPrev(f) = F!FocusPolicy(f, ImageInputs)
  BY <1>1, RowsAreInputs DEF F!FocusPrev, ImageInputs
<1>3. f.row > 1 => f.row - 1 \in F!Rows
  BY <1>1, RowsAreInputs
<1> QED BY <1>1, <1>2, <1>3, RowsAreInputs, FocusPolicyGood, FocusButtonsGood, FocusImageGood

\* The policies go round.
LEMMA CycledGood ==
  ASSUME NEW f, GoodImage(f), NEW d \in {-1, 1} PROVE GoodImage(F!Cycled(f, d))
<1> DEFINE n == Len(Policies)
           k == ((f.policy[f.row] - 1 + d + n) % n) + 1
           c == [f.policy EXCEPT ![f.row] = k]
           g == [f EXCEPT !.policy = c]
<1>1. f \in ImageRecord(f.panel) /\ f.row \in F!Rows /\ Focused(f)
  BY GoodImageSays
<1>2. f.policy \in [F!Rows -> DOMAIN Policies] /\ n \in Nat \ {0} /\ DOMAIN Policies = 1..n
  BY <1>1, FormsAssumption DEF ImageRecord
<1>3. k \in DOMAIN Policies
  <2>1. f.policy[f.row] \in 1..n
    BY <1>1, <1>2
  <2> HIDE DEF n
  <2>2. f.policy[f.row] - 1 + d + n \in Int
    BY <1>2, <2>1
  <2>3. (f.policy[f.row] - 1 + d + n) % n \in 0..(n - 1)
    BY <1>2, <2>2
  <2> QED BY <1>2, <2>3
<1>4. F!Cycled(f, d) = g
  BY <1>1 DEF F!Cycled, ImageRecord
<1> HIDE DEF k
<1>5. c \in [F!Rows -> DOMAIN Policies]
  BY <1>2, <1>3
<1> HIDE DEF c
<1>6. /\ g \in ImageRecord(f.panel) /\ g.panel = f.panel /\ g.input = f.input
      /\ g.button = f.button /\ g.footer = f.footer /\ g.kindOf = f.kindOf /\ g.lit = f.lit
      /\ g.row = f.row
  BY <1>1, <1>5 DEF ImageRecord
<1> HIDE DEF g
<1>7. GoodImage(g)
  BY <1>6 DEF GoodImage, ImageRecord, Footed
<1> QED BY <1>4, <1>7

LEMMA ImageTypeKeeps == ASSUME FormsInv, NEW v, F!ImageType(v) PROVE FormsInv'
<1> DEFINE p == F!UpdateInput(form.panel, v)
           f == [form EXCEPT !.panel = p]
<1>1. GoodImage(form) /\ F!Becomes(f)
  BY OpenedIsGood DEF F!ImageType
<1>2. form \in ImageRecord(form.panel) /\ IsPanel(form.panel, ImageInputs) /\ CursorInView(form.panel)
  BY <1>1, GoodImageSays
<1>3. GoodPanel(p, ImageInputs) /\ p.on = form.panel.on /\ p.focus = form.panel.focus
  BY <1>2, RowsAreInputs, UpdateInputShows DEF GoodPanel
<1> HIDE DEF p
<1>4. /\ f \in ImageRecord(p) /\ f.panel = p /\ f.input = form.input
      /\ f.button = form.button /\ f.footer = form.footer /\ f.kindOf = form.kindOf
      /\ f.lit = form.lit /\ f.row = form.row
  BY <1>2 DEF ImageRecord
<1> HIDE DEF f
<1>5. GoodImage(f)
  BY <1>1, <1>3, <1>4 DEF GoodImage, ImageRecord, Footed, ImageInputs
<1> QED BY <1>1, <1>5, BecomesKeeps DEF GoodForm

\* Of the changes of a dialog at most one is of a container, and applied to the
\* containers they give what the dialog shows.
LEMMA ChangesAreShown ==
  ASSUME NEW f, GoodImage(f) PROVE SaysShown(f, F!Changes(f))
<1> DEFINE All == F!Changes(f)
           Asked(r) == [row |-> r,
             image |-> IF F!ImageChanged(f, r) THEN f.panel.text[r] ELSE NoImage,
             policy |-> IF F!PolicyChanged(f, r) THEN F!Value(f.policy[r]) ELSE F!Value(F!Default)]
           Asks(r) == F!ImageChanged(f, r) \/ F!PolicyChanged(f, r)
<1>1. All = {Asked(r) : r \in {s \in F!Rows : Asks(s)}}
  BY DEF F!Changes
<1>2. \A r : Asked(r).row = r
  OBVIOUS
<1>3. f.policy \in [F!Rows -> DOMAIN Policies] /\ f.kind = "image"
  BY DEF GoodImage
<1> HIDE DEF All
<1>4. ASSUME NEW r \in F!Rows
      PROVE  /\ f.panel.text[r] # NoImage => F!Applied(All, r, "image", NoImage) = f.panel.text[r]
             /\ f.policy[r] # F!Default
                => F!Applied(All, r, "policy", F!Value(F!Default)) = F!Value(f.policy[r])
  <2>1. \A c \in All : c.row = r => c = Asked(r) /\ Asks(r)
    BY <1>1, <1>2
  <2>2. Asks(r) => Asked(r) \in All
    BY <1>1
  <2>3. Asks(r) => (CHOOSE c \in All : c.row = r) = Asked(r)
    BY <1>2, <2>1, <2>2
  <2>4. ASSUME f.panel.text[r] # NoImage
        PROVE  F!Applied(All, r, "image", NoImage) = f.panel.text[r]
    <3>1. CASE F!ImageChanged(f, r)
      <4>1. Asked(r)["image"] = f.panel.text[r]
        BY <3>1
      <4>2. (\E c \in All : c.row = r /\ c["image"] # NoImage)
        BY <1>2, <2>2, <2>4, <3>1, <4>1
      <4> QED BY <2>3, <3>1, <4>1, <4>2 DEF F!Applied
    <3>2. CASE ~F!ImageChanged(f, r)
      <4>1. Asked(r)["image"] = NoImage /\ f.panel.text[r] = Containers[r].image
        BY <2>4, <3>2 DEF F!ImageChanged
      <4>2. ~(\E c \in All : c.row = r /\ c["image"] # NoImage)
        BY <2>1, <4>1
      <4> QED BY <4>1, <4>2 DEF F!Applied
    <3> QED BY <3>1, <3>2
  <2>5. ASSUME f.policy[r] # F!Default
        PROVE  F!Applied(All, r, "policy", F!Value(F!Default)) = F!Value(f.policy[r])
    <3>1. CASE F!PolicyChanged(f, r)
      <4>1. Asked(r)["policy"] = F!Value(f.policy[r])
        BY <3>1
      <4>2. F!Value(f.policy[r]) # F!Value(F!Default)
        BY <1>3, <2>5, FormsAssumption DEF F!Value, F!Default
      <4>3. (\E c \in All : c.row = r /\ c["policy"] # F!Value(F!Default))
        BY <1>2, <2>2, <3>1, <4>1, <4>2
      <4> QED BY <2>3, <3>1, <4>1, <4>3 DEF F!Applied
    <3>2. CASE ~F!PolicyChanged(f, r)
      <4>1. /\ Asked(r)["policy"] = F!Value(F!Default)
            /\ F!Value(f.policy[r]) = Containers[r].policy
        BY <2>5, <3>2 DEF F!PolicyChanged
      <4>2. ~(\E c \in All : c.row = r /\ c["policy"] # F!Value(F!Default))
        BY <2>1, <4>1
      <4> QED BY <4>1, <4>2 DEF F!Applied
    <3> QED BY <3>1, <3>2
  <2> QED BY <2>4, <2>5
<1> QED BY <1>3, <1>4 DEF SaysShown, All

LEMMA ImageSubmitKeeps ==
  ASSUME FormsInv, GoodImage(form), F!ImageSubmit PROVE FormsInv'
<1>1. F!Closes \/ F!Sends(F!Changes(form))
  BY DEF F!ImageSubmit
<1> QED BY <1>1, ChangesAreShown, ClosesKeeps, SendsKeeps

LEMMA ImageKeyKeeps ==
  ASSUME FormsInv, NEW key \in F!Bar \cup {"shift+tab"}, F!ImageKey(key) PROVE FormsInv'
<1>1. GoodImage(form)
  BY OpenedIsGood DEF F!ImageKey
<1>2. \/ F!Becomes(F!FocusNext(form))
      \/ F!Becomes(F!FocusPrev(form))
      \/ F!ImageSubmit
      \/ F!Closes
      \/ F!Becomes(F!Cycled(form, -1))
      \/ F!Becomes(F!Cycled(form, 1))
      \/ key \in Button /\ F!Becomes(F!ToButton(form, key))
  BY DEF F!ImageKey, F!Bar, Button
<1>3. ASSUME key \in Button, F!Becomes(F!ToButton(form, key)) PROVE FormsInv'
  <2> DEFINE f == [form EXCEPT !.button = key]
  <2>1. form \in ImageRecord(form.panel) /\ GoodPanel(form.panel, ImageInputs) /\ Focused(form)
    BY <1>1, GoodImageSays
  <2>2. /\ f \in ImageRecord(form.panel) /\ f.panel = form.panel /\ f.input = form.input
        /\ f.kindOf = form.kindOf /\ f.lit = form.lit /\ f.row = form.row
    BY <1>3, <2>1 DEF ImageRecord
  <2>3. F!Becomes(F!Footer(f))
    BY <1>3 DEF F!ToButton
  <2> HIDE DEF f
  <2>4. Focused(f)
    BY <2>1, <2>2 DEF Focused
  <2>5. GoodImage(F!Footer(f))
    BY <2>1, <2>2, <2>4, ImageFooterGood
  <2> QED BY <2>3, <2>5, BecomesKeeps DEF GoodForm
<1>4. GoodImage(F!FocusNext(form)) /\ GoodImage(F!FocusPrev(form))
  BY <1>1, FocusNextGood, FocusPrevGood
<1>5. GoodImage(F!Cycled(form, -1)) /\ GoodImage(F!Cycled(form, 1))
  BY <1>1, CycledGood
<1> QED BY <1>1, <1>2, <1>3, <1>4, <1>5, ImageSubmitKeeps, ClosesKeeps, BecomesKeeps DEF GoodForm

-----------------------------------------------------------------------------
LEMMA FormsInitInv == ASSUME F!Init PROVE FormsInv
<1>1. given \in Seq(Int)
  BY FormsAssumption DEF F!Init
<1> QED BY <1>1 DEF F!Init, FormsInv, IsList, F!SentIsShown

LEMMA FormsKeep == ASSUME FormsInv, [F!Next]_F!vars PROVE FormsInv'
<1>1. CASE UNCHANGED F!vars
  BY <1>1 DEF F!vars, FormsInv, F!SentIsShown
<1>2. CASE \E n \in 0..MaxReplicas : F!OpenScale(n)
  BY <1>2, OpenScaleKeeps, FormsAssumption
<1>3. CASE \/ \E d \in {-1, 1} : F!PickerMove(d)
           \/ \E d \in {-1, 1} : F!ForwardMove(d)
           \/ \E d \in {-1, 1} : F!ScaleMove(d)
  BY <1>3, PickerMoveKeeps, ForwardMoveKeeps, ScaleMoveKeeps
<1>4. CASE \/ \E fuzzy \in BOOLEAN : F!OpenPicker(fuzzy)
           \/ \E items \in ItemLists : F!Given(items)
           \/ \E q \in F!Texts : F!PickerType(q)
           \/ F!PickerEnter
  BY <1>4, OpenPickerKeeps, GivenKeeps, PickerTypeKeeps, PickerEnterKeeps
<1>5. CASE \/ F!OpenForward
           \/ \E q \in F!Texts, t \in PortTexts : F!ForwardType(q, t)
           \/ \E key \in F!Bar : F!ForwardKey(key)
  BY <1>5, OpenForwardKeeps, ForwardTypeKeeps, ForwardKeyKeeps
<1>6. CASE \/ \E n \in Counts : F!ScaleType(n)
           \/ \E key \in F!Bar : F!ScaleKey(key)
           \/ \E ref \in F!Texts : F!OpenChart(ref)
           \/ \E ref \in F!Texts : F!ChartType(ref)
           \/ F!ChartEnter
           \/ F!Escape
  BY <1>6, ScaleTypeKeeps, ScaleKeyKeeps, OpenChartKeeps, ChartTypeKeeps, ChartEnterKeeps,
     EscapeKeeps
<1>7. CASE \/ F!OpenImage
           \/ \E v \in Images \cup {NoImage} : F!ImageType(v)
           \/ \E key \in F!Bar \cup {"shift+tab"} : F!ImageKey(key)
  BY <1>7, OpenImageKeeps, ImageTypeKeeps, ImageKeyKeeps
<1> QED BY <1>1, <1>2, <1>3, <1>4, <1>5, <1>6, <1>7 DEF F!Next

\* The focus that is drawn follows from the shape of a dialog.
LEMMA GoodFormIsDrawn == ASSUME FormsInv PROVE F!FocusIsDrawn
<1> SUFFICES ASSUME form # Absent PROVE F!FocusIsDrawn
  BY DEF F!FocusIsDrawn
<1>1. GoodForm(form, given)
  BY DEF FormsInv
<1>2. CursorInView(form.panel)
  BY <1>1 DEF GoodForm, GoodPicker, GoodForward, GoodScale, GoodImage, GoodChart, GoodPanel
<1>3. /\ \/ F!Drawn(form) = F!Keys(form)
         \/ /\ form.kind = "forward" /\ form.footer = "invalid"
            /\ F!Drawn(form).inputs = F!Keys(form).inputs
      /\ form.kind = "image" =>
           form.panel.on = IF form.kindOf = "image" THEN {form.row} ELSE {}
  <2>1. CASE GoodPicker(form, given) \/ GoodChart(form)
    BY <2>1 DEF GoodPicker, GoodChart, F!Drawn, F!Keys, F!List
  <2>2. CASE GoodForward(form)
    BY <2>2 DEF GoodForward, Footed, F!Drawn, F!Keys, F!List
  <2>3. CASE GoodScale(form)
    BY <2>3 DEF GoodScale, Footed, F!Drawn, F!Keys, F!List
  <2>4. CASE GoodImage(form)
    <3>1. form.row # 0
      BY <2>4, RowsAreInputs DEF GoodImage
    <3> QED BY <2>4, <3>1 DEF GoodImage, Footed, F!Drawn, F!Keys, F!List
  <2> QED BY <1>1, <2>1, <2>2, <2>3, <2>4 DEF GoodForm
<1> QED BY <1>2, <1>3 DEF F!FocusIsDrawn, CursorInView

LEMMA StepOfForms ==
  ASSUME [ToolsNext]_toolsVars, part = "forms"
  PROVE  [F!Next]_F!vars /\ part' = part
<1>1. CASE UNCHANGED toolsVars
  BY <1>1, ZenonT(30) DEF toolsVars, formsVars, F!vars
<1>2. CASE ToolsNext
  BY <1>2 DEF ToolsNext, TerminalsStep, SearchBarStep, FormsStep, PortForwardsStep, NoticesStep,
              EditsStep, CatalogStep, KeysStep, F!Next
<1> QED BY <1>1, <1>2

FormsPart == part = "forms" => FormsInv

\* The text cursor, the lit policy and the lit button are where the next key goes, after
\* any walk through any dialog, the list's cursor is on an item that is drawn, and what a
\* dialog sends is what it showed (Picker, PortForwardOverlay, ScaleOverlay,
\* SetImageOverlay, OverlayPanel).
THEOREM DialogsStayTrue == ToolsSpec => []DialogsAreTrue
<1>1. ToolsInit => FormsPart
  BY FormsInitInv DEF ToolsInit, FormsPart
<1>2. FormsPart /\ [ToolsNext]_toolsVars => FormsPart'
  BY StepOfForms, PartStays, FormsKeep DEF FormsPart
<1>3. FormsPart => DialogsAreTrue
  BY GoodFormIsDrawn DEF FormsPart, DialogsAreTrue, FormsInv
<1> QED BY <1>1, <1>2, <1>3, PTL DEF ToolsSpec

\* Two short texts, one below the other.
LEMMA ConcatIs ==
  ASSUME NEW S, NEW p \in Seq(S), NEW r \in Seq(S), NEW t \in Seq(S),
         Len(t) = Len(p) + Len(r),
         \A i \in 1..Len(p) : t[i] = p[i],
         \A i \in 1..Len(r) : t[Len(p) + i] = r[i]
  PROVE  p \o r = t
<1> DEFINE u == p \o r
<1>1. /\ u \in Seq(S) /\ Len(u) = Len(p) + Len(r)
      /\ \A i \in 1..Len(p) + Len(r) : u[i] = IF i <= Len(p) THEN p[i] ELSE r[i - Len(p)]
  BY ConcatProperties
<1> HIDE DEF u
<1>2. Len(p) \in Nat /\ Len(r) \in Nat
  BY LenProperties
<1>3. ASSUME NEW i \in 1..Len(u) PROVE u[i] = t[i]
  <2>1. CASE i <= Len(p)
    BY <1>1, <1>2, <2>1
  <2>2. CASE ~(i <= Len(p))
    <3>1. i - Len(p) \in 1..Len(r) /\ Len(p) + (i - Len(p)) = i
      BY <1>1, <1>2, <2>2
    <3>2. t[Len(p) + (i - Len(p))] = r[i - Len(p)]
      BY <3>1
    <3> QED BY <1>1, <2>2, <3>1, <3>2
  <2> QED BY <2>1, <2>2
<1>4. u = t
  BY <1>1, <1>3, SeqEqual
<1> QED BY <1>4 DEF u

LEMMA PairAndOne ==
  ASSUME NEW a, NEW b, NEW x
  PROVE  <<a, b>> \o <<x>> = <<a, b, x>>
<1> DEFINE S == {a, b, x}
           p == <<a, b>>
           r == <<x>>
           t == <<a, b, x>>
<1>1. p \in Seq(S) /\ r \in Seq(S) /\ t \in Seq(S) /\ Len(p) = 2 /\ Len(r) = 1 /\ Len(t) = 3
  OBVIOUS
<1>2. \A i \in 1..Len(p) : t[i] = p[i]
  <2>1. Len(p) = 2 /\ t[1] = p[1] /\ t[2] = p[2]
    OBVIOUS
  <2> HIDE DEF p, t
  <2> QED BY <2>1
<1>3. \A i \in 1..Len(r) : t[Len(p) + i] = r[i]
  <2>1. Len(p) = 2 /\ Len(r) = 1 /\ t[3] = r[1]
    OBVIOUS
  <2> HIDE DEF p, r, t
  <2> QED BY <2>1
<1>4. Len(t) = Len(p) + Len(r)
  BY <1>1
<1> HIDE DEF S, p, r, t
<1>5. p \o r = t
  BY <1>1, <1>2, <1>3, <1>4, ConcatIs
<1> QED BY <1>5 DEF p, r, t

LEMMA PairAndPair ==
  ASSUME NEW a, NEW b, NEW x, NEW y
  PROVE  <<a, b>> \o <<x, y>> = <<a, b, x, y>>
<1> DEFINE S == {a, b, x, y}
           p == <<a, b>>
           r == <<x, y>>
           t == <<a, b, x, y>>
<1>1. p \in Seq(S) /\ r \in Seq(S) /\ t \in Seq(S) /\ Len(p) = 2 /\ Len(r) = 2 /\ Len(t) = 4
  OBVIOUS
<1>2. \A i \in 1..Len(p) : t[i] = p[i]
  <2>1. Len(p) = 2 /\ t[1] = p[1] /\ t[2] = p[2]
    OBVIOUS
  <2> HIDE DEF p, t
  <2> QED BY <2>1
<1>3. \A i \in 1..Len(r) : t[Len(p) + i] = r[i]
  <2>1. Len(p) = 2 /\ Len(r) = 2 /\ t[3] = r[1] /\ t[4] = r[2]
    OBVIOUS
  <2> HIDE DEF p, r, t
  <2> QED BY <2>1
<1>4. Len(t) = Len(p) + Len(r)
  BY <1>1
<1> HIDE DEF S, p, r, t
<1>5. p \o r = t
  BY <1>1, <1>2, <1>3, <1>4, ConcatIs
<1> QED BY <1>5 DEF p, r, t

LEMMA PairAndThree ==
  ASSUME NEW a, NEW b, NEW x, NEW y, NEW z
  PROVE  <<a, b>> \o <<x, y, z>> = <<a, b, x, y, z>>
<1> DEFINE S == {a, b, x, y, z}
           p == <<a, b>>
           r == <<x, y, z>>
           t == <<a, b, x, y, z>>
<1>1. p \in Seq(S) /\ r \in Seq(S) /\ t \in Seq(S) /\ Len(p) = 2 /\ Len(r) = 3 /\ Len(t) = 5
  OBVIOUS
<1>2. \A i \in 1..Len(p) : t[i] = p[i]
  <2>1. Len(p) = 2 /\ t[1] = p[1] /\ t[2] = p[2]
    OBVIOUS
  <2> HIDE DEF p, t
  <2> QED BY <2>1
<1>3. \A i \in 1..Len(r) : t[Len(p) + i] = r[i]
  <2>1. Len(p) = 2 /\ Len(r) = 3 /\ t[3] = r[1] /\ t[4] = r[2] /\ t[5] = r[3]
    OBVIOUS
  <2> HIDE DEF p, r, t
  <2> QED BY <2>1
<1>4. Len(t) = Len(p) + Len(r)
  BY <1>1
<1> HIDE DEF S, p, r, t
<1>5. p \o r = t
  BY <1>1, <1>2, <1>3, <1>4, ConcatIs
<1> QED BY <1>5 DEF p, r, t

LEMMA PairAndLast ==
  ASSUME NEW x, NEW y, NEW z
  PROVE  Append(<<x, y>>, z) = <<x, y, z>>
<1> DEFINE S == {x, y, z}
           p == <<x, y>>
           r == <<z>>
           t == <<x, y, z>>
<1>1. p \in Seq(S) /\ r \in Seq(S) /\ t \in Seq(S) /\ Len(p) = 2 /\ Len(r) = 1 /\ Len(t) = 3
  OBVIOUS
<1>2. \A i \in 1..Len(p) : t[i] = p[i]
  <2>1. Len(p) = 2 /\ t[1] = p[1] /\ t[2] = p[2]
    OBVIOUS
  <2> HIDE DEF p, t
  <2> QED BY <2>1
<1>3. \A i \in 1..Len(r) : t[Len(p) + i] = r[i]
  <2>1. Len(p) = 2 /\ Len(r) = 1 /\ t[3] = r[1]
    OBVIOUS
  <2> HIDE DEF p, r, t
  <2> QED BY <2>1
<1>4. Len(t) = Len(p) + Len(r)
  BY <1>1
<1>5. Append(p, z) = p \o r
  BY <1>1, AppendIsConcat
<1> HIDE DEF S, p, r, t
<1>6. p \o r = t
  BY <1>1, <1>2, <1>3, <1>4, ConcatIs
<1> QED BY <1>5, <1>6 DEF p, r, t

LEMMA FourAndLast ==
  ASSUME NEW a, NEW b, NEW x, NEW y, NEW z
  PROVE  Append(<<a, b, x, y>>, z) = <<a, b, x, y, z>>
<1> DEFINE S == {a, b, x, y, z}
           p == <<a, b, x, y>>
           r == <<z>>
           t == <<a, b, x, y, z>>
<1>1. p \in Seq(S) /\ r \in Seq(S) /\ t \in Seq(S) /\ Len(p) = 4 /\ Len(r) = 1 /\ Len(t) = 5
  OBVIOUS
<1>2. \A i \in 1..Len(p) : t[i] = p[i]
  <2>1. Len(p) = 4 /\ t[1] = p[1] /\ t[2] = p[2] /\ t[3] = p[3] /\ t[4] = p[4]
    OBVIOUS
  <2> HIDE DEF p, t
  <2> QED BY <2>1
<1>3. \A i \in 1..Len(r) : t[Len(p) + i] = r[i]
  <2>1. Len(p) = 4 /\ Len(r) = 1 /\ t[5] = r[1]
    OBVIOUS
  <2> HIDE DEF p, r, t
  <2> QED BY <2>1
<1>4. Len(t) = Len(p) + Len(r)
  BY <1>1
<1>5. Append(p, z) = p \o r
  BY <1>1, AppendIsConcat
<1> HIDE DEF S, p, r, t
<1>6. p \o r = t
  BY <1>1, <1>2, <1>3, <1>4, ConcatIs
<1> QED BY <1>5, <1>6 DEF p, r, t

-----------------------------------------------------------------------------
(***************************************************************************)
(* $EDITOR: only what the user changed is sent, and it replaces only what  *)
(* the user saw.  The texts that are opened are those of an object or of   *)
(* values, with or without the two lines of an error on top; stripped of   *)
(* its comments each is the base the edit is compared with.  A version the *)
(* user saw is not younger than the server's, and when it is the server's  *)
(* so is the body (Seen).                                                  *)
(***************************************************************************)

Heads == {<<>>, <<E!Comment, E!Comment>>, <<E!Comment, E!Blank>>}

\* The lines of a kind at the head of a text.
LEMMA AfterSkips ==
  ASSUME NEW L, NEW text \in Seq(L), NEW k, NEW n \in 0..Len(text),
         \A i \in 1..n : text[i].kind = k,
         n < Len(text) => text[n + 1].kind # k
  PROVE  E!After(text, k) = SubSeq(text, n + 1, Len(text))
<1> DEFINE S == {i \in DOMAIN text : \A j \in 1..i : text[j].kind = k}
<1>1. S = 1..n
  <2>1. ASSUME NEW i \in DOMAIN text, i \in S PROVE i \in 1..n
    <3>1. i \in 1..Len(text) /\ \A j \in 1..i : text[j].kind = k
      BY <2>1
    <3>2. CASE i > n
      <4>1. n + 1 \in 1..i /\ n < Len(text)
        BY <3>1, <3>2
      <4> QED BY <3>1, <4>1
    <3> QED BY <3>1, <3>2
  <2>2. ASSUME NEW i \in 1..n PROVE i \in S
    <3>1. i \in DOMAIN text /\ \A j \in 1..i : j \in 1..n
      OBVIOUS
    <3> QED BY <3>1
  <2> QED BY <2>1, <2>2
<1>2. E!Cardinality(S) = Cardinality(S)
  BY DEF E!Cardinality, Cardinality
<1>3. E!After(text, k) = SubSeq(text, 1 + E!Cardinality(S), Len(text))
  BY DEF E!After
<1> HIDE DEF S
<1>4. Cardinality(S) = n
  BY <1>1, FS_Interval
<1>5. 1 + n = n + 1
  OBVIOUS
<1> QED BY <1>2, <1>3, <1>4, <1>5

\* A text that begins with neither a comment nor a blank line is what remains of it, and
\* of it below the comments aku or the user put on top.
LEMMA StripsHead ==
  ASSUME NEW L, NEW c \in Seq(L), c # <<>>, c[1].kind # "comment", c[1].kind # "blank",
         NEW h \in Heads
  PROVE  E!StripComments(h \o c) = c
<1> DEFINE M == L \cup {E!Comment, E!Blank}
           t == h \o c
<1>1. E!Comment.kind = "comment" /\ E!Blank.kind = "blank"
  BY DEF E!Comment, E!Blank, E!Line
<1>2. c \in Seq(M) /\ Len(c) \in Nat \ {0} /\ DOMAIN c = 1..Len(c)
  OBVIOUS
<1>3. h \in Seq(M)
  <2>1. <<>> \in Seq(M)
    OBVIOUS
  <2>2. <<E!Comment, E!Comment>> \in Seq(M) /\ <<E!Comment, E!Blank>> \in Seq(M)
    OBVIOUS
  <2> QED BY <2>1, <2>2 DEF Heads
<1> HIDE DEF M
<1>4. E!After(c, "comment") = c /\ E!After(c, "blank") = c
  <2>1. 0 \in 0..Len(c) /\ c[0 + 1] = c[1] /\ SubSeq(c, 0 + 1, Len(c)) = c
    BY <1>2
  <2>2. \A k : c[1].kind # k => E!After(c, k) = SubSeq(c, 0 + 1, Len(c))
    BY <2>1, AfterSkips
  <2> QED BY <2>1, <2>2
<1>5. CASE h = <<>>
  <2>1. t = c
    BY <1>2, <1>5
  <2> QED BY <1>4, <2>1 DEF E!StripComments
<1>6. CASE h = <<E!Comment, E!Comment>>
  <2>1. t \in Seq(M) /\ Len(t) = Len(c) + 2 /\ t[1] = E!Comment /\ t[2] = E!Comment
        /\ t[2 + 1] = c[1] /\ SubSeq(t, 2 + 1, Len(t)) = c
    BY <1>2, <1>3, <1>6
  <2> HIDE DEF t
  <2>2. /\ 2 \in 0..Len(t) /\ \A i \in 1..2 : t[i].kind = "comment"
        /\ t[2 + 1].kind # "comment"
    BY <1>1, <1>2, <2>1
  <2>3. E!After(t, "comment") = c
    BY <2>1, <2>2, AfterSkips
  <2> QED BY <1>4, <2>3 DEF E!StripComments, t
<1>7. CASE h = <<E!Comment, E!Blank>>
  <2> DEFINE u == <<E!Blank>> \o c
  <2>1. t \in Seq(M) /\ Len(t) = Len(c) + 2 /\ t[1] = E!Comment /\ t[1 + 1] = E!Blank
        /\ SubSeq(t, 1 + 1, Len(t)) = u
    BY <1>2, <1>3, <1>7
  <2>2. u \in Seq(M) /\ Len(u) = Len(c) + 1 /\ u[1] = E!Blank /\ u[1 + 1] = c[1]
        /\ SubSeq(u, 1 + 1, Len(u)) = c
    <3>1. <<E!Blank>> \in Seq(M)
      BY DEF M
    <3> QED BY <1>2, <3>1
  <2> HIDE DEF t, u
  <2>3. E!After(t, "comment") = u
    <3>1. 1 \in 0..Len(t) /\ (\A i \in 1..1 : t[i].kind = "comment") /\ t[1 + 1].kind # "comment"
      BY <1>1, <1>2, <2>1
    <3> QED BY <2>1, <3>1, AfterSkips
  <2>4. E!After(u, "blank") = c
    <3>1. 1 \in 0..Len(u) /\ (\A i \in 1..1 : u[i].kind = "blank") /\ u[1 + 1].kind # "blank"
      BY <1>1, <1>2, <2>2
    <3> QED BY <2>2, <3>1, AfterSkips
  <2> QED BY <2>3, <2>4 DEF E!StripComments, t
<1> QED BY <1>5, <1>6, <1>7 DEF Heads

\* A version the server has had: if it has it still, with that body.
Seen(v, b) ==
    /\ v \in Nat /\ v <= server.version
    /\ v = server.version => b = server.body

Shown(v, b) == <<E!Line("version", v), E!Line("body", b)>>
Spoilt(v, b) == <<E!Line("version", v), E!Line("body", b), E!Broken>>

ObjectIsSeen == base = Shown(base[1].value, base[2].value) /\ Seen(base[1].value, base[2].value)
ValuesAreSeen == base = <<E!Comment>> \/ base = <<E!Line("body", base[1].value)>>
FileShowsBase ==
    /\ base = hash /\ file \in {base, E!FormatErrComment \o base}
    /\ IF kind = "object" THEN ObjectIsSeen ELSE ValuesAreSeen
ChangeIsSent ==
    /\ submitted # hash /\ submitted # <<>>
    /\ kind = "object" /\ E!Has(submitted, "version") =>
         E!The(submitted, "version") = base[1].value

EditsInv ==
    /\ server.version \in Nat /\ Seen(cached.version, cached.body)
    /\ phase # "idle" => FileShowsBase
    /\ phase = "sending" => ChangeIsSent

\* The version of a text, and its body, are what it says.
LEMMA ShownSays ==
  ASSUME NEW v, NEW b, NEW t \in {Shown(v, b), Spoilt(v, b)}
  PROVE  /\ E!Has(t, "version") /\ E!The(t, "version") = v
         /\ E!Has(t, "body") /\ E!The(t, "body") = b
<1>1. /\ 1 \in DOMAIN t /\ t[1] = E!Line("version", v)
      /\ 2 \in DOMAIN t /\ t[2] = E!Line("body", b)
      /\ \A i \in DOMAIN t : i = 1 \/ i = 2 \/ t[i] = E!Broken
  BY DEF Shown, Spoilt
<1>2. \A k, w : E!Line(k, w).kind = k /\ E!Line(k, w).value = w
  BY DEF E!Line
<1>3. E!Broken.kind = "broken"
  BY <1>2 DEF E!Broken
<1>4. \A i \in DOMAIN t : t[i].kind = "version" <=> i = 1
  BY <1>1, <1>2, <1>3
<1>5. \A i \in DOMAIN t : t[i].kind = "body" <=> i = 2
  BY <1>1, <1>2, <1>3
<1>6. (CHOOSE i \in DOMAIN t : t[i].kind = "version") = 1
  BY <1>1, <1>4
<1>7. (CHOOSE i \in DOMAIN t : t[i].kind = "body") = 2
  BY <1>1, <1>5
<1> QED BY <1>1, <1>2, <1>4, <1>5, <1>6, <1>7 DEF E!Has, E!The

\* What remains of such a text below the comments on top is the text.
LEMMA ShownStrips ==
  ASSUME NEW v, NEW b, NEW t \in {Shown(v, b), Spoilt(v, b)}, NEW h \in Heads
  PROVE  E!StripComments(h \o t) = t
<1> DEFINE L == {E!Line("version", v), E!Line("body", b), E!Broken}
<1>1. t \in Seq(L) /\ t # <<>> /\ t[1] = E!Line("version", v)
  <2>1. Shown(v, b) \in Seq(L) /\ Shown(v, b) # <<>> /\ Shown(v, b)[1] = E!Line("version", v)
    BY DEF Shown
  <2>2. Spoilt(v, b) \in Seq(L) /\ Spoilt(v, b) # <<>> /\ Spoilt(v, b)[1] = E!Line("version", v)
    BY DEF Spoilt
  <2> QED BY <2>1, <2>2
<1>2. t[1].kind = "version"
  BY <1>1 DEF E!Line
<1> HIDE DEF L
<1> QED BY <1>1, <1>2, StripsHead

LEMMA NothingStrips ==
  E!After(<<>>, "comment") = <<>> /\ E!After(<<>>, "blank") = <<>> /\ E!StripComments(<<>>) = <<>>
<1> DEFINE n == 0
           t == <<>>
<1>1. t \in Seq({}) /\ Len(t) = 0 /\ SubSeq(t, n + 1, Len(t)) = t /\ n \in 0..Len(t) /\ 1..n = {}
  OBVIOUS
<1> HIDE DEF t, n
<1>2. \A k : E!After(t, k) = SubSeq(t, n + 1, Len(t))
  <2> TAKE k
  <2>1. (\A i \in 1..n : t[i].kind = k) /\ ~(n < Len(t))
    BY <1>1 DEF n
  <2> QED BY <1>1, <2>1, AfterSkips
<1>3. \A k : E!After(t, k) = t
  BY <1>1, <1>2
<1> QED BY <1>3 DEF E!StripComments, t

\* Values that are nothing but comments are nothing.
LEMMA CommentsStrip ==
  ASSUME NEW h \in {<<>>, E!FormatErrComment}
  PROVE  E!StripComments(h \o <<E!Comment>>) = <<>>
<1> DEFINE M == {E!Comment}
           t == h \o <<E!Comment>>
           n == Len(t)
<1>1. t \in Seq(M) /\ n \in 0..Len(t) /\ \A i \in 1..n : t[i] = E!Comment
  <2>1. t = <<E!Comment>> \/ t = <<E!Comment, E!Comment, E!Comment>>
    <3>1. CASE h = <<>>
      BY <3>1
    <3>2. CASE h = <<E!Comment, E!Comment>>
      BY <3>2, PairAndOne
    <3> QED BY <3>1, <3>2 DEF E!FormatErrComment
  <2>2. t \in Seq(M)
    <3>1. <<E!Comment>> \in Seq(M) /\ <<E!Comment, E!Comment, E!Comment>> \in Seq(M)
      OBVIOUS
    <3> QED BY <2>1, <3>1
  <2> HIDE DEF t
  <2>3. \A i \in 1..n : t[i] \in M
    BY <2>2
  <2>4. n \in 0..n
    BY <2>2
  <2> QED BY <2>2, <2>3, <2>4
<1>2. E!Comment.kind = "comment"
  BY DEF E!Comment, E!Line
<1>3. SubSeq(t, n + 1, Len(t)) = <<>>
  BY <1>1
<1> HIDE DEF M, t, n
<1>4. ~(n < Len(t)) /\ \A i \in 1..n : t[i].kind = "comment"
  BY <1>1, <1>2 DEF n
<1>5. E!After(t, "comment") = <<>>
  BY <1>1, <1>3, <1>4, AfterSkips
<1> QED BY <1>5, NothingStrips DEF E!StripComments, t

\* Nor does a body alone lose anything.
LEMMA BodyStrips ==
  ASSUME NEW b, NEW h \in Heads
  PROVE  /\ E!StripComments(h \o <<E!Line("body", b)>>) = <<E!Line("body", b)>>
         /\ E!StripComments(<<E!Line("body", b)>>) = <<E!Line("body", b)>>
<1> DEFINE L == {E!Line("body", b)}
           t == <<E!Line("body", b)>>
<1>1. t \in Seq(L) /\ t # <<>> /\ t[1] = E!Line("body", b) /\ <<>> \o t = t
  OBVIOUS
<1>2. t[1].kind = "body"
  BY <1>1 DEF E!Line
<1>3. <<>> \in Heads
  BY DEF Heads
<1> HIDE DEF L, t
<1>4. E!StripComments(h \o t) = t /\ E!StripComments(<<>> \o t) = t
  BY <1>1, <1>2, <1>3, StripsHead
<1> QED BY <1>1, <1>4 DEF t

\* What the file shows below its comments is what the edit is compared with, or nothing.
LEMMA FileStrips ==
  ASSUME FileShowsBase
  PROVE  E!StripComments(file) = hash \/ E!StripComments(file) = <<>>
<1>1. PICK h \in {<<>>, E!FormatErrComment} : file = h \o base
  <2>1. CASE file = base
    <3>1. base = <<>> \o base
      <4>1. CASE kind = "object"
        BY <4>1 DEF FileShowsBase, ObjectIsSeen, Shown
      <4>2. CASE kind # "object"
        BY <4>2 DEF FileShowsBase, ValuesAreSeen
      <4> QED BY <4>1, <4>2
    <3> QED BY <2>1, <3>1
  <2>2. CASE file # base
    BY <2>2 DEF FileShowsBase
  <2> QED BY <2>1, <2>2
<1>2. h \in Heads
  BY DEF Heads, E!FormatErrComment
<1>3. CASE kind = "object"
  BY <1>1, <1>2, <1>3, ShownStrips DEF FileShowsBase, ObjectIsSeen
<1>4. CASE base = <<E!Comment>>
  BY <1>1, <1>4, CommentsStrip
<1>5. CASE kind # "object" /\ base = <<E!Line("body", base[1].value)>>
  <2>1. E!StripComments(h \o base) = base
    BY <1>2, <1>5, BodyStrips
  <2> QED BY <1>1, <2>1 DEF FileShowsBase
<1> QED BY <1>3, <1>4, <1>5 DEF FileShowsBase, ValuesAreSeen

\* Whatever the user leaves of an object's text is nothing, or says its version, or none.
LEMMA TypedSaysVersion ==
  ASSUME FileShowsBase, kind = "object", NEW text \in E!Typed
  PROVE  \/ E!StripComments(text) = <<>>
         \/ ~E!Has(E!StripComments(text), "version")
         \/ \E b : E!StripComments(text) \in {Shown(base[1].value, b), Spoilt(base[1].value, b)}
<1> DEFINE v == base[1].value
           w == base[2].value
           cs == {Shown(v, b) : b \in Bodies \cup {w}} \cup {Spoilt(v, b) : b \in {w}}
           texts == {file, Append(file, E!Broken)} \cup {E!Retyped(file, body) : body \in Bodies}
<1>1. PICK h \in {<<>>, E!FormatErrComment} : file = h \o Shown(v, w)
  <2>1. base = Shown(v, w) /\ file \in {base, E!FormatErrComment \o base}
    BY DEF FileShowsBase, ObjectIsSeen
  <2>2. Shown(v, w) = <<>> \o Shown(v, w)
    BY DEF Shown
  <2> QED BY <2>1, <2>2
<1>2. h \in Heads
  BY DEF Heads, E!FormatErrComment
<1>3. Append(file, E!Broken) = h \o Spoilt(v, w)
  <2>1. CASE h = <<>>
    <3>1. file = <<E!Line("version", v), E!Line("body", w)>>
      BY <1>1, <2>1 DEF Shown
    <3>2. Append(file, E!Broken) = Spoilt(v, w)
      BY <3>1, PairAndLast DEF Spoilt
    <3>3. <<>> \o Spoilt(v, w) = Spoilt(v, w)
      BY DEF Spoilt
    <3> QED BY <2>1, <3>2, <3>3
  <2>2. CASE h = <<E!Comment, E!Comment>>
    <3>1. file = <<E!Comment, E!Comment, E!Line("version", v), E!Line("body", w)>>
      BY <1>1, <2>2, PairAndPair DEF Shown
    <3>2. Append(file, E!Broken)
            = <<E!Comment, E!Comment, E!Line("version", v), E!Line("body", w), E!Broken>>
      BY <3>1, FourAndLast
    <3> QED BY <2>2, <3>2, PairAndThree DEF Spoilt
  <2> QED BY <2>1, <2>2 DEF E!FormatErrComment
<1>4. ASSUME NEW body \in Bodies
      PROVE  E!Retyped(file, body) = h \o Shown(v, body)
  <2> DEFINE At(i) == IF file[i].kind = "body" THEN E!Line("body", body) ELSE file[i]
  <2>1. E!Comment.kind = "comment" /\ \A k, x : E!Line(k, x).kind = k
    BY DEF E!Comment, E!Line
  <2>2. CASE h = <<>>
    <3>1. file = <<E!Line("version", v), E!Line("body", w)>>
      BY <1>1, <2>2 DEF Shown
    <3>2. DOMAIN file = 1..2 /\ file[1] = E!Line("version", v) /\ file[2] = E!Line("body", w)
      BY <3>1
    <3>3. At(1) = E!Line("version", v) /\ At(2) = E!Line("body", body)
      BY <2>1, <3>2
    <3>4. E!Has(file, "body")
      BY <2>1, <3>2 DEF E!Has
    <3>5. E!Retyped(file, body) = [i \in 1..2 |-> At(i)]
      BY <3>2, <3>4 DEF E!Retyped
    <3> HIDE DEF At
    <3>6. [i \in 1..2 |-> At(i)] = <<E!Line("version", v), E!Line("body", body)>>
      BY <3>3
    <3> QED BY <2>2, <3>5, <3>6 DEF Shown
  <2>3. CASE h = <<E!Comment, E!Comment>>
    <3>1. file = <<E!Comment, E!Comment, E!Line("version", v), E!Line("body", w)>>
      BY <1>1, <2>3, PairAndPair DEF Shown
    <3>2. /\ DOMAIN file = 1..4 /\ file[1] = E!Comment /\ file[2] = E!Comment
          /\ file[3] = E!Line("version", v) /\ file[4] = E!Line("body", w)
      BY <3>1
    <3>3. /\ At(1) = E!Comment /\ At(2) = E!Comment
          /\ At(3) = E!Line("version", v) /\ At(4) = E!Line("body", body)
      BY <2>1, <3>2
    <3>4. E!Has(file, "body")
      BY <2>1, <3>2 DEF E!Has
    <3>5. E!Retyped(file, body) = [i \in 1..4 |-> At(i)]
      BY <3>2, <3>4 DEF E!Retyped
    <3> HIDE DEF At
    <3>6. [i \in 1..4 |-> At(i)]
            = <<E!Comment, E!Comment, E!Line("version", v), E!Line("body", body)>>
      BY <3>3
    <3> QED BY <2>3, <3>5, <3>6 DEF Shown
  <2> QED BY <2>2, <2>3 DEF E!FormatErrComment
<1>5. ASSUME NEW t \in texts
      PROVE  \E b : E!StripComments(t) \in {Shown(v, b), Spoilt(v, b)}
  <2>1. PICK b : t = h \o Shown(v, b) \/ t = h \o Spoilt(v, b)
    BY <1>1, <1>3, <1>4
  <2> QED BY <1>2, <2>1, ShownStrips
<1>6. ASSUME NEW t \in texts, text = <<E!Comment, E!Blank>> \o E!StripComments(t)
      PROVE  \E b : E!StripComments(text) \in {Shown(v, b), Spoilt(v, b)}
  <2>1. <<E!Comment, E!Blank>> \in Heads
    BY DEF Heads
  <2> QED BY <1>5, <1>6, <2>1, ShownStrips
<1>7. ASSUME NEW t \in texts, text = E!StripComments(t)
      PROVE  \E b : E!StripComments(text) \in {Shown(v, b), Spoilt(v, b)}
  <2>1. PICK b : text \in {Shown(v, b), Spoilt(v, b)}
    BY <1>5, <1>7
  <2>2. text = <<>> \o text
    BY <2>1 DEF Shown, Spoilt
  <2>3. <<>> \in Heads
    BY DEF Heads
  <2> QED BY <2>1, <2>2, <2>3, ShownStrips
<1>8. CASE text = <<>>
  BY <1>8, NothingStrips
<1>10. ASSUME NEW body \in Bodies, text = <<E!Line("body", body)>>
       PROVE  ~E!Has(E!StripComments(text), "version")
  <2>1. E!StripComments(text) = text
    <3>1. <<>> \in Heads
      BY DEF Heads
    <3> QED BY <1>10, <3>1, BodyStrips
  <2>2. E!Line("body", body).kind = "body"
    BY DEF E!Line
  <2> QED BY <1>10, <2>1, <2>2 DEF E!Has
<1>9. \/ text = <<>> \/ text \in texts
      \/ \E body \in Bodies : text = <<E!Line("body", body)>>
      \/ \E t \in texts : text = E!StripComments(t)
      \/ \E t \in texts : text = <<E!Comment, E!Blank>> \o E!StripComments(t)
  BY DEF E!Typed, E!Unversioned
<1> QED BY <1>5, <1>6, <1>7, <1>8, <1>9, <1>10

LEMMA EditsBegin == ASSUME E!Init PROVE EditsInv
<1>1. PICK b \in Bodies : server = [version |-> 1, body |-> b, by |-> "other"]
  BY DEF E!Init
<1>2. server.version = 1 /\ cached = server /\ phase = "idle"
  BY <1>1 DEF E!Init
<1> QED BY <1>2 DEF EditsInv, Seen

\* A write makes what was seen older, and a read of the server is of its version.
LEMMA EditsWriteKeeps ==
  ASSUME EditsInv, server'.version = server.version + 1,
         UNCHANGED <<kind, cached, base, hash>>,
         \/ UNCHANGED <<phase, file, submitted>>
         \/ phase # "idle" /\ phase' = "idle"
         \/ phase # "idle" /\ phase' = "editing" /\ file' = E!FormatErrComment \o base
         \/ phase # "idle" /\ phase' = "refetching" /\ file' = file
  PROVE  EditsInv'
<1>1. server.version \in Nat /\ server'.version \in Nat
  BY DEF EditsInv
<1>2. ASSUME NEW v, NEW b, Seen(v, b) PROVE Seen(v, b)'
  BY <1>1, <1>2 DEF Seen
<1>3. Seen(cached.version, cached.body)'
  BY <1>2 DEF EditsInv
<1>4. phase # "idle" => base = hash /\ (IF kind = "object" THEN ObjectIsSeen ELSE ValuesAreSeen)'
  BY <1>2 DEF EditsInv, FileShowsBase, ObjectIsSeen, ValuesAreSeen
<1>5. (phase # "idle" => FileShowsBase)'
  BY <1>4 DEF EditsInv, FileShowsBase
<1>6. (phase = "sending" => ChangeIsSent)'
  BY DEF EditsInv, ChangeIsSent
<1> QED BY <1>1, <1>3, <1>5, <1>6 DEF EditsInv

\* Opening a text that was read from the server or from the list.
LEMMA OpeningKeeps ==
  ASSUME EditsInv, UNCHANGED <<server, cached>>, phase' = "editing",
         NEW text, E!Based(text), file' \in {text, E!FormatErrComment \o text},
         \/ kind' = "object" /\ \E v, b : Seen(v, b) /\ text = Shown(v, b)
         \/ kind' # "object" /\ \E b : text = E!marshalValues(b)
  PROVE  EditsInv'
<1>1. base' = text /\ hash' = text
  BY DEF E!Based
<1>2. Seen(cached.version, cached.body)'
  BY DEF EditsInv, Seen
<1>3. CASE kind' = "object"
  <2>1. PICK v, b : Seen(v, b) /\ text = Shown(v, b)
    BY <1>3
  <2>2. text[1].value = v /\ text[2].value = b
    BY <2>1 DEF Shown, E!Line
  <2>3. ObjectIsSeen'
    BY <1>1, <2>1, <2>2 DEF ObjectIsSeen, Seen
  <2> QED BY <1>1, <1>2, <1>3, <2>3 DEF EditsInv, FileShowsBase
<1>4. CASE kind' # "object"
  <2>1. PICK b : text = E!marshalValues(b)
    BY <1>4
  <2>2. text = <<E!Comment>> \/ text = <<E!Line("body", b)>>
    BY <2>1 DEF E!marshalValues
  <2>3. text = <<E!Line("body", b)>> => text[1].value = b
    BY DEF E!Line
  <2>4. ValuesAreSeen'
    BY <1>1, <2>2, <2>3 DEF ValuesAreSeen
  <2> QED BY <1>1, <1>2, <1>4, <2>4 DEF EditsInv, FileShowsBase
<1> QED BY <1>3, <1>4

LEMMA ReadServer ==
  ASSUME EditsInv
  PROVE  /\ Seen(server.version, server.body)
         /\ E!marshalForEdit(server) = Shown(server.version, server.body)
         /\ E!marshalForEdit(cached) = Shown(cached.version, cached.body)
BY DEF EditsInv, Seen, Shown, E!marshalForEdit

\* What is sent is a change, and of an object one of the version that was shown.
LEMMA SendKeeps == ASSUME EditsInv, NEW text \in E!Typed, E!Send(text) PROVE EditsInv'
<1> DEFINE t == E!StripComments(text)
<1>1. /\ phase = "editing" /\ phase' = "sending" /\ submitted' = t /\ t # <<>> /\ t # hash
      /\ UNCHANGED <<kind, server, cached, base, hash, file>>
  BY DEF E!Send, E!Cancels
<1>2. FileShowsBase
  BY <1>1 DEF EditsInv
<1>3. ASSUME kind = "object", E!Has(t, "version") PROVE E!The(t, "version") = base[1].value
  BY <1>1, <1>2, <1>3, TypedSaysVersion, ShownSays
<1> HIDE DEF t
<1>4. ChangeIsSent'
  BY <1>1, <1>3 DEF ChangeIsSent, E!Has, E!The
<1>5. FileShowsBase'
  BY <1>1, <1>2 DEF FileShowsBase, ObjectIsSeen, ValuesAreSeen, Seen
<1> QED BY <1>1, <1>4, <1>5 DEF EditsInv, Seen

\* Steps that keep what the edit is based on, and open the text again, send nothing.
LEMMA ReopeningKeeps ==
  ASSUME EditsInv, phase # "idle", UNCHANGED <<kind, server, cached, base, hash>>,
         phase' \in {"idle", "editing", "refetching"},
         file' \in {file, E!FormatErrComment \o base}
  PROVE  EditsInv'
<1>1. FileShowsBase'
  BY DEF EditsInv, FileShowsBase, ObjectIsSeen, ValuesAreSeen, Seen
<1> QED BY <1>1 DEF EditsInv, Seen

LEMMA EditsNextKeeps == ASSUME EditsInv, [E!Next]_E!vars PROVE EditsInv'
<1>1. CASE UNCHANGED E!vars
  BY <1>1 DEF E!vars, EditsInv, FileShowsBase, ObjectIsSeen, ValuesAreSeen, ChangeIsSent, Seen,
              E!Has, E!The
<1>2. CASE E!EditObject
  BY <1>2, ReadServer, OpeningKeeps DEF E!EditObject, E!Opened, EditsInv
<1>3. CASE E!EditValues
  <2>1. CASE phase' = "editing"
    BY <1>3, <2>1, OpeningKeeps DEF E!EditValues, E!Opened, E!Finished
  <2>2. CASE phase' = "idle"
    BY <1>3, <2>2 DEF E!EditValues, EditsInv, Seen
  <2> QED BY <1>3, <2>1, <2>2 DEF E!EditValues, E!Opened, E!Finished
<1>4. CASE E!EditorFails
  BY <1>4, ReopeningKeeps DEF E!EditorFails, E!Finished
<1>5. ASSUME NEW text \in E!Typed, E!Cancel(text) PROVE EditsInv'
  BY <1>5, ReopeningKeeps DEF E!Cancel, E!Finished
<1>6. ASSUME NEW text \in E!Typed, E!Misparse(text) PROVE EditsInv'
  BY <1>6, ReopeningKeeps DEF E!Misparse, E!Reopened, E!Opened
<1>7. ASSUME NEW text \in E!Typed, E!Send(text) PROVE EditsInv'
  BY <1>7, SendKeeps
<1>8. CASE E!Update
  BY <1>8, EditsWriteKeeps DEF E!Update, E!Taken, E!Finished, E!Reopened, E!Opened
<1>9. CASE E!Refuse
  BY <1>9, ReopeningKeeps DEF E!Refuse, E!Reopened, E!Opened
<1>10. CASE E!Refetch
  <2>1. CASE E!Based(E!Marshal(server)) /\ E!Reopened(E!Marshal(server))
    BY <1>10, <2>1, ReadServer, OpeningKeeps
       DEF E!Refetch, E!Reopened, E!Opened, E!Marshal
  <2>2. CASE E!Reopened(base) /\ UNCHANGED <<base, hash>>
    BY <1>10, <2>2, ReopeningKeeps DEF E!Refetch, E!Reopened, E!Opened
  <2> QED BY <1>10, <2>1, <2>2 DEF E!Refetch
<1>11. ASSUME NEW body \in Bodies, E!OtherWrites(body) PROVE EditsInv'
  BY <1>11, EditsWriteKeeps DEF E!OtherWrites
<1>12. CASE E!Watch
  BY <1>12, ReadServer DEF E!Watch, EditsInv, FileShowsBase, ObjectIsSeen, ValuesAreSeen,
     ChangeIsSent, Seen, E!Has, E!The
<1> QED BY <1>1, <1>2, <1>3, <1>4, <1>5, <1>6, <1>7, <1>8, <1>9, <1>10, <1>11, <1>12 DEF E!Next

\* A version of the user's replaces the body the file showed.
LEMMA EditsReplace == ASSUME EditsInv, [E!Next]_E!vars PROVE E!ReplaceStep
<1> SUFFICES ASSUME kind = "object", E!KeepsVersion,
                    server' # server, server'.by = "user"
             PROVE  E!The(E!StripComments(file), "body") = server.body
  BY DEF E!ReplaceStep
<1>1. E!Update
  <2>1. ASSUME NEW body \in Bodies, E!OtherWrites(body) PROVE FALSE
    BY <2>1 DEF E!OtherWrites
  <2> QED BY <2>1 DEF E!Next, E!vars, E!EditObject, E!EditValues, E!EditorFails, E!Cancel,
          E!Misparse, E!Send, E!Refuse, E!Refetch, E!Watch
<1>2. FileShowsBase /\ ChangeIsSent /\ ~E!Conflicts
  BY <1>1 DEF E!Update, EditsInv
<1>3. ObjectIsSeen
  BY <1>2 DEF FileShowsBase
<1>4. E!StripComments(file) = base
  <2>1. PICK h \in Heads : file = h \o base
    <3>1. <<>> \o base = base
      BY <1>3 DEF ObjectIsSeen, Shown
    <3> QED BY <1>2, <3>1 DEF FileShowsBase, Heads, E!FormatErrComment
  <2> QED BY <1>3, <2>1, ShownStrips DEF ObjectIsSeen
<1>5. E!Has(submitted, "version")
  BY <1>3, <1>4, ShownSays DEF E!KeepsVersion, ObjectIsSeen
<1>6. base[1].value = server.version
  BY <1>2, <1>5 DEF ChangeIsSent, E!Conflicts
<1>7. base = Shown(base[1].value, base[2].value) /\ base[2].value = server.body
  BY <1>3, <1>6 DEF ObjectIsSeen, Seen
<1> QED BY <1>4, <1>7, ShownSays

LEMMA StepOfEdits ==
  ASSUME [ToolsNext]_toolsVars, part = "edits"
  PROVE  [E!Next]_E!vars /\ part' = part
<1>1. CASE UNCHANGED toolsVars
  BY <1>1, ZenonT(30) DEF toolsVars, editsVars, E!vars
<1>2. CASE ToolsNext
  BY <1>2 DEF ToolsNext, TerminalsStep, SearchBarStep, FormsStep, PortForwardsStep, NoticesStep,
              EditsStep, CatalogStep, KeysStep, E!Next
<1> QED BY <1>1, <1>2

EditsPart == part = "edits" => EditsInv

\* Saving a file as it was opened cancels, whatever was refused and fetched before
\* (editor.go: "save unchanged to cancel"), and an edit of an object that leaves the version
\* where it was replaces nothing its author has not seen, however stale the list it was
\* opened from and whoever wrote meanwhile (edit.go, Update with the resourceVersion of the
\* text; one whose version line was deleted is updated unconditionally).
THEOREM EditsStaySafe == ToolsSpec => EditsAreSafe
<1>1. ToolsInit => EditsPart
  BY EditsBegin DEF ToolsInit, EditsPart
<1>2. EditsPart /\ [ToolsNext]_toolsVars => EditsPart'
  BY StepOfEdits, PartStays, EditsNextKeeps DEF EditsPart
<1>3. EditsPart => (part = "edits" => E!OnlyChangesAreSent)
  BY FileStrips DEF EditsPart, EditsInv, ChangeIsSent, E!OnlyChangesAreSent
<1>4. EditsPart /\ [ToolsNext]_toolsVars => (part = "edits" => E!ReplaceStep)
  BY StepOfEdits, EditsReplace DEF EditsPart
<1> QED BY <1>1, <1>2, <1>3, <1>4, PTL DEF ToolsSpec, EditsAreSafe

-----------------------------------------------------------------------------
(***************************************************************************)
(* Notices: a toast that is gone stays gone, and what is remembered of it  *)
(* is bounded.  What is hidden is pruned to the ids the store held then,   *)
(* of which there are never more than its capacity.                        *)
(***************************************************************************)

Note == [id : Nat, time : Nat, level : N!Levels]

NoticesInv ==
    /\ store \in Seq(Note) /\ Len(store) <= Capacity
    /\ nextID \in Nat /\ now \in Nat
    /\ IsFiniteSet(dismissed) /\ Cardinality(dismissed) <= Capacity
    /\ N!SettledListIsCurrent

LEMMA LevelsHaveLifetimes == \A l \in N!Levels : TTL[l] \in Nat
BY NoticesAssumption DEF N!Levels

\* No more ids than places.
LEMMA WindowBounded ==
  ASSUME NoticesInv
  PROVE  IsFiniteSet(N!Window(store)) /\ Cardinality(N!Window(store)) <= Capacity
<1> DEFINE n == Len(store)
           W == N!Window(store)
           f == [k \in 1..n |-> store[k].id]
<1>1. n \in Nat /\ n <= Capacity /\ Capacity \in Nat /\ DOMAIN store = 1..n
  BY NoticesAssumption DEF NoticesInv
<1>2. W = {store[k].id : k \in 1..n}
  BY <1>1 DEF N!Window
<1> HIDE DEF n, W
<1>3. f \in Surjection(1..n, W)
  BY <1>2 DEF Surjection
<1>4. ExistsSurjection(1..n, W)
  BY <1>3 DEF ExistsSurjection
<1>5. IsFiniteSet(W) /\ Cardinality(W) <= n /\ Cardinality(W) \in Nat
  BY <1>1, <1>4, FS_NatSurjection, FS_SurjCardinalityBound, FS_CardinalityType
<1> QED BY <1>1, <1>5 DEF W

\* What is hidden is pruned.
LEMMA PruneBounds ==
  ASSUME NoticesInv, NEW hidden, dismissed' = N!Prune(hidden)
  PROVE  IsFiniteSet(dismissed') /\ Cardinality(dismissed') <= Capacity
<1> DEFINE W == N!Window(store)
<1>1. IsFiniteSet(W) /\ Cardinality(W) <= Capacity /\ Cardinality(W) \in Nat /\ Capacity \in Nat
  BY WindowBounded, FS_CardinalityType, NoticesAssumption
<1>2. dismissed' \in SUBSET W
  BY DEF N!Prune
<1> HIDE DEF W
<1> QED BY <1>1, <1>2, FS_Subset, FS_CardinalityType

\* A list without its first element.
LEMMA WithoutFirst ==
  ASSUME NEW T, NEW s \in Seq(T), NEW n \in Nat, Len(s) = n + 1
  PROVE  /\ SubSeq(s, 2, Len(s)) \in Seq(T)
         /\ Len(SubSeq(s, 2, Len(s))) = n
         /\ \A k \in 1..n : SubSeq(s, 2, Len(s))[k] = s[k + 1]
OBVIOUS

\* An addition keeps the messages there is room for, and their number bounded.
LEMMA AddKeepsOrDrops ==
  ASSUME NoticesInv, NEW level \in N!Levels, N!Add(level)
  PROVE  /\ store' \in Seq(Note) /\ Len(store') <= Capacity
         /\ \A k \in DOMAIN store' :
               \/ store'[k].id = nextID + 1
               \/ \E j \in DOMAIN store : store'[k] = store[j]
<1> DEFINE m == [id |-> nextID + 1, time |-> now, level |-> level]
           s == Append(store, m)
           n == Len(store)
           c == Capacity
<1>1. /\ store \in Seq(Note) /\ n \in Nat /\ n <= c /\ c \in Nat \ {0} /\ m \in Note
      /\ DOMAIN store = 1..n
  BY NoticesAssumption DEF NoticesInv, Note
<1>2. store' = IF Len(s) > c THEN SubSeq(s, Len(s) - c + 1, Len(s)) ELSE s
  BY DEF N!Add
<1>3. m.id = nextID + 1
  OBVIOUS
<1> HIDE DEF m
<1>4. /\ s \in Seq(Note) /\ Len(s) = n + 1
      /\ \A k \in 1..(n + 1) : s[k] = m \/ \E j \in 1..n : s[k] = store[j]
  BY <1>1, AppendProperties
<1> HIDE DEF s, n, c
<1>5. CASE Len(s) > c
  <2> DEFINE from == Len(s) - c + 1
             t == SubSeq(s, from, Len(s))
  <2>1. c = n /\ Len(s) = n + 1
    BY <1>1, <1>4, <1>5
  <2>2. from = 2
    BY <1>1, <2>1
  <2>3. t \in Seq(Note) /\ Len(t) = n /\ \A k \in 1..n : t[k] = s[k + 1]
    <3>1. t = SubSeq(s, 2, Len(s))
      BY <2>2
    <3> HIDE DEF t, from
    <3>2. n \in Nat /\ s \in Seq(Note) /\ Len(s) = n + 1
      BY <1>1, <1>4
    <3>3. /\ SubSeq(s, 2, Len(s)) \in Seq(Note)
          /\ Len(SubSeq(s, 2, Len(s))) = n
          /\ \A k \in 1..n : SubSeq(s, 2, Len(s))[k] = s[k + 1]
      BY <3>2, WithoutFirst
    <3> QED BY <3>1, <3>3
  <2>4. \A k \in 1..n : k + 1 \in 1..(n + 1)
    BY <1>1
  <2>5. store' = t
    BY <1>2, <1>5
  <2> HIDE DEF t, from
  <2>6. DOMAIN t = 1..n /\ \A k \in 1..n : t[k] = m \/ \E j \in 1..n : t[k] = store[j]
    BY <1>4, <2>3, <2>4
  <2>7. Len(store') <= Capacity
    BY <1>1, <2>3, <2>5 DEF c
  <2> QED BY <1>1, <1>3, <2>3, <2>5, <2>6, <2>7
<1>6. CASE ~(Len(s) > c)
  <2>1. store' = s
    BY <1>2, <1>6
  <2> QED BY <1>1, <1>3, <1>4, <1>6, <2>1 DEF c
<1> QED BY <1>5, <1>6

LEMMA NoticesBegin == ASSUME N!Init PROVE NoticesInv
<1>1. store \in Seq(Note) /\ Len(store) = 0
  BY DEF N!Init
<1>2. N!Window(store) = {}
  BY DEF N!Init, N!Window
<1>3. IsFiniteSet(dismissed) /\ Cardinality(dismissed) = 0
  BY FS_EmptySet DEF N!Init
<1> QED BY <1>1, <1>2, <1>3, NoticesAssumption DEF N!Init, NoticesInv, N!SettledListIsCurrent

LEMMA NoticesKeep == ASSUME NoticesInv, [N!Next]_N!vars PROVE NoticesInv'
<1>1. CASE UNCHANGED N!vars
  BY <1>1 DEF N!vars, NoticesInv, N!SettledListIsCurrent, N!Window
<1>2. ASSUME NEW level \in N!Levels, N!Add(level) PROVE NoticesInv'
  <2>1. arriving' # {} /\ nextID' = nextID + 1 /\ UNCHANGED <<now, dismissed>>
    BY <1>2 DEF N!Add
  <2> QED BY <1>2, <2>1, AddKeepsOrDrops DEF NoticesInv, N!SettledListIsCurrent
<1>3. ASSUME NEW a \in arriving, N!Arrives(a) PROVE NoticesInv'
  <2>1. listed' = N!Window(store) /\ UNCHANGED <<store, nextID, now>>
    BY <1>3 DEF N!Arrives, N!Relist
  <2>2. dismissed' = dismissed \/ dismissed' = N!Prune(dismissed \cup {a.id})
    BY <1>3 DEF N!Arrives
  <2>3. IsFiniteSet(dismissed') /\ Cardinality(dismissed') <= Capacity
    BY <2>2, PruneBounds DEF NoticesInv
  <2> QED BY <2>1, <2>3 DEF NoticesInv, N!SettledListIsCurrent, N!Window
<1>4. ASSUME NEW tick \in ticks, N!Expires(tick) PROVE NoticesInv'
  <2>1. /\ dismissed' = N!Prune(dismissed \cup {tick.id})
        /\ UNCHANGED <<store, nextID, now, arriving, listed>>
    BY <1>4 DEF N!Expires
  <2> QED BY <2>1, PruneBounds DEF NoticesInv, N!SettledListIsCurrent, N!Window
<1>5. CASE N!ClearNotifications
  <2>1. /\ dismissed' = N!Prune(dismissed \cup N!Ids(store, N!Live(store, now)))
        /\ UNCHANGED <<store, nextID, now, arriving, listed>>
    BY <1>5 DEF N!ClearNotifications, N!ClearAll
  <2> QED BY <2>1, PruneBounds DEF NoticesInv, N!SettledListIsCurrent, N!Window
<1>6. CASE N!Clock
  BY <1>6 DEF N!Clock, NoticesInv, N!SettledListIsCurrent, N!Window
<1> QED BY <1>1, <1>2, <1>3, <1>4, <1>5, <1>6 DEF N!Next

\* A toast is that of a message that lives and is not hidden.
IsToast(s, t, hidden, id) ==
    \E k \in DOMAIN s :
        /\ s[k].id = id /\ id \notin hidden
        /\ TTL[s[k].level] = 0 \/ t - s[k].time < TTL[s[k].level]

LEMMA ToastsAre ==
  ASSUME NEW s, NEW t, NEW hidden, NEW id
  PROVE  id \in N!Toasts(s, t, hidden) <=> IsToast(s, t, hidden, id)
BY DEF N!Toasts, N!Ids, N!Visible, N!Live, N!Sticky, IsToast

LEMMA GoneKeeps == ASSUME NoticesInv, [N!Next]_N!vars PROVE N!GoneStep
<1> SUFFICES ASSUME NEW id \in 1..nextID, IsToast(store', now', dismissed', id)
             PROVE  IsToast(store, now, dismissed, id)
  BY ToastsAre DEF N!GoneStep
<1>1. PICK k \in DOMAIN store' :
         /\ store'[k].id = id /\ id \notin dismissed'
         /\ TTL[store'[k].level] = 0 \/ now' - store'[k].time < TTL[store'[k].level]
  BY DEF IsToast
<1>2. /\ store \in Seq(Note) /\ nextID \in Nat /\ now \in Nat
      /\ \A j \in DOMAIN store : store[j].time \in Nat /\ TTL[store[j].level] \in Nat
  <2>1. \A x \in Note : x.time \in Nat /\ TTL[x.level] \in Nat
    BY LevelsHaveLifetimes DEF Note
  <2>2. store \in Seq(Note) /\ nextID \in Nat /\ now \in Nat
    BY DEF NoticesInv
  <2>3. \A j \in DOMAIN store : store[j] \in Note
    BY <2>2
  <2> QED BY <2>1, <2>2, <2>3
<1>3. CASE UNCHANGED N!vars
  BY <1>1, <1>3 DEF N!vars, IsToast
<1>4. ASSUME NEW level \in N!Levels, N!Add(level) PROVE IsToast(store, now, dismissed, id)
  <2>1. UNCHANGED <<now, dismissed>>
    BY <1>4 DEF N!Add
  <2>2. id # nextID + 1
    BY <1>2
  <2>3. PICK j \in DOMAIN store : store'[k] = store[j]
    BY <1>1, <1>4, <2>2, AddKeepsOrDrops
  <2> QED BY <1>1, <2>1, <2>3 DEF IsToast
<1>5. ASSUME UNCHANGED <<store, now>>, NEW hidden, dismissed \subseteq hidden,
             dismissed' = dismissed \/ dismissed' = N!Prune(hidden)
      PROVE  IsToast(store, now, dismissed, id)
  <2>1. id \in N!Window(store)
    BY <1>1, <1>5 DEF N!Window
  <2>2. id \notin dismissed
    BY <1>1, <1>5, <2>1 DEF N!Prune
  <2> QED BY <1>1, <1>5, <2>2 DEF IsToast
<1>6. ASSUME NEW a \in arriving, N!Arrives(a) PROVE IsToast(store, now, dismissed, id)
  <2> DEFINE hidden == dismissed \cup {a.id}
  <2>1. /\ UNCHANGED <<store, now>> /\ dismissed \subseteq hidden
        /\ dismissed' = dismissed \/ dismissed' = N!Prune(hidden)
    BY <1>6 DEF N!Arrives
  <2> QED BY <1>5, <2>1
<1>7. ASSUME NEW tick \in ticks, N!Expires(tick) PROVE IsToast(store, now, dismissed, id)
  <2> DEFINE hidden == dismissed \cup {tick.id}
  <2>1. UNCHANGED <<store, now>> /\ dismissed \subseteq hidden /\ dismissed' = N!Prune(hidden)
    BY <1>7 DEF N!Expires
  <2> QED BY <1>5, <2>1
<1>8. CASE N!ClearNotifications
  <2> DEFINE hidden == dismissed \cup N!Ids(store, N!Live(store, now))
  <2>1. UNCHANGED <<store, now>> /\ dismissed \subseteq hidden /\ dismissed' = N!Prune(hidden)
    BY <1>8 DEF N!ClearNotifications, N!ClearAll
  <2> QED BY <1>5, <2>1
<1>9. CASE N!Clock
  <2>1. store' = store /\ dismissed' = dismissed /\ now' = now + 1
    BY <1>9 DEF N!Clock
  <2>2. TTL[store[k].level] = 0 \/ now - store[k].time < TTL[store[k].level]
    BY <1>1, <1>2, <2>1
  <2> QED BY <1>1, <2>1, <2>2 DEF IsToast
<1> QED BY <1>3, <1>4, <1>6, <1>7, <1>8, <1>9 DEF N!Next

LEMMA StepOfNotices ==
  ASSUME [ToolsNext]_toolsVars, part = "notices"
  PROVE  [N!Next]_N!vars /\ part' = part
<1>1. CASE UNCHANGED toolsVars
  BY <1>1, ZenonT(30) DEF toolsVars, noticesVars, N!vars
<1>2. CASE ToolsNext
  BY <1>2 DEF ToolsNext, TerminalsStep, SearchBarStep, FormsStep, PortForwardsStep, NoticesStep,
              EditsStep, CatalogStep, KeysStep, N!Next
<1> QED BY <1>1, <1>2

NoticesPart == part = "notices" => NoticesInv

\* A toast that expired, was cleared or came too late is never drawn again, however the
\* arrivals, timers and additions interleave; the ids remembered for it stay within the
\* store's capacity; and the messages pane lists the store once every message arrived
\* (Store.Add, Store.Live, App.pruneDismissed, MessageAddedMsg).
THEOREM NoticesStayTrue == ToolsSpec => NoticesAreTrue
<1>1. ToolsInit => NoticesPart
  BY NoticesBegin DEF ToolsInit, NoticesPart
<1>2. NoticesPart /\ [ToolsNext]_toolsVars => NoticesPart'
  BY StepOfNotices, PartStays, NoticesKeep DEF NoticesPart
<1>3. NoticesPart => (part = "notices" => N!DismissedIsBounded /\ N!SettledListIsCurrent)
  <2>1. N!Cardinality(dismissed) = Cardinality(dismissed)
    BY DEF N!Cardinality, Cardinality
  <2> QED BY <2>1 DEF NoticesPart, NoticesInv, N!DismissedIsBounded
<1>4. NoticesPart /\ [ToolsNext]_toolsVars => (part = "notices" => N!GoneStep)
  BY StepOfNotices, GoneKeeps DEF NoticesPart
<1> QED BY <1>1, <1>2, <1>3, <1>4, PTL DEF ToolsSpec, NoticesAreTrue

-----------------------------------------------------------------------------
(***************************************************************************)
(* The catalog: names keep their meaning, and a row of the picker opens    *)
(* what it says.                                                           *)
(*                                                                         *)
(* A registry is sane when its types differ, a name means a type of that   *)
(* name, and the name of every type means one.  RegisterIfAbsent keeps     *)
(* that and adds to what was there (RegisterAdds); a loop over a list is a *)
(* function of the part of the list gone through, which exists             *)
(* (Recursion) and keeps what each of its steps keeps (Induct).  The rows  *)
(* are each of a different type that is not left out (Shows), so that two  *)
(* that look alike can only be of twins (AlikeAreTwins).                   *)
(***************************************************************************)

LEMMA LeastNat ==
  ASSUME NEW S, S \subseteq Nat, S # {}
  PROVE  \E m \in S : \A k \in S : m <= k
<1> DEFINE R == {p \in Nat \X Nat : p[1] < p[2]}
<1>1. R = OpToRel(<, Nat)
  BY DEF OpToRel
<1>2. IsWellFoundedOn(OpToRel(<, Nat), Nat)
  BY NatLessThanWellFounded
<1> HIDE DEF R
<1>3. IsWellFoundedOn(R, Nat)
  BY <1>1, <1>2
<1>4. \E x \in S : \A y \in S : ~(<<y, x>> \in R)
  BY <1>3, WFMin, Zenon
<1>5. \A x, y \in Nat : <<y, x>> \in R <=> y < x
  BY DEF R
<1>6. PICK m \in S : \A y \in S : ~(<<y, m>> \in R)
  BY <1>4
<1>7. ASSUME NEW k \in S PROVE m <= k
  <2>1. ~(<<k, m>> \in R)
    BY <1>6
  <2>2. ~(k < m)
    BY <2>1, <1>5
  <2> QED BY <2>2
<1> QED BY <1>7

LEMMA Induct ==
  ASSUME NEW n \in Nat, NEW S, 0 \in S, \A k \in 0 .. (n - 1) : k \in S => k + 1 \in S
  PROVE  \A k \in 0 .. n : k \in S
<1> DEFINE Bad == {k \in 0 .. n : k \notin S}
<1>1. SUFFICES ASSUME Bad # {} PROVE FALSE
  OBVIOUS
<1>7. Bad \subseteq Nat
  OBVIOUS
<1>2. PICK k \in Bad : \A j \in Bad : k <= j
  <2> HIDE DEF Bad
  <2> QED BY <1>1, <1>7, LeastNat
<1>3. k # 0 /\ k - 1 \in 0 .. (n - 1)
  OBVIOUS
<1>4. k - 1 \notin Bad
  BY <1>2
<1>5. k - 1 \in S
  BY <1>3, <1>4
<1>6. (k - 1) + 1 \in S
  BY <1>3, <1>5
<1> QED BY <1>6

\* The function that a loop over 1 .. n computes: from its base, a step at a time.
Loop(f, n, v0, G) == f = [i \in 0 .. n |-> IF i = 0 THEN v0 ELSE G[i][f[i - 1]]]

LEMMA Recursion ==
  ASSUME NEW n \in Nat, NEW V, NEW v0 \in V, NEW G \in [1 .. n -> [V -> V]]
  PROVE  \E f \in [0 .. n -> V] : Loop(f, n, v0, G)
<1> DEFINE Done == {k \in 0 .. n : \E f \in [0 .. k -> V] : Loop(f, k, v0, G)}
<1>1. 0 \in Done
  <2> DEFINE f == [i \in 0 .. 0 |-> v0]
  <2>1. f \in [0 .. 0 -> V]
    OBVIOUS
  <2>2. Loop(f, 0, v0, G)
    BY DEF Loop
  <2> QED BY <2>1, <2>2
<1>2. ASSUME NEW k \in 0 .. (n - 1), k \in Done PROVE k + 1 \in Done
  <2>6. k \in Nat /\ k + 1 \in 1 .. n
    BY <1>2
  <2>1. PICK f \in [0 .. k -> V] : Loop(f, k, v0, G)
    BY <1>2
  <2> DEFINE v == G[k + 1][f[k]]
             h == [i \in 0 .. (k + 1) |-> IF i = k + 1 THEN v ELSE f[i]]
  <2>2. v \in V
    BY <2>6, <2>1
  <2>3. h \in [0 .. (k + 1) -> V]
    BY <2>6, <2>1, <2>2
  <2>4. ASSUME NEW i \in 0 .. (k + 1) PROVE h[i] = IF i = 0 THEN v0 ELSE G[i][h[i - 1]]
    <3>1. CASE i = k + 1
      BY <2>6, <2>4, <3>1
    <3>2. CASE i # k + 1
      <4>1. h[i] = f[i] /\ (i # 0 => h[i - 1] = f[i - 1])
        BY <2>6, <2>4, <3>2
      <4>2. f[i] = IF i = 0 THEN v0 ELSE G[i][f[i - 1]]
        BY <2>6, <2>1, <2>4, <3>2 DEF Loop
      <4> QED BY <4>1, <4>2
    <3> QED BY <3>1, <3>2
  <2>5. Loop(h, k + 1, v0, G)
    BY <2>4 DEF Loop
  <2> QED BY <2>6, <2>3, <2>5
<1>3. n \in Done
  <2> HIDE DEF Done
  <2>1. \A k \in 0 .. (n - 1) : k \in Done => k + 1 \in Done
    BY <1>2
  <2>2. \A k \in 0 .. n : k \in Done
    BY <1>1, <2>1, Induct
  <2> QED BY <2>2
<1> QED BY <1>3

-----------------------------------------------------------------------------
CatalogRegistries ==
    [ordered : Seq(C!Known), byName : [C!Names -> C!Known \cup {C!None}],
     byShort : [C!Shorts -> C!Known \cup {C!None}]]

Meant(r) ==
    /\ \A n \in C!Names : r.byName[n] # C!None => r.byName[n].name = n
    /\ \A j \in 1 .. Len(r.ordered) : r.byName[r.ordered[j].name] # C!None

TypesDiffer(types) ==
    \A j, k \in 1 .. Len(types) : C!GVR(types[j]) = C!GVR(types[k]) => j = k

Sane == {r \in CatalogRegistries : Meant(r) /\ TypesDiffer(r.ordered)}

\* All that r has, s has in the same place.
Extends(s, r) ==
    /\ Len(r.ordered) <= Len(s.ordered)
    /\ \A j \in 1 .. Len(r.ordered) : s.ordered[j] = r.ordered[j]
    /\ \A n \in C!Names : r.byName[n] # C!None => s.byName[n] = r.byName[n]

LEMMA KnownNamed ==
  ASSUME NEW t \in C!Known
  PROVE  /\ t.name \in C!Names /\ t # C!None /\ t.builtin \in BOOLEAN
         /\ t.short # "none" => t.short \in C!Shorts
<1>1. t.name \in Nat \ {0} /\ t.builtin \in BOOLEAN
  BY CatalogAssumption
<1>2. C!None.name = 0
  BY DEF C!None
<1> QED BY <1>1, <1>2 DEF C!Names, C!Shorts

\* What Register makes of the fields.
LEMMA RegisterMakes ==
  ASSUME NEW r \in CatalogRegistries, NEW t \in C!Known
  PROVE  /\ C!Register(r, t) \in CatalogRegistries
         /\ C!Register(r, t).ordered = Append(r.ordered, t)
         /\ \A n \in C!Names : C!Register(r, t).byName[n] = IF n = t.name THEN t ELSE r.byName[n]
<1>1. r.ordered \in Seq(C!Known) /\ r.byName \in [C!Names -> C!Known \cup {C!None}]
      /\ r.byShort \in [C!Shorts -> C!Known \cup {C!None}]
  BY DEF CatalogRegistries
<1>2. C!Register(r, t) \in CatalogRegistries
  BY <1>1, KnownNamed DEF C!Register, CatalogRegistries
<1> QED BY <1>1, <1>2, KnownNamed DEF C!Register

\* Register keeps what names mean, but may change what a name means.
LEMMA RegisterMeans ==
  ASSUME NEW r \in CatalogRegistries, NEW t \in C!Known, Meant(r)
  PROVE  Meant(C!Register(r, t))
<1> DEFINE s == C!Register(r, t)
<1>1. /\ s.ordered = Append(r.ordered, t)
      /\ \A n \in C!Names : s.byName[n] = IF n = t.name THEN t ELSE r.byName[n]
  BY RegisterMakes
<1> HIDE DEF s
<1>2. t.name \in C!Names /\ t # C!None /\ r.ordered \in Seq(C!Known)
  BY KnownNamed DEF CatalogRegistries
<1>3. \A n \in C!Names : s.byName[n] # C!None => s.byName[n].name = n
  BY <1>1, <1>2 DEF Meant
<1>4. ASSUME NEW j \in 1 .. Len(s.ordered) PROVE s.byName[s.ordered[j].name] # C!None
  <2>1. CASE j = Len(r.ordered) + 1
    BY <1>1, <1>2, <2>1
  <2>2. CASE j # Len(r.ordered) + 1
    <3>1. j \in 1 .. Len(r.ordered) /\ s.ordered[j] = r.ordered[j]
      BY <1>1, <1>2, <1>4, <2>2
    <3>2. r.ordered[j] \in C!Known
      BY <1>2, <3>1
    <3>3. r.ordered[j].name \in C!Names
      BY <3>2, KnownNamed
    <3>4. r.byName[r.ordered[j].name] # C!None
      BY <3>1 DEF Meant
    <3> QED BY <1>1, <1>2, <3>1, <3>3, <3>4
  <2> QED BY <2>1, <2>2
<1> QED BY <1>3, <1>4 DEF Meant, s

\* RegisterIfAbsent keeps what is sane, and what is there.
LEMMA RegisterAdds ==
  ASSUME NEW r \in Sane, NEW t \in C!Known
  PROVE  C!RegisterIfAbsent(r, t) \in Sane /\ Extends(C!RegisterIfAbsent(r, t), r)
<1> DEFINE s == C!RegisterIfAbsent(r, t)
           n == Len(r.ordered)
<1>1. /\ r \in CatalogRegistries /\ Meant(r) /\ TypesDiffer(r.ordered)
      /\ r.ordered \in Seq(C!Known) /\ r.byName \in [C!Names -> C!Known \cup {C!None}]
      /\ r.byShort \in [C!Shorts -> C!Known \cup {C!None}]
  BY DEF Sane, CatalogRegistries
<1>2. t.name \in C!Names /\ t # C!None
  BY KnownNamed
<1>3. CASE C!GVR(t) \in C!ByGVR(r)
  <2>1. s = r
    BY <1>3 DEF C!RegisterIfAbsent
  <2> QED BY <2>1 DEF Extends
<1>4. CASE C!GVR(t) \notin C!ByGVR(r)
  <2>1. \A j \in 1 .. n : C!GVR(r.ordered[j]) # C!GVR(t)
    BY <1>1, <1>4 DEF C!ByGVR
  <2>2. ASSUME NEW u, u \in CatalogRegistries, u.ordered = Append(r.ordered, t), Meant(u),
               \A m \in C!Names : r.byName[m] # C!None => u.byName[m] = r.byName[m]
        PROVE  u \in Sane /\ Extends(u, r)
    <3>1. \A j \in 1 .. n : u.ordered[j] = r.ordered[j]
      BY <1>1, <2>2
    <3>2. Len(u.ordered) = n + 1 /\ u.ordered[n + 1] = t /\ n \in Nat
      BY <1>1, <2>2
    <3>3. TypesDiffer(u.ordered)
      <4>1. ASSUME NEW j \in 1 .. Len(u.ordered), NEW k \in 1 .. Len(u.ordered),
                   C!GVR(u.ordered[j]) = C!GVR(u.ordered[k])
            PROVE  j = k
        <5>1. CASE j \in 1 .. n /\ k \in 1 .. n
          BY <1>1, <3>1, <4>1, <5>1 DEF TypesDiffer
        <5>2. CASE j = n + 1 /\ k \in 1 .. n
          BY <2>1, <3>1, <3>2, <4>1, <5>2
        <5>3. CASE j \in 1 .. n /\ k = n + 1
          BY <2>1, <3>1, <3>2, <4>1, <5>3
        <5> QED BY <3>2, <4>1, <5>1, <5>2, <5>3
      <4> QED BY <4>1 DEF TypesDiffer
    <3>4. u \in Sane
      BY <2>2, <3>3 DEF Sane
    <3> QED BY <2>2, <3>1, <3>2, <3>4 DEF Extends
  <2>3. CASE r.byName[t.name] # C!None
    <3> DEFINE u == [r EXCEPT !.ordered = Append(@, t)]
    <3>1. s = u
      BY <1>3, <1>4, <2>3 DEF C!RegisterIfAbsent
    <3> DEFINE o == Append(r.ordered, t)
    <3>5. o \in Seq(C!Known)
      BY <1>1
    <3>6. u = [r EXCEPT !.ordered = o]
      OBVIOUS
    <3> HIDE DEF o, u
    <3>7. u.ordered = o
      BY <1>1, <3>6 DEF CatalogRegistries
    <3>8. u.byName = r.byName
      BY <1>1, <3>6 DEF CatalogRegistries
    <3>9. u \in CatalogRegistries
      BY <1>1, <3>5, <3>6 DEF CatalogRegistries
    <3>3. u \in CatalogRegistries /\ u.ordered = Append(r.ordered, t) /\ u.byName = r.byName
      BY <3>7, <3>8, <3>9 DEF o
    <3> HIDE DEF u
    <3>4. Meant(u)
      <4>1. ASSUME NEW j \in 1 .. Len(u.ordered) PROVE r.byName[u.ordered[j].name] # C!None
        <5>1. CASE j = n + 1
          BY <1>1, <2>3, <3>3, <5>1
        <5>2. CASE j # n + 1
          <6>1. j \in 1 .. n /\ u.ordered[j] = r.ordered[j]
            BY <1>1, <3>3, <4>1, <5>2
          <6> QED BY <1>1, <6>1 DEF Meant
        <5> QED BY <5>1, <5>2
      <4> QED BY <1>1, <3>3, <4>1 DEF Meant
    <3> QED BY <2>2, <3>1, <3>3, <3>4
  <2>4. CASE r.byName[t.name] = C!None
    <3> DEFINE u == C!Register(r, t)
    <3>1. s = u
      BY <1>4, <2>4 DEF C!RegisterIfAbsent
    <3>2. /\ u \in CatalogRegistries /\ u.ordered = Append(r.ordered, t)
          /\ \A m \in C!Names : u.byName[m] = IF m = t.name THEN t ELSE r.byName[m]
      BY <1>1, RegisterMakes
    <3>3. Meant(u)
      BY <1>1, RegisterMeans
    <3> HIDE DEF u
    <3>4. \A m \in C!Names : r.byName[m] # C!None => u.byName[m] = r.byName[m]
      BY <2>4, <3>2
    <3> QED BY <2>2, <3>1, <3>2, <3>3, <3>4
  <2> QED BY <2>3, <2>4
<1> QED BY <1>3, <1>4

LEMMA ExtendsMore ==
  ASSUME NEW r \in Sane, NEW s \in Sane, NEW u \in Sane, Extends(s, r), Extends(u, s)
  PROVE  Extends(u, r)
<1>1. Len(r.ordered) \in Nat /\ Len(s.ordered) \in Nat /\ Len(u.ordered) \in Nat
  BY DEF Sane, CatalogRegistries
<1>2. \A n \in C!Names : r.byName[n] # C!None => u.byName[n] = r.byName[n]
  BY DEF Extends
<1>3. ASSUME NEW j \in 1 .. Len(r.ordered) PROVE u.ordered[j] = r.ordered[j]
  <2>1. j \in 1 .. Len(s.ordered)
    BY <1>1 DEF Extends
  <2> QED BY <2>1 DEF Extends
<1> QED BY <1>1, <1>2, <1>3 DEF Extends

\* A whole discovery registered.
LEMMA RegisterAllAdds ==
  ASSUME NEW r \in Sane, NEW types \in Seq(C!Known)
  PROVE  C!RegisterAll(r, types) \in Sane /\ Extends(C!RegisterAll(r, types), r)
<1> DEFINE n == Len(types)
           step == [i \in 1 .. n |-> [s \in Sane |-> C!RegisterIfAbsent(s, types[i])]]
           Is(f) == f = [i \in 0 .. n |-> IF i = 0 THEN r ELSE C!RegisterIfAbsent(f[i - 1], types[i])]
           after == CHOOSE f : Is(f)
<1>1. n \in Nat /\ \A i \in 1 .. n : types[i] \in C!Known
  OBVIOUS
<1> HIDE DEF n
<1>2. step \in [1 .. n -> [Sane -> Sane]]
  BY <1>1, RegisterAdds
<1>3. PICK g \in [0 .. n -> Sane] : Loop(g, n, r, step)
  <2> HIDE DEF step
  <2> QED BY <1>1, <1>2, Recursion
<1>4. ASSUME NEW i \in 0 .. n
      PROVE  g[i] = IF i = 0 THEN r ELSE C!RegisterIfAbsent(g[i - 1], types[i])
  <2>1. g[i] = IF i = 0 THEN r ELSE step[i][g[i - 1]]
    BY <1>3, <1>4 DEF Loop
  <2>2. CASE i # 0
    <3>1. i \in 1 .. n /\ g[i - 1] \in Sane
      BY <1>1, <1>3, <1>4, <2>2
    <3>2. step[i][g[i - 1]] = C!RegisterIfAbsent(g[i - 1], types[i])
      BY <3>1
    <3> QED BY <2>1, <2>2, <3>2
  <2> QED BY <2>1, <2>2
<1>5. Is(g)
  BY <1>1, <1>3, <1>4
<1>6. Is(after)
  <2> HIDE DEF Is
  <2> QED BY <1>5
<1>7. C!RegisterAll(r, types) = after[n]
  BY DEF C!RegisterAll, n
<1> HIDE DEF after
<1> DEFINE Good == {i \in 0 .. n : after[i] \in Sane /\ Extends(after[i], r)}
<1>8. 0 \in Good
  <2>1. after[0] = r
    BY <1>1, <1>6
  <2> QED BY <1>1, <2>1 DEF Extends
<1>9. ASSUME NEW k \in 0 .. (n - 1), k \in Good PROVE k + 1 \in Good
  <2>1. k + 1 \in 1 .. n /\ (k + 1) - 1 = k
    BY <1>1, <1>9
  <2>5. \A i \in 1 .. n : after[i] = C!RegisterIfAbsent(after[i - 1], types[i])
    BY <1>1, <1>6
  <2>2. after[k + 1] = C!RegisterIfAbsent(after[k], types[k + 1])
    BY <2>1, <2>5
  <2>3. after[k] \in Sane /\ Extends(after[k], r)
    BY <1>9
  <2>4. after[k + 1] \in Sane /\ Extends(after[k + 1], after[k])
    BY <1>1, <2>1, <2>2, <2>3, RegisterAdds
  <2> QED BY <2>1, <2>3, <2>4, ExtendsMore
<1>10. n \in Good
  <2> HIDE DEF Good
  <2>1. \A k \in 0 .. (n - 1) : k \in Good => k + 1 \in Good
    BY <1>9
  <2>2. \A k \in 0 .. n : k \in Good
    BY <1>1, <1>8, <2>1, Induct
  <2> QED BY <1>1, <2>2
<1> QED BY <1>7, <1>10

\* What is registered at startup, in its order.
LEMMA StartupSane == C!Startup \in Sane
<1> DEFINE n == Len(Builtins)
           step == [i \in 1 .. n |-> [s \in CatalogRegistries |-> C!Register(s, Builtins[i])]]
           Is(f) == f = [i \in 0 .. n |-> IF i = 0 THEN C!Empty ELSE C!Register(f[i - 1], Builtins[i])]
           after == CHOOSE f : Is(f)
<1>1. n \in Nat /\ \A i \in 1 .. n : Builtins[i] \in C!Known
  BY CatalogAssumption DEF C!Known
<1>2. C!Empty \in CatalogRegistries /\ C!Empty.ordered = <<>>
      /\ \A m \in C!Names : C!Empty.byName[m] = C!None
  BY DEF C!Empty, CatalogRegistries
<1>3. \A j, k \in 1 .. n : C!GVR(Builtins[j]) = C!GVR(Builtins[k]) => j = k
  BY CatalogAssumption
<1>4. C!Startup = after[n]
  BY DEF C!Startup
<1> HIDE DEF n
<1>5. step \in [1 .. n -> [CatalogRegistries -> CatalogRegistries]]
  BY <1>1, RegisterMakes
<1>6. PICK g \in [0 .. n -> CatalogRegistries] : Loop(g, n, C!Empty, step)
  <2> HIDE DEF step
  <2> QED BY <1>1, <1>2, <1>5, Recursion
<1>7. ASSUME NEW i \in 0 .. n
      PROVE  g[i] = IF i = 0 THEN C!Empty ELSE C!Register(g[i - 1], Builtins[i])
  <2>1. g[i] = IF i = 0 THEN C!Empty ELSE step[i][g[i - 1]]
    BY <1>6, <1>7 DEF Loop
  <2>2. CASE i # 0
    <3>1. i \in 1 .. n /\ g[i - 1] \in CatalogRegistries
      BY <1>1, <1>6, <1>7, <2>2
    <3>2. step[i][g[i - 1]] = C!Register(g[i - 1], Builtins[i])
      BY <3>1
    <3> QED BY <2>1, <2>2, <3>2
  <2> QED BY <2>1, <2>2
<1>8. Is(g)
  BY <1>1, <1>6, <1>7
<1>9. Is(after)
  <2> HIDE DEF Is
  <2> QED BY <1>8
<1> HIDE DEF after
<1> DEFINE Good == {i \in 0 .. n :
                      /\ after[i] \in CatalogRegistries /\ Meant(after[i]) /\ Len(after[i].ordered) = i
                      /\ \A j \in 1 .. i : after[i].ordered[j] = Builtins[j]}
<1>10. 0 \in Good
  <2>1. after[0] = C!Empty
    BY <1>1, <1>9
  <2>2. Meant(C!Empty)
    BY <1>2 DEF Meant
  <2> QED BY <1>1, <1>2, <2>1, <2>2
<1>11. ASSUME NEW k \in 0 .. (n - 1), k \in Good PROVE k + 1 \in Good
  <2> DEFINE r == after[k]
             s == after[k + 1]
  <2>1. k + 1 \in 1 .. n /\ (k + 1) - 1 = k
    BY <1>1, <1>11
  <2>2. \A i \in 1 .. n : after[i] = C!Register(after[i - 1], Builtins[i])
    BY <1>1, <1>9
  <2>3. s = C!Register(r, Builtins[k + 1])
    BY <2>1, <2>2
  <2>4. r \in CatalogRegistries /\ Meant(r) /\ Len(r.ordered) = k
        /\ \A j \in 1 .. k : r.ordered[j] = Builtins[j]
    BY <1>11
  <2> HIDE DEF r, s
  <2>5. s \in CatalogRegistries /\ Meant(s) /\ s.ordered = Append(r.ordered, Builtins[k + 1])
    BY <1>1, <2>1, <2>3, <2>4, RegisterMakes, RegisterMeans
  <2>6. r.ordered \in Seq(C!Known)
    BY <2>4 DEF CatalogRegistries
  <2>7. Len(s.ordered) = k + 1
    BY <2>4, <2>5, <2>6
  <2>8. ASSUME NEW j \in 1 .. (k + 1) PROVE s.ordered[j] = Builtins[j]
    BY <2>1, <2>4, <2>5, <2>6, <2>8
  <2> QED BY <1>1, <2>1, <2>5, <2>7, <2>8 DEF s
<1>12. n \in Good
  <2> HIDE DEF Good
  <2>1. \A k \in 0 .. (n - 1) : k \in Good => k + 1 \in Good
    BY <1>11
  <2>2. \A k \in 0 .. n : k \in Good
    BY <1>1, <1>10, <2>1, Induct
  <2> QED BY <1>1, <2>2
<1>13. TypesDiffer(after[n].ordered)
  BY <1>3, <1>12 DEF TypesDiffer
<1> QED BY <1>4, <1>12, <1>13 DEF Sane

-----------------------------------------------------------------------------
\* The picker's rows: each of a type that is not left out, no two of the same.
CatalogRow == [type : C!Known, qualified : BOOLEAN]

Shows(s, types, i) ==
    /\ s \in Seq(CatalogRow)
    /\ \A m \in 1 .. Len(s) : \E a \in 1 .. i : s[m] = C!Row(types, a) /\ ~C!Removed(types, a)
    /\ \A l, m \in 1 .. Len(s) : l # m =>
         \E a, b \in 1 .. i : /\ a # b /\ s[l] = C!Row(types, a) /\ s[m] = C!Row(types, b)
                              /\ ~C!Removed(types, a) /\ ~C!Removed(types, b)

LEMMA RowShown ==
  ASSUME NEW types \in Seq(C!Known), NEW i \in 1 .. Len(types), NEW s, Shows(s, types, i - 1)
  PROVE  /\ Shows(s, types, i)
         /\ ~C!Removed(types, i) => Shows(Append(s, C!Row(types, i)), types, i)
<1>1. i \in Nat /\ i > 0 /\ \A a \in 1 .. (i - 1) : a \in 1 .. i /\ a # i
  OBVIOUS
<1>2. Shows(s, types, i)
  <2>1. ASSUME NEW m \in 1 .. Len(s)
        PROVE  \E a \in 1 .. i : s[m] = C!Row(types, a) /\ ~C!Removed(types, a)
    <3>1. PICK a \in 1 .. (i - 1) : s[m] = C!Row(types, a) /\ ~C!Removed(types, a)
      BY <2>1 DEF Shows
    <3> QED BY <1>1, <3>1, Zenon
  <2>2. ASSUME NEW l \in 1 .. Len(s), NEW m \in 1 .. Len(s), l # m
        PROVE  \E a, b \in 1 .. i : /\ a # b /\ s[l] = C!Row(types, a) /\ s[m] = C!Row(types, b)
                                    /\ ~C!Removed(types, a) /\ ~C!Removed(types, b)
    <3>1. PICK a, b \in 1 .. (i - 1) :
               /\ a # b /\ s[l] = C!Row(types, a) /\ s[m] = C!Row(types, b)
               /\ ~C!Removed(types, a) /\ ~C!Removed(types, b)
      BY <2>2 DEF Shows
    <3> QED BY <1>1, <3>1, Zenon
  <2>3. s \in Seq(CatalogRow)
    BY DEF Shows
  <2> QED BY <2>1, <2>2, <2>3 DEF Shows
<1>3. C!Row(types, i) \in CatalogRow
  <2>1. types[i] \in C!Known
    OBVIOUS
  <2>2. C!Qualified(types, i) \in BOOLEAN
    BY <2>1, KnownNamed DEF C!Qualified
  <2> QED BY <2>1, <2>2 DEF C!Row, CatalogRow
<1>4. ASSUME ~C!Removed(types, i) PROVE Shows(Append(s, C!Row(types, i)), types, i)
  <2> DEFINE row == C!Row(types, i)
             n == Len(s)
             u == Append(s, row)
  <2>1. s \in Seq(CatalogRow) /\ n \in Nat
    BY DEF Shows
  <2> HIDE DEF row
  <2>2. u \in Seq(CatalogRow) /\ Len(u) = n + 1 /\ u[n + 1] = row /\ \A m \in 1 .. n : u[m] = s[m]
    BY <1>3, <2>1 DEF row
  <2> HIDE DEF u, n
  <2>3. \A m \in 1 .. n : \E a \in 1 .. (i - 1) : u[m] = C!Row(types, a) /\ ~C!Removed(types, a)
    BY <2>2 DEF Shows, n
  <2>4. i \in 1 .. i /\ u[n + 1] = C!Row(types, i) /\ ~C!Removed(types, i)
    BY <1>1, <1>4, <2>2 DEF row
  <2>5. \A m \in 1 .. (n + 1) : m \in 1 .. n \/ m = n + 1
    BY <2>1
  <2>6. \A m \in 1 .. (n + 1) : \E a \in 1 .. i : u[m] = C!Row(types, a) /\ ~C!Removed(types, a)
    BY <1>1, <2>3, <2>4, <2>5, Zenon
  <2>7. ASSUME NEW l \in 1 .. (n + 1), NEW m \in 1 .. (n + 1), l # m
        PROVE  \E a, b \in 1 .. i : /\ a # b /\ u[l] = C!Row(types, a) /\ u[m] = C!Row(types, b)
                                    /\ ~C!Removed(types, a) /\ ~C!Removed(types, b)
    <3>1. CASE l \in 1 .. n /\ m \in 1 .. n
      <4>1. \E a, b \in 1 .. (i - 1) : /\ a # b /\ s[l] = C!Row(types, a) /\ s[m] = C!Row(types, b)
                                       /\ ~C!Removed(types, a) /\ ~C!Removed(types, b)
        BY <2>7, <3>1 DEF Shows, n
      <4> QED BY <1>1, <2>2, <3>1, <4>1, Zenon
    <3>2. CASE l = n + 1 /\ m \in 1 .. n
      BY <1>1, <2>3, <2>4, <3>2, Zenon
    <3>3. CASE l \in 1 .. n /\ m = n + 1
      BY <1>1, <2>3, <2>4, <3>3, Zenon
    <3> QED BY <2>5, <2>7, <3>1, <3>2, <3>3
  <2>8. Shows(u, types, i)
    BY <2>2, <2>6, <2>7 DEF Shows
  <2> QED BY <2>8 DEF u, row
<1> QED BY <1>2, <1>4

LEMMA CollisionsShown ==
  ASSUME NEW types \in Seq(C!Known)
  PROVE  Shows(C!markCollisions(types), types, Len(types))
<1> DEFINE n == Len(types)
           V == Seq(CatalogRow)
           Next1(s, i) == IF C!Removed(types, i) THEN s ELSE Append(s, C!Row(types, i))
           step == [i \in 1 .. n |-> [s \in V |-> Next1(s, i)]]
           Is(f) == f = [i \in 0 .. n |-> IF i = 0 THEN <<>>
                                          ELSE IF C!Removed(types, i) THEN f[i - 1]
                                          ELSE Append(f[i - 1], C!Row(types, i))]
           kept == CHOOSE f : Is(f)
<1>1. n \in Nat
  OBVIOUS
<1>2. C!markCollisions(types) = kept[n]
  BY DEF C!markCollisions
<1>3. ASSUME NEW i \in 1 .. n, NEW s \in V PROVE Next1(s, i) \in V
  <2>1. types[i] \in C!Known
    BY <1>3
  <2>2. C!Qualified(types, i) \in BOOLEAN
    BY <2>1, KnownNamed DEF C!Qualified
  <2>3. C!Row(types, i) \in CatalogRow
    BY <2>1, <2>2 DEF C!Row, CatalogRow
  <2> QED BY <1>3, <2>3
<1>4. step \in [1 .. n -> [V -> V]]
  BY <1>3
<1>5. <<>> \in V
  OBVIOUS
<1> HIDE DEF n
<1>6. PICK g \in [0 .. n -> V] : Loop(g, n, <<>>, step)
  <2> HIDE DEF step, V
  <2> QED BY <1>1, <1>4, <1>5, Recursion
<1>7. ASSUME NEW i \in 0 .. n PROVE g[i] = IF i = 0 THEN <<>> ELSE Next1(g[i - 1], i)
  <2>1. g[i] = IF i = 0 THEN <<>> ELSE step[i][g[i - 1]]
    BY <1>6, <1>7 DEF Loop
  <2>2. CASE i # 0
    <3>1. i \in 1 .. n /\ g[i - 1] \in V
      BY <1>1, <1>6, <1>7, <2>2
    <3> HIDE DEF Next1, V
    <3>2. step[i][g[i - 1]] = Next1(g[i - 1], i)
      BY <3>1
    <3> QED BY <2>1, <2>2, <3>2
  <2> QED BY <2>1, <2>2
<1>8. Is(g)
  BY <1>1, <1>6, <1>7
<1>9. Is(kept)
  <2> HIDE DEF Is
  <2> QED BY <1>8
<1> HIDE DEF kept
<1> DEFINE Good == {i \in 0 .. n : Shows(kept[i], types, i)}
<1>10. 0 \in Good
  <2>1. kept[0] = <<>>
    BY <1>1, <1>9
  <2>2. Len(kept[0]) = 0 /\ kept[0] \in Seq(CatalogRow)
    BY <2>1
  <2>3. Shows(kept[0], types, 0)
    BY <2>2 DEF Shows
  <2> QED BY <1>1, <2>3
<1>11. ASSUME NEW k \in 0 .. (n - 1), k \in Good PROVE k + 1 \in Good
  <2>1. k + 1 \in 1 .. n /\ (k + 1) - 1 = k
    BY <1>1, <1>11
  <2>2. kept[k + 1] = IF C!Removed(types, k + 1) THEN kept[(k + 1) - 1]
                      ELSE Append(kept[(k + 1) - 1], C!Row(types, k + 1))
    <3>1. k + 1 \in 0 .. n /\ k + 1 # 0
      BY <1>1, <2>1
    <3> DEFINE at == k + 1
    <3>2. at \in 0 .. n /\ at # 0
      BY <3>1
    <3> HIDE DEF at
    <3>3. kept[at] = IF at = 0 THEN <<>> ELSE IF C!Removed(types, at) THEN kept[at - 1]
                     ELSE Append(kept[at - 1], C!Row(types, at))
      BY <1>9, <3>2
    <3> QED BY <3>2, <3>3 DEF at
  <2>3. Shows(kept[(k + 1) - 1], types, (k + 1) - 1)
    BY <1>11, <2>1
  <2>4. Shows(kept[k + 1], types, k + 1)
    BY <2>1, <2>2, <2>3, RowShown DEF n
  <2> QED BY <1>1, <2>1, <2>4
<1>12. n \in Good
  <2> HIDE DEF Good
  <2>1. \A k \in 0 .. (n - 1) : k \in Good => k + 1 \in Good
    BY <1>11
  <2>2. \A k \in 0 .. n : k \in Good
    BY <1>1, <1>10, <2>1, Induct
  <2> QED BY <1>1, <2>2
<1> QED BY <1>2, <1>12 DEF n

\* Two rows that look the same are of twins.
LEMMA AlikeAreTwins ==
  ASSUME NEW types \in Seq(C!Known), TypesDiffer(types),
         NEW a \in 1 .. Len(types), NEW b \in 1 .. Len(types), a # b,
         ~C!Removed(types, a), ~C!Removed(types, b),
         C!Label(C!Row(types, a)) = C!Label(C!Row(types, b))
  PROVE  /\ types[a].name = types[b].name /\ types[a].builtin /\ types[b].builtin
         /\ \E k \in 1 .. Len(types) : types[k].name = types[a].name /\ ~types[k].builtin
<1>1. types[a] \in C!Known /\ types[b] \in C!Known /\ DOMAIN types = 1 .. Len(types)
      /\ Len(types) \in Nat
  OBVIOUS
<1>2. types[a].builtin \in BOOLEAN /\ types[b].builtin \in BOOLEAN
  BY <1>1, KnownNamed
<1>3. types[a].name = types[b].name
  BY DEF C!Label, C!Row
<1>4. a \in C!Same(types, b) /\ b \in C!Same(types, a) /\ a \in C!Same(types, a) /\ b \in C!Same(types, b)
  BY <1>1, <1>3 DEF C!Same
<1>5. C!Collides(types, a) /\ C!Collides(types, b)
  BY <1>4 DEF C!Collides
<1>6. C!Qualified(types, a) = ~types[a].builtin /\ C!Qualified(types, b) = ~types[b].builtin
  BY <1>2, <1>5 DEF C!Qualified
<1>7. ~(C!Qualified(types, a) /\ C!Qualified(types, b))
  <2>1. ASSUME C!Qualified(types, a), C!Qualified(types, b) PROVE FALSE
    <3>1. <<types[a].group, types[a].version>> = <<types[b].group, types[b].version>>
      BY <2>1 DEF C!Label, C!Row
    <3>2. C!GVR(types[a]) = C!GVR(types[b])
      BY <1>3, <3>1 DEF C!GVR
    <3> QED BY <3>2 DEF TypesDiffer
  <2> QED BY <2>1
<1>8. C!Qualified(types, a) = C!Qualified(types, b)
  <2> DEFINE ga == <<types[a].group, types[a].version>>
             gb == <<types[b].group, types[b].version>>
  <2>1. ga # << >> /\ gb # << >>
    OBVIOUS
  <2> HIDE DEF ga, gb
  <2>2. (IF C!Qualified(types, a) THEN ga ELSE << >>) = (IF C!Qualified(types, b) THEN gb ELSE << >>)
    BY DEF C!Label, C!Row, ga, gb
  <2>3. C!Qualified(types, a) \in BOOLEAN /\ C!Qualified(types, b) \in BOOLEAN
    BY <1>6
  <2> QED BY <2>1, <2>2, <2>3
<1>9. types[a].builtin /\ types[b].builtin
  BY <1>2, <1>6, <1>7, <1>8
<1>10. C!HasOther(types, a) \/ C!HasOther(types, b)
  <2>1. a < b \/ b < a
    BY <1>1
  <2> QED BY <1>4, <1>5, <2>1 DEF C!Removed
<1>11. \E k \in 1 .. Len(types) : types[k].name = types[a].name /\ ~types[k].builtin
  BY <1>1, <1>3, <1>10 DEF C!HasOther, C!Same
<1> QED BY <1>3, <1>9, <1>11

-----------------------------------------------------------------------------
CatalogInv ==
    /\ C!Registry \in Sane
    /\ rows = C!buildPickerEntries(C!Registry)
    /\ resources \in Seq(C!Known)
    /\ \A m \in results : m.types \in Seq(C!Known)
    /\ opened.row.type # C!None =>
         /\ opened.plugin.name = opened.row.type.name
         /\ opened.row.qualified => opened.plugin = opened.row.type

LEMMA RowsAreOfTypes ==
  ASSUME CatalogInv
  PROVE  /\ ordered \in Seq(C!Known) /\ byName \in [C!Names -> C!Known \cup {C!None}]
         /\ Shows(rows, ordered, Len(ordered))
<1>1. C!Registry \in Sane /\ C!Registry.ordered = ordered /\ C!Registry.byName = byName
  BY DEF CatalogInv, C!Registry
<1>2. ordered \in Seq(C!Known) /\ byName \in [C!Names -> C!Known \cup {C!None}]
  BY <1>1 DEF Sane, CatalogRegistries
<1>3. rows = C!markCollisions(ordered)
  BY <1>1 DEF CatalogInv, C!buildPickerEntries
<1> QED BY <1>2, <1>3, CollisionsShown

LEMMA RowsTell == ASSUME CatalogInv PROVE C!RowsSayWhatTheyOpen
<1>1. ordered \in Seq(C!Known) /\ Shows(rows, ordered, Len(ordered))
  BY RowsAreOfTypes
<1>2. TypesDiffer(ordered)
  BY DEF CatalogInv, Sane, C!Registry
<1>3. rows \in Seq(CatalogRow)
  BY <1>1 DEF Shows
<1>4. DOMAIN rows = 1 .. Len(rows) /\ DOMAIN ordered = 1 .. Len(ordered)
  BY <1>1, <1>3
<1>5. ASSUME NEW i \in DOMAIN rows, NEW j \in DOMAIN rows, i # j,
             C!Label(rows[i]) = C!Label(rows[j])
      PROVE  C!Twins(rows[i].type, rows[j].type)
  <2>1. PICK a, b \in 1 .. Len(ordered) :
             /\ a # b /\ rows[i] = C!Row(ordered, a) /\ rows[j] = C!Row(ordered, b)
             /\ ~C!Removed(ordered, a) /\ ~C!Removed(ordered, b)
    BY <1>1, <1>4, <1>5 DEF Shows
  <2>2. /\ ordered[a].name = ordered[b].name /\ ordered[a].builtin /\ ordered[b].builtin
        /\ \E k \in 1 .. Len(ordered) : ordered[k].name = ordered[a].name /\ ~ordered[k].builtin
    BY <1>1, <1>2, <1>5, <2>1, AlikeAreTwins
  <2>3. rows[i].type = ordered[a] /\ rows[j].type = ordered[b]
    BY <2>1 DEF C!Row
  <2> QED BY <1>4, <2>2, <2>3 DEF C!Twins
<1> QED BY <1>5 DEF C!RowsSayWhatTheyOpen, CatalogInv

LEMMA CatalogBegins == ASSUME C!Init PROVE CatalogInv
<1> DEFINE s == C!Startup
<1>1. s \in Sane
  BY StartupSane
<1> HIDE DEF s
<1>2. /\ ordered = s.ordered /\ byName = s.byName /\ byShort = s.byShort
      /\ rows = C!buildPickerEntries(s) /\ resources = << >> /\ results = {}
      /\ opened.row.type = C!None
  BY DEF C!Init, s
<1>3. s = [ordered |-> s.ordered, byName |-> s.byName, byShort |-> s.byShort]
  BY <1>1 DEF Sane, CatalogRegistries
<1>4. C!Registry = s
  BY <1>2, <1>3 DEF C!Registry
<1> QED BY <1>1, <1>2, <1>4 DEF CatalogInv

\* A result lists types that are known.
LEMMA OrdersAreOfTypes ==
  ASSUME NEW types, IsFiniteSet(types), types \subseteq C!Known, NEW s \in C!Orders(types)
  PROVE  s \in Seq(C!Known)
<1>1. Cardinality(types) \in Nat
  BY FS_CardinalityType
<1>2. C!Cardinality(types) = Cardinality(types)
  BY DEF C!Cardinality, Cardinality
<1>3. s \in [1 .. Cardinality(types) -> types]
  BY <1>2 DEF C!Orders, C!SetToSeqs
<1> QED BY <1>1, <1>3

LEMMA RefreshKeeps == ASSUME CatalogInv, NEW c \in Contexts, C!Refresh(c) PROVE CatalogInv'
<1>1. UNCHANGED <<ordered, byName, byShort, resources, rows, opened>>
  BY DEF C!Refresh, C!registry
<1>2. C!Registry' = C!Registry
  BY <1>1 DEF C!Registry
<1>3. ASSUME NEW m \in results' PROVE m.types \in Seq(C!Known)
  <2>1. CASE m \in results
    BY <2>1 DEF CatalogInv
  <2>2. CASE m.types = << >>
    BY <2>2
  <2>3. ASSUME NEW types \in {Served[c]} \cup {Served[c] \ {t} : t \in Served[c]},
               NEW s \in C!Orders(C!filterAPIResources(types)), m.types = s
        PROVE  m.types \in Seq(C!Known)
    <3> DEFINE L == C!filterAPIResources(types)
    <3>1. types \subseteq Served[c] /\ L \subseteq Served[c] /\ IsFiniteSet(Served[c])
      BY CatalogAssumption DEF C!filterAPIResources
    <3>2. IsFiniteSet(L) /\ L \subseteq C!Known
      BY <3>1, FS_Subset DEF C!Known
    <3> QED BY <2>3, <3>2, OrdersAreOfTypes
  <2> QED BY <1>3, <2>1, <2>2, <2>3 DEF C!Refresh
<1> QED BY <1>1, <1>2, <1>3 DEF CatalogInv

LEMMA DiscoveredKeeps ==
  ASSUME CatalogInv, NEW m \in results, C!Discovered(m)
  PROVE  CatalogInv' /\ Extends(C!Registry', C!Registry)
<1>1. results' = results \ {m} /\ opened' = opened
  BY DEF C!Discovered
<1>2. CASE ~C!Takes(m)
  <2>1. UNCHANGED <<ordered, byName, byShort, resources, rows>>
    BY <1>2 DEF C!Discovered, C!registry
  <2>2. C!Registry' = C!Registry
    BY <2>1 DEF C!Registry
  <2> QED BY <1>1, <2>1, <2>2 DEF CatalogInv, Extends, Sane, CatalogRegistries
<1>3. CASE C!Takes(m)
  <2> DEFINE r == C!RegisterAll(C!Registry, m.types)
  <2>1. m.types \in Seq(C!Known) /\ C!Registry \in Sane
    BY DEF CatalogInv
  <2>2. r \in Sane /\ Extends(r, C!Registry)
    BY <2>1, RegisterAllAdds
  <2>3. /\ ordered' = r.ordered /\ byName' = r.byName /\ byShort' = r.byShort
        /\ resources' = m.types /\ rows' = C!buildPickerEntries(r)
    BY <1>3 DEF C!Discovered
  <2> HIDE DEF r
  <2>4. r = [ordered |-> r.ordered, byName |-> r.byName, byShort |-> r.byShort]
    BY <2>2 DEF Sane, CatalogRegistries
  <2>5. C!Registry' = r
    BY <2>3, <2>4 DEF C!Registry
  <2> QED BY <1>1, <2>1, <2>2, <2>3, <2>5 DEF CatalogInv
<1> QED BY <1>2, <1>3

\* A plain name in a row means a plugin of that name.
LEMMA PickKeeps == ASSUME CatalogInv, NEW i \in DOMAIN rows, C!Pick(i) PROVE CatalogInv'
<1>1. UNCHANGED <<ordered, byName, byShort, results, resources, rows>>
  BY DEF C!Pick, C!registry
<1>2. C!Registry' = C!Registry
  BY <1>1 DEF C!Registry
<1>3. /\ ordered \in Seq(C!Known) /\ byName \in [C!Names -> C!Known \cup {C!None}]
      /\ Shows(rows, ordered, Len(ordered))
  BY RowsAreOfTypes
<1>4. i \in 1 .. Len(rows)
  BY <1>3 DEF Shows
<1>5. PICK a \in 1 .. Len(ordered) : rows[i] = C!Row(ordered, a)
  BY <1>3, <1>4 DEF Shows
<1>6. rows[i].type = ordered[a] /\ ordered[a] \in C!Known
  BY <1>3, <1>5 DEF C!Row
<1>7. ordered[a].name \in C!Names
  BY <1>6, KnownNamed
<1>8. byName[ordered[a].name] # C!None /\ byName[ordered[a].name].name = ordered[a].name
  BY <1>7 DEF CatalogInv, Sane, Meant, C!Registry
<1>9. opened' = [row |-> rows[i], plugin |-> IF rows[i].qualified THEN rows[i].type
                                             ELSE byName[rows[i].type.name]]
  BY DEF C!Pick, C!ByName
<1>10. opened'.plugin.name = opened'.row.type.name
       /\ (opened'.row.qualified => opened'.plugin = opened'.row.type)
  BY <1>6, <1>8, <1>9
<1> QED BY <1>1, <1>2, <1>10 DEF CatalogInv

LEMMA GoToKeeps == ASSUME CatalogInv, NEW i \in DOMAIN resources, C!GoTo(i) PROVE CatalogInv'
<1>1. UNCHANGED <<ordered, byName, byShort, results, resources, rows>>
  BY DEF C!GoTo, C!registry
<1>2. C!Registry' = C!Registry
  BY <1>1 DEF C!Registry
<1>3. resources[i] \in C!Known
  BY DEF CatalogInv
<1>4. resources[i].name \in C!Names
  BY <1>3, KnownNamed
<1>5. byName[resources[i].name] # C!None
  BY DEF C!GoTo, C!ByName
<1>6. byName[resources[i].name].name = resources[i].name
  BY <1>4, <1>5 DEF CatalogInv, Sane, Meant, C!Registry
<1>7. opened' = [row |-> [type |-> resources[i], qualified |-> FALSE],
                 plugin |-> byName[resources[i].name]]
  BY DEF C!GoTo, C!ByName
<1>8. opened'.plugin.name = opened'.row.type.name /\ ~opened'.row.qualified
  BY <1>6, <1>7
<1> QED BY <1>1, <1>2, <1>8 DEF CatalogInv

LEMMA CatalogKeeps ==
  ASSUME CatalogInv, [C!Next]_C!vars
  PROVE  CatalogInv' /\ Extends(C!Registry', C!Registry)
<1>1. ASSUME UNCHANGED <<ordered, byName, byShort>> PROVE Extends(C!Registry', C!Registry)
  <2>1. C!Registry' = C!Registry
    BY <1>1 DEF C!Registry
  <2> QED BY <2>1 DEF CatalogInv, Extends, Sane, CatalogRegistries
<1>2. CASE UNCHANGED C!vars
  <2>1. UNCHANGED <<ordered, byName, byShort, results, resources, rows, opened>>
    BY <1>2 DEF C!vars, C!registry
  <2>2. C!Registry' = C!Registry
    BY <2>1 DEF C!Registry
  <2> QED BY <1>1, <2>1, <2>2 DEF CatalogInv
<1>3. ASSUME NEW c \in Contexts, C!Refresh(c) PROVE CatalogInv' /\ Extends(C!Registry', C!Registry)
  <2>1. UNCHANGED <<ordered, byName, byShort>>
    BY <1>3 DEF C!Refresh, C!registry
  <2> QED BY <1>1, <1>3, <2>1, RefreshKeeps
<1>4. ASSUME NEW m \in results, C!Discovered(m) PROVE CatalogInv' /\ Extends(C!Registry', C!Registry)
  BY <1>4, DiscoveredKeeps
<1>5. ASSUME NEW c \in Contexts, C!Focus(c) PROVE CatalogInv' /\ Extends(C!Registry', C!Registry)
  <2>1. UNCHANGED <<ordered, byName, byShort, results, resources, rows, opened>>
    BY <1>5 DEF C!Focus, C!registry
  <2>2. C!Registry' = C!Registry
    BY <2>1 DEF C!Registry
  <2> QED BY <1>1, <2>1, <2>2 DEF CatalogInv
<1>6. ASSUME NEW i \in DOMAIN rows, C!Pick(i) PROVE CatalogInv' /\ Extends(C!Registry', C!Registry)
  <2>1. UNCHANGED <<ordered, byName, byShort>>
    BY <1>6 DEF C!Pick, C!registry
  <2> QED BY <1>1, <1>6, <2>1, PickKeeps
<1>7. ASSUME NEW i \in DOMAIN resources, C!GoTo(i)
      PROVE  CatalogInv' /\ Extends(C!Registry', C!Registry)
  <2>1. UNCHANGED <<ordered, byName, byShort>>
    BY <1>7 DEF C!GoTo, C!registry
  <2> QED BY <1>1, <1>7, <2>1, GoToKeeps
<1> QED BY <1>2, <1>3, <1>4, <1>5, <1>6, <1>7 DEF C!Next

LEMMA NamesKeep == ASSUME CatalogInv, [C!Next]_C!vars PROVE C!NameStep
<1>1. CatalogInv' /\ Extends(C!Registry', C!Registry)
  BY CatalogKeeps
<1>2. ordered \in Seq(C!Known) /\ ordered' \in Seq(C!Known)
  BY <1>1 DEF CatalogInv, Sane, CatalogRegistries, C!Registry
<1>3. /\ Len(ordered) <= Len(ordered')
      /\ \A j \in 1 .. Len(ordered) : ordered'[j] = ordered[j]
      /\ \A n \in C!Names : byName[n] # C!None => byName'[n] = byName[n]
  BY <1>1 DEF Extends, C!Registry
<1>4. SubSeq(ordered, 1, Len(ordered)) = SubSeq(ordered', 1, Len(ordered))
  BY <1>2, <1>3
<1> QED BY <1>3, <1>4 DEF C!NameStep, C!IsPrefix

LEMMA StepOfCatalog ==
  ASSUME [ToolsNext]_toolsVars, part = "catalog"
  PROVE  [C!Next]_C!vars /\ part' = part
<1>1. CASE UNCHANGED toolsVars
  BY <1>1, ZenonT(30) DEF toolsVars, catalogVars, C!vars, C!registry
<1>2. CASE ToolsNext
  BY <1>2 DEF ToolsNext, TerminalsStep, SearchBarStep, FormsStep, PortForwardsStep, NoticesStep,
              EditsStep, CatalogStep, KeysStep, C!Next
<1> QED BY <1>1, <1>2

CatalogPart == part = "catalog" => CatalogInv

\* Whatever the clusters list and in whatever order the results of discoveries come, a row
\* of the resource picker opens what it says: no two look alike (two built-in types of the
\* name of a custom one apart), a row that names a group opens that very type, and the
\* plugin a plain name means, once it means one, it means for the session
\* (Registry.RegisterIfAbsent, markCollisions, buildPickerEntries, ByName).
THEOREM CatalogStaysTrue == ToolsSpec => CatalogIsTrue
<1>1. ToolsInit => CatalogPart
  BY CatalogBegins DEF ToolsInit, CatalogPart
<1>2. CatalogPart /\ [ToolsNext]_toolsVars => CatalogPart'
  BY StepOfCatalog, PartStays, CatalogKeeps DEF CatalogPart
<1>3. CatalogPart => (part = "catalog" => C!RowsSayWhatTheyOpen)
  BY RowsTell DEF CatalogPart
<1>4. CatalogPart /\ [ToolsNext]_toolsVars => (part = "catalog" => C!NameStep)
  BY StepOfCatalog, NamesKeep DEF CatalogPart
<1> QED BY <1>1, <1>2, <1>3, <1>4, PTL DEF ToolsSpec, CatalogIsTrue

-----------------------------------------------------------------------------
(***************************************************************************)
(* Keys: a chord does what its bindings say, and the help has them all.    *)
(*                                                                         *)
(* The bindings are a tree of lists; the compiler makes a trie of each,    *)
(* from those of the lists nested in it, and the help its hints.  Each of  *)
(* these is a function of the depth (ListsNest, TriesGrow, FlatGrow) or of *)
(* the part of a list or a chord gone through (the other loops), shown to  *)
(* exist and followed with Induct.  A trie has the keys its list binds     *)
(* (TriesSound), and the node of a key is what the last binding on it says *)
(* or, of chords, what they say together (BindingGoesIn, TrieNodes).  So   *)
(* the node a chord has led to (Walked) is that of the list in which its   *)
(* next key is looked up (WalkGoesOn).                                     *)
(***************************************************************************)

\* A loop, its values one by one.
Goes(f, n, v0, G) == f[0] = v0 /\ \A i \in 1 .. n : f[i] = G[i][f[i - 1]]

LEMMA Iterated ==
  ASSUME NEW n \in Nat, NEW V, NEW v0 \in V, NEW G \in [1 .. n -> [V -> V]]
  PROVE  \E f \in [0 .. n -> V] : Goes(f, n, v0, G)
<1>1. PICK f \in [0 .. n -> V] : Loop(f, n, v0, G)
  BY Recursion
<1>2. \A i \in 0 .. n : f[i] = IF i = 0 THEN v0 ELSE G[i][f[i - 1]]
  BY <1>1 DEF Loop
<1> QED BY <1>2 DEF Goes

\* A sequence of sequences put one after another, part by part.
Parts(g, s) ==
    /\ g[0] = << >>
    /\ \A i \in 1 .. Len(s) : g[i] = g[i - 1] \o s[i]
    /\ K!FlattenSeq(s) = g[Len(s)]

LEMMA Flattened ==
  ASSUME NEW V, NEW s \in Seq(Seq(V))
  PROVE  \E g \in [0 .. Len(s) -> Seq(V)] : Parts(g, s)
<1> DEFINE n == Len(s)
           step == [i \in 1 .. n |-> [v \in Seq(V) |-> v \o s[i]]]
           Is(h) == h = [i \in 1 .. n |-> IF i = 1 THEN s[i] ELSE h[i - 1] \o s[i]]
           flat == CHOOSE h : Is(h)
<1>1. n \in Nat /\ \A i \in 1 .. n : s[i] \in Seq(V)
  OBVIOUS
<1>2. K!FlattenSeq(s) = IF n = 0 THEN s ELSE flat[n]
  BY DEF K!FlattenSeq
<1>3. n = 0 => s = << >>
  OBVIOUS
<1> HIDE DEF n
<1>4. step \in [1 .. n -> [Seq(V) -> Seq(V)]]
  BY <1>1
<1>5. << >> \in Seq(V)
  OBVIOUS
<1>6. PICK g \in [0 .. n -> Seq(V)] : Goes(g, n, << >>, step)
  <2> HIDE DEF step
  <2> QED BY <1>1, <1>4, <1>5, Iterated
<1>7. ASSUME NEW i \in 1 .. n PROVE g[i] = g[i - 1] \o s[i]
  <2>1. g[i - 1] \in Seq(V)
    BY <1>1, <1>6, <1>7
  <2> QED BY <1>6, <1>7, <2>1 DEF Goes
<1>8. g[0] = << >>
  BY <1>6 DEF Goes
<1> DEFINE h == [i \in 1 .. n |-> g[i]]
<1>9. Is(h)
  <2>1. ASSUME NEW i \in 1 .. n PROVE h[i] = IF i = 1 THEN s[i] ELSE h[i - 1] \o s[i]
    <3>1. CASE i = 1
      <4>2. g[i] = g[i - 1] \o s[i]
        BY <1>7, <2>1
      <4>3. i - 1 = 0
        BY <3>1
      <4>1. h[i] = << >> \o s[i]
        BY <1>8, <2>1, <4>2, <4>3
      <4> QED BY <1>1, <2>1, <3>1, <4>1
    <3>2. CASE i # 1
      <4>1. i - 1 \in 1 .. n
        BY <1>1, <2>1, <3>2
      <4> QED BY <1>7, <2>1, <3>2, <4>1
    <3> QED BY <3>1, <3>2
  <2> QED BY <2>1
<1>10. Is(flat)
  <2> HIDE DEF Is
  <2> QED BY <1>9
<1> HIDE DEF flat
<1>11. ASSUME NEW i \in 1 .. n PROVE flat[i] = IF i = 1 THEN s[i] ELSE flat[i - 1] \o s[i]
  BY <1>10, <1>11
<1> DEFINE Kept == {i \in 0 .. n : i # 0 => flat[i] = g[i]}
<1>12. \A i \in 0 .. n : i \in Kept
  <2>1. 0 \in Kept
    BY <1>1
  <2>2. ASSUME NEW k \in 0 .. (n - 1), k \in Kept PROVE k + 1 \in Kept
    <3>1. k + 1 \in 1 .. n /\ (k + 1) - 1 = k
      BY <1>1, <2>2
    <3>2. CASE k = 0
      <4>1. flat[k + 1] = s[k + 1]
        BY <1>11, <3>1, <3>2
      <4>2. g[k + 1] = << >> \o s[k + 1]
        BY <1>7, <1>8, <3>1, <3>2
      <4> QED BY <1>1, <3>1, <4>1, <4>2
    <3>3. CASE k # 0
      <4>3. k + 1 # 1
        BY <3>1, <3>3
      <4>1. flat[k + 1] = flat[(k + 1) - 1] \o s[k + 1]
        BY <1>11, <3>1, <4>3
      <4>2. g[k + 1] = g[(k + 1) - 1] \o s[k + 1]
        BY <1>7, <3>1
      <4>4. flat[k] = g[k]
        BY <2>2, <3>3
      <4>5. flat[k + 1] = g[k + 1]
        BY <3>1, <4>1, <4>2, <4>4
      <4> QED BY <1>1, <3>1, <4>5
    <3> QED BY <3>2, <3>3
  <2> HIDE DEF Kept
  <2> QED BY <1>1, <2>1, <2>2, Induct
<1>13. K!FlattenSeq(s) = g[n]
  BY <1>1, <1>2, <1>3, <1>8, <1>12
<1> QED BY <1>6, <1>7, <1>8, <1>13 DEF Parts, n

\* It has what its parts have, and nothing else.
Has(s, x) == \E i \in 1 .. Len(s) : s[i] = x

LEMMA FlattenHas ==
  ASSUME NEW V, NEW s \in Seq(Seq(V))
  PROVE  /\ K!FlattenSeq(s) \in Seq(V)
         /\ \A x : Has(K!FlattenSeq(s), x) <=> \E k \in 1 .. Len(s) : Has(s[k], x)
<1> DEFINE n == Len(s)
<1>1. n \in Nat /\ \A i \in 1 .. n : s[i] \in Seq(V)
  OBVIOUS
<1>2. PICK g \in [0 .. n -> Seq(V)] : Parts(g, s)
  BY Flattened
<1> HIDE DEF n
<1>3. g[0] = << >> /\ (\A i \in 1 .. n : g[i] = g[i - 1] \o s[i]) /\ K!FlattenSeq(s) = g[n]
  BY <1>2 DEF Parts, n
<1>4. ASSUME NEW x PROVE Has(g[n], x) <=> \E k \in 1 .. n : Has(s[k], x)
  <2> DEFINE Kept == {i \in 0 .. n : Has(g[i], x) <=> \E k \in 1 .. i : Has(s[k], x)}
  <2>1. 0 \in Kept
    BY <1>1, <1>3 DEF Has
  <2>2. ASSUME NEW i \in 0 .. (n - 1), i \in Kept PROVE i + 1 \in Kept
    <3>1. i + 1 \in 1 .. n /\ (i + 1) - 1 = i /\ i \in 0 .. n
      BY <1>1, <2>2
    <3>2. g[i + 1] = g[i] \o s[i + 1] /\ g[i] \in Seq(V) /\ s[i + 1] \in Seq(V)
      BY <1>1, <1>2, <1>3, <3>1
    <3>3. Has(g[i + 1], x) <=> Has(g[i], x) \/ Has(s[i + 1], x)
      <4> DEFINE a == g[i]
                 b == s[i + 1]
      <4>1. a \in Seq(V) /\ b \in Seq(V)
        BY <3>2
      <4> HIDE DEF a, b
      <4>2. Has(a \o b, x) => Has(a, x) \/ Has(b, x)
        <5>1. ASSUME NEW l \in 1 .. Len(a \o b), (a \o b)[l] = x PROVE Has(a, x) \/ Has(b, x)
          <6>1. CASE l \in 1 .. Len(a)
            BY <4>1, <5>1, <6>1 DEF Has
          <6>2. CASE l \notin 1 .. Len(a)
            <7>1. l - Len(a) \in 1 .. Len(b) /\ b[l - Len(a)] = x
              BY <4>1, <5>1, <6>2
            <7> QED BY <7>1 DEF Has
          <6> QED BY <6>1, <6>2
        <5> QED BY <5>1 DEF Has
      <4>3. ASSUME NEW l \in 1 .. Len(a), a[l] = x PROVE Has(a \o b, x)
        <5>1. l \in 1 .. Len(a \o b) /\ (a \o b)[l] = x
          BY <4>1, <4>3
        <5> QED BY <5>1 DEF Has
      <4>4. ASSUME NEW l \in 1 .. Len(b), b[l] = x PROVE Has(a \o b, x)
        <5>1. Len(a) + l \in 1 .. Len(a \o b) /\ (a \o b)[Len(a) + l] = x
          BY <4>1, <4>4
        <5> QED BY <5>1 DEF Has
      <4>5. Has(a \o b, x) <=> Has(a, x) \/ Has(b, x)
        BY <4>2, <4>3, <4>4 DEF Has
      <4> QED BY <3>2, <4>5 DEF a, b
    <3>4. \A k : k \in 1 .. (i + 1) <=> k \in 1 .. i \/ k = i + 1
      BY <3>1
    <3> HIDE DEF Has
    <3> QED BY <1>1, <2>2, <3>1, <3>3, <3>4
  <2> HIDE DEF Kept
  <2>3. \A i \in 0 .. n : i \in Kept
    BY <1>1, <2>1, <2>2, Induct
  <2>4. n \in Kept
    BY <1>1, <2>3
  <2> QED BY <2>4 DEF Kept
<1>5. K!FlattenSeq(s) \in Seq(V)
  BY <1>1, <1>2, <1>3
<1> QED BY <1>3, <1>4, <1>5 DEF n

-----------------------------------------------------------------------------
(* The keys: lists of bindings.                                            *)

\* Some of the places of a list are the last.
LEMMA LastIs ==
  ASSUME NEW n \in Nat, NEW S, S \subseteq 1 .. n, S # {}
  PROVE  K!LastOf(S) \in S /\ \A j \in S : j <= K!LastOf(S)
<1> DEFINE R == {n - i : i \in S}
<1>1. R \subseteq Nat /\ R # {}
  <2>1. ASSUME NEW i \in S PROVE n - i \in Nat
    BY <2>1
  <2>2. \E i \in S : TRUE
    OBVIOUS
  <2> QED BY <2>1, <2>2
<1>2. PICK m \in R : \A k \in R : m <= k
  <2> HIDE DEF R
  <2> QED BY <1>1, LeastNat
<1>3. PICK i \in S : m = n - i
  BY <1>2
<1>4. ASSUME NEW j \in S PROVE j <= i
  <2>1. n - j \in R /\ i \in 1 .. n /\ j \in 1 .. n
    BY <1>3, <1>4
  <2>2. m <= n - j
    BY <1>2, <2>1
  <2> QED BY <1>3, <2>1, <2>2
<1> HIDE DEF R
<1>5. \E k \in S : \A j \in S : j <= k
  BY <1>4
<1> QED BY <1>5 DEF K!LastOf

\* A function over 0 .. n and one more value.
Counts0(f, n) == f = [k \in 0 .. n |-> f[k]]
GoesOn(f, n, v) == \E h : Counts0(h, n + 1) /\ h[n + 1] = v /\ \A k \in 0 .. n : h[k] = f[k]

LEMMA OneMore ==
  ASSUME NEW n \in Nat, NEW f, NEW v
  PROVE  GoesOn(f, n, v)
<1> DEFINE h == [k \in 0 .. (n + 1) |-> IF k = n + 1 THEN v ELSE f[k]]
<1>1. Counts0(h, n + 1)
  BY DEF Counts0
<1>2. h[n + 1] = v /\ \A k \in 0 .. n : h[k] = f[k]
  OBVIOUS
<1> HIDE DEF h
<1> QED BY <1>1, <1>2 DEF GoesOn

\* The lists by their depth.
LEMMA ListsNest ==
  /\ K!ListsAt(0) = {KeyList}
  /\ \A n \in 1 .. MaxChord : K!ListsAt(n) = K!Nested(K!ListsAt(n - 1))
<1> DEFINE v0 == {KeyList}
           From(f, n) == f[0] = v0 /\ \A k \in 1 .. n : f[k] = K!Nested(f[k - 1])
           Done == {n \in 0 .. MaxChord : \E f : Counts0(f, n) /\ From(f, n)}
           Is(f) == f = [k \in 0 .. MaxChord |-> IF k = 0 THEN v0 ELSE K!Nested(f[k - 1])]
           byDepth == CHOOSE f : Is(f)
<1>0. MaxChord \in Nat
  BY KeysAssumption
<1>5. \A n : K!ListsAt(n) = byDepth[n]
  BY DEF K!ListsAt
<1> HIDE DEF v0
<1>1. 0 \in Done
  <2>1. PICK f : f = [k \in 0 .. 0 |-> v0]
    OBVIOUS
  <2>2. Counts0(f, 0) /\ From(f, 0)
    BY <2>1 DEF Counts0
  <2> QED BY <1>0, <2>2
<1>2. ASSUME NEW n \in 0 .. (MaxChord - 1), n \in Done PROVE n + 1 \in Done
  <2>1. PICK f : Counts0(f, n) /\ From(f, n)
    BY <1>2
  <2>2. n \in Nat /\ n + 1 \in 0 .. MaxChord
    BY <1>0
  <2>3. PICK h : /\ Counts0(h, n + 1)
                 /\ h[n + 1] = K!Nested(f[n]) /\ \A k \in 0 .. n : h[k] = f[k]
    <3>1. GoesOn(f, n, K!Nested(f[n]))
      BY <2>2, OneMore
    <3> QED BY <3>1 DEF GoesOn
  <2>4. ASSUME NEW k \in 1 .. (n + 1) PROVE h[k] = K!Nested(h[k - 1])
    <3>1. CASE k = n + 1
      BY <2>2, <2>3, <3>1
    <3>2. CASE k # n + 1
      BY <2>1, <2>2, <2>3, <2>4, <3>2
    <3> QED BY <3>1, <3>2
  <2>5. h[0] = v0
    BY <2>1, <2>2, <2>3
  <2> QED BY <2>2, <2>3, <2>4, <2>5
<1>3. MaxChord \in Done
  <2> HIDE DEF Done
  <2>1. \A k \in 0 .. (MaxChord - 1) : k \in Done => k + 1 \in Done
    BY <1>2
  <2> QED BY <1>0, <1>1, <2>1, Induct
<1>4. Is(byDepth)
  <2>1. PICK f : Counts0(f, MaxChord) /\ From(f, MaxChord)
    BY <1>3
  <2>2. ASSUME NEW k \in 0 .. MaxChord PROVE f[k] = IF k = 0 THEN v0 ELSE K!Nested(f[k - 1])
    BY <1>0, <2>1, <2>2
  <2>3. Is(f)
    BY <2>1, <2>2 DEF Counts0
  <2> HIDE DEF Is
  <2> QED BY <2>3
<1> HIDE DEF byDepth
<1>6. byDepth[0] = v0 /\ \A n \in 1 .. MaxChord : byDepth[n] = K!Nested(byDepth[n - 1])
  <2>1. \A n \in 0 .. MaxChord : byDepth[n] = IF n = 0 THEN v0 ELSE K!Nested(byDepth[n - 1])
    BY <1>4
  <2>2. 0 \in 0 .. MaxChord /\ \A n \in 1 .. MaxChord : n \in 0 .. MaxChord /\ n # 0
    BY <1>0
  <2> QED BY <2>1, <2>2
<1> QED BY <1>5, <1>6 DEF v0

\* The tries of all lists, by how long their chords are.
LEMMA TriesGrow ==
  ASSUME NEW c
  PROVE  \E f : /\ f[0] = [l \in K!Lists |-> K!NoKeys]
                /\ \A k \in 1 .. MaxChord : f[k] = K!AllInserted(f[k - 1], c)
                /\ \A k \in 0 .. MaxChord : K!Tries(k, c) = f[k]
<1> DEFINE n == MaxChord
           v0 == [l \in K!Lists |-> K!NoKeys]
           From(f, m) == f[0] = v0 /\ \A k \in 1 .. m : f[k] = K!AllInserted(f[k - 1], c)
           Done == {m \in 0 .. n : \E f : Counts0(f, m) /\ From(f, m)}
           Is(f) == f = [k \in 0 .. n |-> IF k = 0 THEN v0 ELSE K!AllInserted(f[k - 1], c)]
           whole == CHOOSE f : Is(f)
<1>0. n \in Nat
  BY KeysAssumption
<1>5. \A k : K!Tries(k, c) = whole[k]
  BY DEF K!Tries
<1> HIDE DEF v0, n
<1>1. 0 \in Done
  <2>1. PICK f : f = [k \in 0 .. 0 |-> v0]
    OBVIOUS
  <2>2. Counts0(f, 0) /\ From(f, 0)
    BY <2>1 DEF Counts0
  <2> QED BY <1>0, <2>2
<1>2. ASSUME NEW m \in 0 .. (n - 1), m \in Done PROVE m + 1 \in Done
  <2>1. PICK f : Counts0(f, m) /\ From(f, m)
    BY <1>2
  <2>2. m \in Nat /\ m + 1 \in 0 .. n /\ (m + 1) - 1 = m
    BY <1>0
  <2>3. PICK h : /\ Counts0(h, m + 1)
                 /\ h[m + 1] = K!AllInserted(f[m], c) /\ \A k \in 0 .. m : h[k] = f[k]
    <3>1. GoesOn(f, m, K!AllInserted(f[m], c))
      BY <2>2, OneMore
    <3> QED BY <3>1 DEF GoesOn
  <2>4. ASSUME NEW k \in 1 .. (m + 1) PROVE h[k] = K!AllInserted(h[k - 1], c)
    <3>1. CASE k = m + 1
      <4>1. h[k - 1] = f[m]
        BY <2>2, <2>3, <3>1
      <4> QED BY <2>3, <3>1, <4>1
    <3>2. CASE k # m + 1
      <4>1. k \in 1 .. m /\ k \in 0 .. m /\ k - 1 \in 0 .. m
        BY <2>2, <2>4, <3>2
      <4>2. h[k] = f[k] /\ h[k - 1] = f[k - 1]
        BY <2>3, <4>1
      <4> QED BY <2>1, <4>1, <4>2
    <3> QED BY <3>1, <3>2
  <2>5. h[0] = v0
    BY <2>1, <2>2, <2>3
  <2> QED BY <2>2, <2>3, <2>4, <2>5
<1>3. n \in Done
  <2> HIDE DEF Done
  <2>1. \A k \in 0 .. (n - 1) : k \in Done => k + 1 \in Done
    BY <1>2
  <2>2. \A k \in 0 .. n : k \in Done
    BY <1>0, <1>1, <2>1, Induct
  <2> QED BY <1>0, <2>2
<1>4. Is(whole)
  <2>1. PICK f : Counts0(f, n) /\ From(f, n)
    BY <1>3
  <2>2. ASSUME NEW k \in 0 .. n PROVE f[k] = IF k = 0 THEN v0 ELSE K!AllInserted(f[k - 1], c)
    BY <1>0, <2>1, <2>2
  <2>3. Is(f)
    BY <2>1, <2>2 DEF Counts0
  <2> HIDE DEF Is
  <2> QED BY <2>3
<1> HIDE DEF whole
<1>6. whole[0] = v0 /\ \A k \in 1 .. n : whole[k] = K!AllInserted(whole[k - 1], c)
  <2>1. \A k \in 0 .. n : whole[k] = IF k = 0 THEN v0 ELSE K!AllInserted(whole[k - 1], c)
    BY <1>4
  <2>2. 0 \in 0 .. n /\ \A k \in 1 .. n : k \in 0 .. n /\ k # 0
    BY <1>0
  <2> QED BY <2>1, <2>2
<1> QED BY <1>5, <1>6 DEF v0, n

\* The hints of all lists, likewise.
LEMMA FlatGrow ==
  \E f : /\ f[0] = [l \in K!Lists |-> << >>]
         /\ \A k \in 1 .. MaxChord : f[k] = K!AllFlat(f[k - 1])
         /\ \A k \in 0 .. MaxChord : K!Flat(k) = f[k]
<1> DEFINE n == MaxChord
           v0 == [l \in K!Lists |-> << >>]
           From(f, m) == f[0] = v0 /\ \A k \in 1 .. m : f[k] = K!AllFlat(f[k - 1])
           Done == {m \in 0 .. n : \E f : Counts0(f, m) /\ From(f, m)}
           Is(f) == f = [k \in 0 .. n |-> IF k = 0 THEN v0 ELSE K!AllFlat(f[k - 1])]
           whole == CHOOSE f : Is(f)
<1>0. n \in Nat
  BY KeysAssumption
<1>5. \A k : K!Flat(k) = whole[k]
  BY DEF K!Flat
<1> HIDE DEF v0, n
<1>1. 0 \in Done
  <2>1. PICK f : f = [k \in 0 .. 0 |-> v0]
    OBVIOUS
  <2>2. Counts0(f, 0) /\ From(f, 0)
    BY <2>1 DEF Counts0
  <2> QED BY <1>0, <2>2
<1>2. ASSUME NEW m \in 0 .. (n - 1), m \in Done PROVE m + 1 \in Done
  <2>1. PICK f : Counts0(f, m) /\ From(f, m)
    BY <1>2
  <2>2. m \in Nat /\ m + 1 \in 0 .. n /\ (m + 1) - 1 = m
    BY <1>0
  <2>3. PICK h : /\ Counts0(h, m + 1)
                 /\ h[m + 1] = K!AllFlat(f[m]) /\ \A k \in 0 .. m : h[k] = f[k]
    <3>1. GoesOn(f, m, K!AllFlat(f[m]))
      BY <2>2, OneMore
    <3> QED BY <3>1 DEF GoesOn
  <2>4. ASSUME NEW k \in 1 .. (m + 1) PROVE h[k] = K!AllFlat(h[k - 1])
    <3>1. CASE k = m + 1
      <4>1. h[k - 1] = f[m]
        BY <2>2, <2>3, <3>1
      <4> QED BY <2>3, <3>1, <4>1
    <3>2. CASE k # m + 1
      <4>1. k \in 1 .. m /\ k \in 0 .. m /\ k - 1 \in 0 .. m
        BY <2>2, <2>4, <3>2
      <4>2. h[k] = f[k] /\ h[k - 1] = f[k - 1]
        BY <2>3, <4>1
      <4> QED BY <2>1, <4>1, <4>2
    <3> QED BY <3>1, <3>2
  <2>5. h[0] = v0
    BY <2>1, <2>2, <2>3
  <2> QED BY <2>2, <2>3, <2>4, <2>5
<1>3. n \in Done
  <2> HIDE DEF Done
  <2>1. \A k \in 0 .. (n - 1) : k \in Done => k + 1 \in Done
    BY <1>2
  <2>2. \A k \in 0 .. n : k \in Done
    BY <1>0, <1>1, <2>1, Induct
  <2> QED BY <1>0, <2>2
<1>4. Is(whole)
  <2>1. PICK f : Counts0(f, n) /\ From(f, n)
    BY <1>3
  <2>2. ASSUME NEW k \in 0 .. n PROVE f[k] = IF k = 0 THEN v0 ELSE K!AllFlat(f[k - 1])
    BY <1>0, <2>1, <2>2
  <2>3. Is(f)
    BY <2>1, <2>2 DEF Counts0
  <2> HIDE DEF Is
  <2> QED BY <2>3
<1> HIDE DEF whole
<1>6. whole[0] = v0 /\ \A k \in 1 .. n : whole[k] = K!AllFlat(whole[k - 1])
  <2>1. \A k \in 0 .. n : whole[k] = IF k = 0 THEN v0 ELSE K!AllFlat(whole[k - 1])
    BY <1>4
  <2>2. 0 \in 0 .. n /\ \A k \in 1 .. n : k \in 0 .. n /\ k # 0
    BY <1>0
  <2> QED BY <2>1, <2>2
<1> QED BY <1>5, <1>6 DEF v0, n

\* A list goes into its trie a binding at a time.
LEMMA InsertedLoop ==
  ASSUME NEW l, NEW below, NEW c, Len(l) \in Nat
  PROVE  \E f : /\ f[0] = K!NoKeys
                /\ \A k \in 1 .. Len(l) : f[k] = K!insertBinding(f[k - 1], l[k], below, c)
                /\ K!Inserted(l, below, c) = f[Len(l)]
<1> DEFINE n == Len(l)
           v0 == K!NoKeys
           From(f, m) == f[0] = v0 /\ \A k \in 1 .. m : f[k] = K!insertBinding(f[k - 1], l[k], below, c)
           Done == {m \in 0 .. n : \E f : Counts0(f, m) /\ From(f, m)}
           Is(f) == f = [k \in 0 .. n |-> IF k = 0 THEN v0 ELSE K!insertBinding(f[k - 1], l[k], below, c)]
           whole == CHOOSE f : Is(f)
<1>0. n \in Nat
  OBVIOUS
<1>5. K!Inserted(l, below, c) = whole[Len(l)]
  BY DEF K!Inserted
<1> HIDE DEF v0, n
<1>1. 0 \in Done
  <2>1. PICK f : f = [k \in 0 .. 0 |-> v0]
    OBVIOUS
  <2>2. Counts0(f, 0) /\ From(f, 0)
    BY <2>1 DEF Counts0
  <2> QED BY <1>0, <2>2
<1>2. ASSUME NEW m \in 0 .. (n - 1), m \in Done PROVE m + 1 \in Done
  <2>1. PICK f : Counts0(f, m) /\ From(f, m)
    BY <1>2
  <2>2. m \in Nat /\ m + 1 \in 0 .. n /\ (m + 1) - 1 = m
    BY <1>0
  <2>3. PICK h : /\ Counts0(h, m + 1)
                 /\ h[m + 1] = K!insertBinding(f[m], l[(m + 1)], below, c) /\ \A k \in 0 .. m : h[k] = f[k]
    <3>1. GoesOn(f, m, K!insertBinding(f[m], l[(m + 1)], below, c))
      BY <2>2, OneMore
    <3> QED BY <3>1 DEF GoesOn
  <2>4. ASSUME NEW k \in 1 .. (m + 1) PROVE h[k] = K!insertBinding(h[k - 1], l[k], below, c)
    <3>1. CASE k = m + 1
      <4>1. h[k - 1] = f[m]
        BY <2>2, <2>3, <3>1
      <4> QED BY <2>3, <3>1, <4>1
    <3>2. CASE k # m + 1
      <4>1. k \in 1 .. m /\ k \in 0 .. m /\ k - 1 \in 0 .. m
        BY <2>2, <2>4, <3>2
      <4>2. h[k] = f[k] /\ h[k - 1] = f[k - 1]
        BY <2>3, <4>1
      <4> QED BY <2>1, <4>1, <4>2
    <3> QED BY <3>1, <3>2
  <2>5. h[0] = v0
    BY <2>1, <2>2, <2>3
  <2> QED BY <2>2, <2>3, <2>4, <2>5
<1>3. n \in Done
  <2> HIDE DEF Done
  <2>1. \A k \in 0 .. (n - 1) : k \in Done => k + 1 \in Done
    BY <1>2
  <2>2. \A k \in 0 .. n : k \in Done
    BY <1>0, <1>1, <2>1, Induct
  <2> QED BY <1>0, <2>2
<1>4. Is(whole)
  <2>1. PICK f : Counts0(f, n) /\ From(f, n)
    BY <1>3
  <2>2. ASSUME NEW k \in 0 .. n PROVE f[k] = IF k = 0 THEN v0 ELSE K!insertBinding(f[k - 1], l[k], below, c)
    BY <1>0, <2>1, <2>2
  <2>3. Is(f)
    BY <2>1, <2>2 DEF Counts0
  <2> HIDE DEF Is
  <2> QED BY <2>3
<1> HIDE DEF whole
<1>6. whole[0] = v0 /\ \A k \in 1 .. n : whole[k] = K!insertBinding(whole[k - 1], l[k], below, c)
  <2>1. \A k \in 0 .. n : whole[k] = IF k = 0 THEN v0 ELSE K!insertBinding(whole[k - 1], l[k], below, c)
    BY <1>4
  <2>2. 0 \in 0 .. n /\ \A k \in 1 .. n : k \in 0 .. n /\ k # 0
    BY <1>0
  <2> QED BY <2>1, <2>2
<1> QED BY <1>5, <1>6 DEF v0, n

\* A chord goes down a trie a key at a time.
LEMMA AtLoop ==
  ASSUME NEW nodes, NEW keys, Len(keys) \in Nat
  PROVE  \E f : /\ f[0] = nodes
                /\ \A k \in 1 .. Len(keys) : f[k] = f[k - 1][keys[k]].keys
                /\ K!At(nodes, keys) = f[Len(keys)]
<1> DEFINE n == Len(keys)
           v0 == nodes
           From(f, m) == f[0] = v0 /\ \A k \in 1 .. m : f[k] = f[k - 1][keys[k]].keys
           Done == {m \in 0 .. n : \E f : Counts0(f, m) /\ From(f, m)}
           Is(f) == f = [k \in 0 .. n |-> IF k = 0 THEN v0 ELSE f[k - 1][keys[k]].keys]
           whole == CHOOSE f : Is(f)
<1>0. n \in Nat
  OBVIOUS
<1>5. K!At(nodes, keys) = whole[Len(keys)]
  BY DEF K!At
<1> HIDE DEF v0, n
<1>1. 0 \in Done
  <2>1. PICK f : f = [k \in 0 .. 0 |-> v0]
    OBVIOUS
  <2>2. Counts0(f, 0) /\ From(f, 0)
    BY <2>1 DEF Counts0
  <2> QED BY <1>0, <2>2
<1>2. ASSUME NEW m \in 0 .. (n - 1), m \in Done PROVE m + 1 \in Done
  <2>1. PICK f : Counts0(f, m) /\ From(f, m)
    BY <1>2
  <2>2. m \in Nat /\ m + 1 \in 0 .. n /\ (m + 1) - 1 = m
    BY <1>0
  <2>3. PICK h : /\ Counts0(h, m + 1)
                 /\ h[m + 1] = f[m][keys[(m + 1)]].keys /\ \A k \in 0 .. m : h[k] = f[k]
    <3>1. GoesOn(f, m, f[m][keys[(m + 1)]].keys)
      BY <2>2, OneMore
    <3> QED BY <3>1 DEF GoesOn
  <2>4. ASSUME NEW k \in 1 .. (m + 1) PROVE h[k] = h[k - 1][keys[k]].keys
    <3>1. CASE k = m + 1
      <4>1. h[k - 1] = f[m]
        BY <2>2, <2>3, <3>1
      <4> QED BY <2>3, <3>1, <4>1
    <3>2. CASE k # m + 1
      <4>1. k \in 1 .. m /\ k \in 0 .. m /\ k - 1 \in 0 .. m
        BY <2>2, <2>4, <3>2
      <4>2. h[k] = f[k] /\ h[k - 1] = f[k - 1]
        BY <2>3, <4>1
      <4> QED BY <2>1, <4>1, <4>2
    <3> QED BY <3>1, <3>2
  <2>5. h[0] = v0
    BY <2>1, <2>2, <2>3
  <2> QED BY <2>2, <2>3, <2>4, <2>5
<1>3. n \in Done
  <2> HIDE DEF Done
  <2>1. \A k \in 0 .. (n - 1) : k \in Done => k + 1 \in Done
    BY <1>2
  <2>2. \A k \in 0 .. n : k \in Done
    BY <1>0, <1>1, <2>1, Induct
  <2> QED BY <1>0, <2>2
<1>4. Is(whole)
  <2>1. PICK f : Counts0(f, n) /\ From(f, n)
    BY <1>3
  <2>2. ASSUME NEW k \in 0 .. n PROVE f[k] = IF k = 0 THEN v0 ELSE f[k - 1][keys[k]].keys
    BY <1>0, <2>1, <2>2
  <2>3. Is(f)
    BY <2>1, <2>2 DEF Counts0
  <2> HIDE DEF Is
  <2> QED BY <2>3
<1> HIDE DEF whole
<1>6. whole[0] = v0 /\ \A k \in 1 .. n : whole[k] = whole[k - 1][keys[k]].keys
  <2>1. \A k \in 0 .. n : whole[k] = IF k = 0 THEN v0 ELSE whole[k - 1][keys[k]].keys
    BY <1>4
  <2>2. 0 \in 0 .. n /\ \A k \in 1 .. n : k \in 0 .. n /\ k # 0
    BY <1>0
  <2> QED BY <2>1, <2>2
<1> QED BY <1>5, <1>6 DEF v0, n

\* And it is read a key at a time.
LEMMA ReadLoop ==
  ASSUME NEW keys, NEW c, Len(keys) \in Nat \ {0}
  PROVE  \E f : /\ f[0] = KeyList
                /\ \A k \in 1 .. (Len(keys) - 1) : f[k] = K!Into(f[k - 1], keys[k], keys[k + 1], c)
                /\ K!Read(keys, c) = f[Len(keys) - 1]
<1> DEFINE n == (Len(keys) - 1)
           v0 == KeyList
           From(f, m) == f[0] = v0 /\ \A k \in 1 .. m : f[k] = K!Into(f[k - 1], keys[k], keys[k + 1], c)
           Done == {m \in 0 .. n : \E f : Counts0(f, m) /\ From(f, m)}
           Is(f) == f = [k \in 0 .. n |-> IF k = 0 THEN v0 ELSE K!Into(f[k - 1], keys[k], keys[k + 1], c)]
           whole == CHOOSE f : Is(f)
<1>0. n \in Nat
  OBVIOUS
<1>5. K!Read(keys, c) = whole[Len(keys) - 1]
  BY DEF K!Read
<1> HIDE DEF v0, n
<1>1. 0 \in Done
  <2>1. PICK f : f = [k \in 0 .. 0 |-> v0]
    OBVIOUS
  <2>2. Counts0(f, 0) /\ From(f, 0)
    BY <2>1 DEF Counts0
  <2> QED BY <1>0, <2>2
<1>2. ASSUME NEW m \in 0 .. (n - 1), m \in Done PROVE m + 1 \in Done
  <2>1. PICK f : Counts0(f, m) /\ From(f, m)
    BY <1>2
  <2>2. m \in Nat /\ m + 1 \in 0 .. n /\ (m + 1) - 1 = m
    BY <1>0
  <2>3. PICK h : /\ Counts0(h, m + 1)
                 /\ h[m + 1] = K!Into(f[m], keys[(m + 1)], keys[(m + 1) + 1], c) /\ \A k \in 0 .. m : h[k] = f[k]
    <3>1. GoesOn(f, m, K!Into(f[m], keys[(m + 1)], keys[(m + 1) + 1], c))
      BY <2>2, OneMore
    <3> QED BY <3>1 DEF GoesOn
  <2>4. ASSUME NEW k \in 1 .. (m + 1) PROVE h[k] = K!Into(h[k - 1], keys[k], keys[k + 1], c)
    <3>1. CASE k = m + 1
      <4>1. h[k - 1] = f[m]
        BY <2>2, <2>3, <3>1
      <4> QED BY <2>3, <3>1, <4>1
    <3>2. CASE k # m + 1
      <4>1. k \in 1 .. m /\ k \in 0 .. m /\ k - 1 \in 0 .. m
        BY <2>2, <2>4, <3>2
      <4>2. h[k] = f[k] /\ h[k - 1] = f[k - 1]
        BY <2>3, <4>1
      <4> QED BY <2>1, <4>1, <4>2
    <3> QED BY <3>1, <3>2
  <2>5. h[0] = v0
    BY <2>1, <2>2, <2>3
  <2> QED BY <2>2, <2>3, <2>4, <2>5
<1>3. n \in Done
  <2> HIDE DEF Done
  <2>1. \A k \in 0 .. (n - 1) : k \in Done => k + 1 \in Done
    BY <1>2
  <2>2. \A k \in 0 .. n : k \in Done
    BY <1>0, <1>1, <2>1, Induct
  <2> QED BY <1>0, <2>2
<1>4. Is(whole)
  <2>1. PICK f : Counts0(f, n) /\ From(f, n)
    BY <1>3
  <2>2. ASSUME NEW k \in 0 .. n PROVE f[k] = IF k = 0 THEN v0 ELSE K!Into(f[k - 1], keys[k], keys[k + 1], c)
    BY <1>0, <2>1, <2>2
  <2>3. Is(f)
    BY <2>1, <2>2 DEF Counts0
  <2> HIDE DEF Is
  <2> QED BY <2>3
<1> HIDE DEF whole
<1>6. whole[0] = v0 /\ \A k \in 1 .. n : whole[k] = K!Into(whole[k - 1], keys[k], keys[k + 1], c)
  <2>1. \A k \in 0 .. n : whole[k] = IF k = 0 THEN v0 ELSE K!Into(whole[k - 1], keys[k], keys[k + 1], c)
    BY <1>4
  <2>2. 0 \in 0 .. n /\ \A k \in 1 .. n : k \in 0 .. n /\ k # 0
    BY <1>0
  <2> QED BY <2>1, <2>2
<1> QED BY <1>5, <1>6 DEF v0, n

\* Hints are looked through one at a time.
LEMMA FoundLoop ==
  ASSUME NEW all, NEW query, Len(all) \in Nat
  PROVE  \E f : /\ f[0] = << >>
                /\ \A k \in 1 .. Len(all) : f[k] = (IF query \in all[k].words THEN Append(f[k - 1], all[k]) ELSE f[k - 1])
                /\ K!Found(all, query) = f[Len(all)]
<1> DEFINE n == Len(all)
           v0 == << >>
           From(f, m) == f[0] = v0 /\ \A k \in 1 .. m : f[k] = (IF query \in all[k].words THEN Append(f[k - 1], all[k]) ELSE f[k - 1])
           Done == {m \in 0 .. n : \E f : Counts0(f, m) /\ From(f, m)}
           Is(f) == f = [k \in 0 .. n |-> IF k = 0 THEN v0 ELSE (IF query \in all[k].words THEN Append(f[k - 1], all[k]) ELSE f[k - 1])]
           whole == CHOOSE f : Is(f)
<1>0. n \in Nat
  OBVIOUS
<1>5. K!Found(all, query) = whole[Len(all)]
  BY DEF K!Found
<1> HIDE DEF v0, n
<1>1. 0 \in Done
  <2>1. PICK f : f = [k \in 0 .. 0 |-> v0]
    OBVIOUS
  <2>2. Counts0(f, 0) /\ From(f, 0)
    BY <2>1 DEF Counts0
  <2> QED BY <1>0, <2>2
<1>2. ASSUME NEW m \in 0 .. (n - 1), m \in Done PROVE m + 1 \in Done
  <2>1. PICK f : Counts0(f, m) /\ From(f, m)
    BY <1>2
  <2>2. m \in Nat /\ m + 1 \in 0 .. n /\ (m + 1) - 1 = m
    BY <1>0
  <2>3. PICK h : /\ Counts0(h, m + 1)
                 /\ h[m + 1] = (IF query \in all[(m + 1)].words THEN Append(f[m], all[(m + 1)]) ELSE f[m]) /\ \A k \in 0 .. m : h[k] = f[k]
    <3>1. GoesOn(f, m, (IF query \in all[(m + 1)].words THEN Append(f[m], all[(m + 1)]) ELSE f[m]))
      BY <2>2, OneMore
    <3> QED BY <3>1 DEF GoesOn
  <2>4. ASSUME NEW k \in 1 .. (m + 1) PROVE h[k] = (IF query \in all[k].words THEN Append(h[k - 1], all[k]) ELSE h[k - 1])
    <3>1. CASE k = m + 1
      <4>1. h[k - 1] = f[m]
        BY <2>2, <2>3, <3>1
      <4> QED BY <2>3, <3>1, <4>1
    <3>2. CASE k # m + 1
      <4>1. k \in 1 .. m /\ k \in 0 .. m /\ k - 1 \in 0 .. m
        BY <2>2, <2>4, <3>2
      <4>2. h[k] = f[k] /\ h[k - 1] = f[k - 1]
        BY <2>3, <4>1
      <4> QED BY <2>1, <4>1, <4>2
    <3> QED BY <3>1, <3>2
  <2>5. h[0] = v0
    BY <2>1, <2>2, <2>3
  <2> QED BY <2>2, <2>3, <2>4, <2>5
<1>3. n \in Done
  <2> HIDE DEF Done
  <2>1. \A k \in 0 .. (n - 1) : k \in Done => k + 1 \in Done
    BY <1>2
  <2>2. \A k \in 0 .. n : k \in Done
    BY <1>0, <1>1, <2>1, Induct
  <2> QED BY <1>0, <2>2
<1>4. Is(whole)
  <2>1. PICK f : Counts0(f, n) /\ From(f, n)
    BY <1>3
  <2>2. ASSUME NEW k \in 0 .. n PROVE f[k] = IF k = 0 THEN v0 ELSE (IF query \in all[k].words THEN Append(f[k - 1], all[k]) ELSE f[k - 1])
    BY <1>0, <2>1, <2>2
  <2>3. Is(f)
    BY <2>1, <2>2 DEF Counts0
  <2> HIDE DEF Is
  <2> QED BY <2>3
<1> HIDE DEF whole
<1>6. whole[0] = v0 /\ \A k \in 1 .. n : whole[k] = (IF query \in all[k].words THEN Append(whole[k - 1], all[k]) ELSE whole[k - 1])
  <2>1. \A k \in 0 .. n : whole[k] = IF k = 0 THEN v0 ELSE (IF query \in all[k].words THEN Append(whole[k - 1], all[k]) ELSE whole[k - 1])
    BY <1>4
  <2>2. 0 \in 0 .. n /\ \A k \in 1 .. n : k \in 0 .. n /\ k # 0
    BY <1>0
  <2> QED BY <2>1, <2>2
<1> QED BY <1>5, <1>6 DEF v0, n

-----------------------------------------------------------------------------
(* The keys: what a list makes of its trie.                                *)

Maps(f) == f = [x \in DOMAIN f |-> f[x]]

LEMMA NoKeysIs ==
  /\ Maps(K!NoKeys) /\ DOMAIN K!NoKeys = {}
  /\ \A f : Maps(f) => (f = K!NoKeys <=> DOMAIN f = {})
<1>1. Maps(K!NoKeys) /\ DOMAIN K!NoKeys = {}
  BY DEF Maps, K!NoKeys
<1>2. ASSUME NEW f, Maps(f), DOMAIN f = {} PROVE f = K!NoKeys
  <2>1. f = [x \in {} |-> f[x]]
    BY <1>2 DEF Maps
  <2> QED BY <2>1 DEF K!NoKeys
<1> QED BY <1>1, <1>2

IsWith(f, nodes, key, node) ==
    /\ Maps(f) /\ DOMAIN f = DOMAIN nodes \cup {key} /\ f[key] = node
    /\ \A k \in DOMAIN nodes : k # key => f[k] = nodes[k]
LEMMA WithIs ==
  ASSUME NEW nodes, NEW key, NEW node
  PROVE  IsWith(K!With(nodes, key, node), nodes, key, node)
BY DEF K!With, Maps, IsWith

IsOver(f, old, new) ==
    /\ Maps(f) /\ DOMAIN f = DOMAIN old \cup DOMAIN new
    /\ \A k \in DOMAIN new : f[k] = new[k]
    /\ \A k \in DOMAIN old : k \notin DOMAIN new => f[k] = old[k]
LEMMA OverIs ==
  ASSUME NEW old, NEW new
  PROVE  IsOver(K!Over(old, new), old, new)
BY DEF K!Over, Maps, IsOver

\* The bindings of a key among the first i of a list, the chords that are read together,
\* and those of them that a next key continues.
BoundTo(l, key, c, i) == {j \in K!On(l, key, c) : j <= i}
ChordsTo(l, key, c, i) ==
    {j \in BoundTo(l, key, c, i) :
       l[j].keys # << >> /\ \A m \in BoundTo(l, key, c, i) : l[m].keys = << >> => m < j}
NextTo(l, key, x, below, c, i) ==
    {j \in ChordsTo(l, key, c, i) : x \in DOMAIN below[K!Within(l[j])]}

LEMMA LastTop ==
  ASSUME NEW i \in Nat, NEW S, S \subseteq 1 .. i
  PROVE  K!LastOf(S \cup {i + 1}) = i + 1
<1>1. S \cup {i + 1} \subseteq 1 .. (i + 1) /\ S \cup {i + 1} # {} /\ i + 1 \in Nat
  OBVIOUS
<1>2. /\ K!LastOf(S \cup {i + 1}) \in S \cup {i + 1}
      /\ \A j \in S \cup {i + 1} : j <= K!LastOf(S \cup {i + 1})
  BY <1>1, LastIs
<1>3. K!LastOf(S \cup {i + 1}) \in 1 .. (i + 1) /\ i + 1 <= K!LastOf(S \cup {i + 1})
  BY <1>1, <1>2
<1> QED BY <1>3

\* One binding more: it is another key's or does not apply, it is plain, or a chord.
Apart(l, i, key, c) == l[i + 1].key # key \/ ~K!matchesContext(l[i + 1], c)
SameBound(l, i, key, below, c) ==
    /\ BoundTo(l, key, c, i + 1) = BoundTo(l, key, c, i)
    /\ \A x : NextTo(l, key, x, below, c, i + 1) = NextTo(l, key, x, below, c, i)
BoundLast(l, i, key, c) ==
    BoundTo(l, key, c, i + 1) # {} /\ K!LastOf(BoundTo(l, key, c, i + 1)) = i + 1
NoNext(l, i, key, below, c) == \A x : NextTo(l, key, x, below, c, i + 1) = {}
NextMore(l, i, key, below, c) ==
    \A x : /\ x \notin DOMAIN below[K!Within(l[i + 1])] =>
                NextTo(l, key, x, below, c, i + 1) = NextTo(l, key, x, below, c, i)
           /\ x \in DOMAIN below[K!Within(l[i + 1])] =>
                /\ NextTo(l, key, x, below, c, i + 1) # {}
                /\ K!LastOf(NextTo(l, key, x, below, c, i + 1)) = i + 1

LEMMA BoundMore ==
  ASSUME NEW l, DOMAIN l = 1 .. Len(l), Len(l) \in Nat, NEW i \in 0 .. (Len(l) - 1),
         NEW key, NEW c, NEW below
  PROVE  /\ Apart(l, i, key, c) => SameBound(l, i, key, below, c)
         /\ ~Apart(l, i, key, c) =>
              /\ BoundLast(l, i, key, c)
              /\ l[i + 1].keys = << >> => NoNext(l, i, key, below, c)
              /\ l[i + 1].keys # << >> => NextMore(l, i, key, below, c)
<1> DEFINE b == l[i + 1]
           on == K!On(l, key, c)
           had == BoundTo(l, key, c, i)
           has == BoundTo(l, key, c, i + 1)
<1>1. on \subseteq 1 .. Len(l)
  BY DEF K!On
<1>2. had \subseteq 1 .. i /\ i \in Nat /\ i + 1 \in 1 .. Len(l)
  BY <1>1 DEF BoundTo
<1>3. i + 1 \in on <=> b.key = key /\ K!matchesContext(b, c)
  BY <1>2 DEF K!On
<1>4. i + 1 \notin on => has = had
  BY <1>1, <1>2 DEF BoundTo
<1>5. i + 1 \in on => has = had \cup {i + 1}
  BY <1>1, <1>2 DEF BoundTo
<1>6. ASSUME i + 1 \notin on, NEW x
      PROVE  NextTo(l, key, x, below, c, i + 1) = NextTo(l, key, x, below, c, i)
  BY <1>4, <1>6 DEF NextTo, ChordsTo
<1>7. ASSUME i + 1 \in on
      PROVE  has # {} /\ K!LastOf(has) = i + 1
  BY <1>2, <1>5, <1>7, LastTop
<1>8. ASSUME i + 1 \in on, b.keys = << >>, NEW x
      PROVE  NextTo(l, key, x, below, c, i + 1) = {}
  <2>1. ASSUME NEW j \in ChordsTo(l, key, c, i + 1) PROVE FALSE
    <3>1. j \in has /\ (\A m \in has : l[m].keys = << >> => m < j)
      BY <2>1 DEF ChordsTo
    <3>2. i + 1 < j
      BY <1>5, <1>8, <3>1
    <3>3. j \in 1 .. (i + 1)
      BY <1>2, <1>5, <1>8, <3>1
    <3> QED BY <1>2, <3>2, <3>3
  <2> QED BY <2>1 DEF NextTo
<1>9. ASSUME i + 1 \in on, b.keys # << >>
      PROVE  ChordsTo(l, key, c, i + 1) = ChordsTo(l, key, c, i) \cup {i + 1}
  <2>1. has = had \cup {i + 1}
    BY <1>5, <1>9
  <2>2. ASSUME NEW j \in had
        PROVE  j \in ChordsTo(l, key, c, i + 1) <=> j \in ChordsTo(l, key, c, i)
    BY <1>9, <2>1, <2>2 DEF ChordsTo
  <2>3. i + 1 \in ChordsTo(l, key, c, i + 1)
    <3>1. ASSUME NEW m \in has, l[m].keys = << >> PROVE m < i + 1
      BY <1>2, <1>9, <2>1, <3>1
    <3> QED BY <1>9, <2>1, <3>1 DEF ChordsTo
  <2>4. ChordsTo(l, key, c, i + 1) \subseteq has /\ ChordsTo(l, key, c, i) \subseteq had
    BY DEF ChordsTo
  <2> HIDE DEF had, has
  <2> QED BY <2>1, <2>2, <2>3, <2>4
<1>10. ASSUME i + 1 \in on, b.keys # << >>, NEW x
       PROVE  /\ x \notin DOMAIN below[K!Within(b)] =>
                   NextTo(l, key, x, below, c, i + 1) = NextTo(l, key, x, below, c, i)
              /\ x \in DOMAIN below[K!Within(b)] =>
                   /\ NextTo(l, key, x, below, c, i + 1) # {}
                   /\ K!LastOf(NextTo(l, key, x, below, c, i + 1)) = i + 1
  <2>1. NextTo(l, key, x, below, c, i) \subseteq 1 .. i
    BY <1>2 DEF NextTo, ChordsTo
  <2>2. x \notin DOMAIN below[K!Within(b)] =>
          NextTo(l, key, x, below, c, i + 1) = NextTo(l, key, x, below, c, i)
    BY <1>9, <1>10 DEF NextTo
  <2>3. x \in DOMAIN below[K!Within(b)] =>
          NextTo(l, key, x, below, c, i + 1) = NextTo(l, key, x, below, c, i) \cup {i + 1}
    BY <1>9, <1>10 DEF NextTo
  <2> QED BY <1>2, <2>1, <2>2, <2>3, LastTop
<1> HIDE DEF on, had
<1>11. i + 1 \in on <=> ~Apart(l, i, key, c)
  BY <1>3 DEF Apart
<1>12. ASSUME i + 1 \notin on PROVE SameBound(l, i, key, below, c)
  BY <1>4, <1>6, <1>12 DEF SameBound, had
<1>13. ASSUME i + 1 \in on, b.keys # << >> PROVE NextMore(l, i, key, below, c)
  BY <1>10, <1>13 DEF NextMore
<1>14. ASSUME i + 1 \in on, b.keys = << >> PROVE NoNext(l, i, key, below, c)
  BY <1>8, <1>14 DEF NoNext
<1>15. ASSUME i + 1 \in on PROVE BoundLast(l, i, key, c)
  BY <1>7, <1>15 DEF BoundLast
<1> QED BY <1>11, <1>12, <1>13, <1>14, <1>15

\* A key's node after the first i bindings, and the nodes.
NodeIs(node, l, key, below, c, i) ==
    /\ Maps(node.keys)
    /\ node.hidden = ~l[K!LastOf(BoundTo(l, key, c, i))].visible
    /\ \A x : x \in DOMAIN node.keys <=> NextTo(l, key, x, below, c, i) # {}
    /\ \A x \in DOMAIN node.keys :
         node.keys[x] = below[K!Within(l[K!LastOf(NextTo(l, key, x, below, c, i))])][x]
    /\ node.keys = K!NoKeys => node.cmd = l[K!LastOf(BoundTo(l, key, c, i))].cmd

Built(nodes, l, below, c, i) ==
    /\ Maps(nodes)
    /\ \A key : key \in DOMAIN nodes <=> BoundTo(l, key, c, i) # {}
    /\ \A key \in DOMAIN nodes : NodeIs(nodes[key], l, key, below, c, i)

LEMMA BranchIs ==
  ASSUME NEW l, DOMAIN l = 1 .. Len(l), Len(l) \in Nat, NEW i \in 0 .. (Len(l) - 1),
         NEW below, NEW c, NEW nodes, Built(nodes, l, below, c, i),
         NEW b, b = l[i + 1], K!matchesContext(b, c), b.keys # << >>,
         NEW children, children = below[K!Within(b)], Maps(children)
  PROVE  \E node : /\ K!Branch(nodes, b, children) = K!With(nodes, b.key, node)
                   /\ NodeIs(node, l, b.key, below, c, i + 1)
<1> DEFINE key == b.key
           Merged == key \in DOMAIN nodes /\ nodes[key].keys # K!NoKeys
           Next0(x) == NextTo(l, key, x, below, c, i)
           Next1(x) == NextTo(l, key, x, below, c, i + 1)
           last == K!LastOf(BoundTo(l, key, c, i + 1))
<1>0. ~Apart(l, i, key, c)
  BY DEF Apart
<1>7. BoundLast(l, i, key, c) /\ NextMore(l, i, key, below, c)
  BY <1>0, BoundMore
<1>1. /\ last = i + 1
      /\ \A x : x \notin DOMAIN children => Next1(x) = Next0(x)
      /\ \A x : x \in DOMAIN children => Next1(x) # {} /\ K!LastOf(Next1(x)) = i + 1
  BY <1>7 DEF BoundLast, NextMore
<1>2. /\ key \in DOMAIN nodes => NodeIs(nodes[key], l, key, below, c, i)
      /\ key \notin DOMAIN nodes => BoundTo(l, key, c, i) = {}
  BY DEF Built
<1> HIDE DEF Next0, Next1, last
<1>3. CASE Merged
  <2> DEFINE old == nodes[key]
             over == K!Over(old.keys, children)
             node == [cmd |-> old.cmd, hidden |-> ~b.visible, keys |-> over]
  <2>1. K!Branch(nodes, b, children) = K!With(nodes, b.key, node)
    BY <1>3 DEF K!Branch
  <2>2. /\ Maps(old.keys) /\ DOMAIN old.keys # {}
        /\ \A x : x \in DOMAIN old.keys <=> Next0(x) # {}
        /\ \A x \in DOMAIN old.keys : old.keys[x] = below[K!Within(l[K!LastOf(Next0(x))])][x]
    BY <1>2, <1>3, NoKeysIs DEF NodeIs, Next0
  <2>3. IsOver(over, old.keys, children)
    BY OverIs
  <2>4. over # K!NoKeys
    BY <2>2, <2>3, NoKeysIs DEF IsOver
  <2>5. node.keys = over /\ node.hidden = ~b.visible
    OBVIOUS
  <2> HIDE DEF over, node, old
  <2>6. \A x : x \in DOMAIN over <=> Next1(x) # {}
    BY <1>1, <2>2, <2>3 DEF IsOver
  <2>7. \A x \in DOMAIN over : over[x] = below[K!Within(l[K!LastOf(Next1(x))])][x]
    BY <1>1, <2>2, <2>3 DEF IsOver
  <2>8. NodeIs(node, l, b.key, below, c, i + 1)
    BY <1>1, <2>3, <2>4, <2>5, <2>6, <2>7 DEF NodeIs, last, Next1, IsOver
  <2> QED BY <2>1, <2>8
<1>4. CASE ~Merged
  <2> DEFINE node == [K!Leaf(b) EXCEPT !.keys = children]
  <2>1. K!Branch(nodes, b, children) = K!With(nodes, b.key, node)
    BY <1>4 DEF K!Branch
  <2>2. \A x : Next0(x) = {}
    <3>1. CASE key \in DOMAIN nodes
      BY <1>2, <1>4, <3>1, NoKeysIs DEF NodeIs, Next0
    <3>2. CASE key \notin DOMAIN nodes
      BY <1>2, <3>2 DEF Next0, NextTo, ChordsTo
    <3> QED BY <3>1, <3>2
  <2>3. node.keys = children /\ node.hidden = ~b.visible /\ node.cmd = b.cmd
    BY DEF K!Leaf
  <2> HIDE DEF node
  <2>4. \A x : x \in DOMAIN children <=> Next1(x) # {}
    BY <1>1, <2>2
  <2>5. \A x \in DOMAIN children : children[x] = below[K!Within(l[K!LastOf(Next1(x))])][x]
    BY <1>1
  <2>6. NodeIs(node, l, b.key, below, c, i + 1)
    BY <1>1, <2>3, <2>4, <2>5 DEF NodeIs, last, Next1
  <2> QED BY <2>1, <2>6
<1> QED BY <1>3, <1>4

LEMMA BindingGoesIn ==
  ASSUME NEW l, DOMAIN l = 1 .. Len(l), Len(l) \in Nat, NEW i \in 0 .. (Len(l) - 1),
         NEW below, NEW c, NEW nodes, Built(nodes, l, below, c, i),
         l[i + 1].keys # << >> => Maps(below[K!Within(l[i + 1])])
  PROVE  Built(K!insertBinding(nodes, l[i + 1], below, c), l, below, c, i + 1)
<1> DEFINE b == l[i + 1]
           after == K!insertBinding(nodes, b, below, c)
<1>1. Maps(nodes) /\ (\A key : key \in DOMAIN nodes <=> BoundTo(l, key, c, i) # {})
      /\ \A key \in DOMAIN nodes : NodeIs(nodes[key], l, key, below, c, i)
  BY DEF Built
<1>2. ASSUME NEW key, b.key # key \/ ~K!matchesContext(b, c)
      PROVE  /\ BoundTo(l, key, c, i + 1) = BoundTo(l, key, c, i)
             /\ \A x : NextTo(l, key, x, below, c, i + 1) = NextTo(l, key, x, below, c, i)
  <2>1. SameBound(l, i, key, below, c)
    BY <1>2, BoundMore DEF Apart
  <2> QED BY <2>1 DEF SameBound
<1>3. ASSUME NEW key, NEW node, b.key # key \/ ~K!matchesContext(b, c),
             NodeIs(node, l, key, below, c, i)
      PROVE  NodeIs(node, l, key, below, c, i + 1)
  BY <1>2, <1>3 DEF NodeIs
<1>4. ASSUME ~K!matchesContext(b, c)
      PROVE  Built(after, l, below, c, i + 1)
  <2>1. after = nodes
    BY <1>4 DEF K!insertBinding
  <2> HIDE DEF after
  <2> QED BY <1>1, <1>2, <1>3, <1>4, <2>1 DEF Built
<1>5. ASSUME K!matchesContext(b, c), NEW node, after = K!With(nodes, b.key, node),
             NodeIs(node, l, b.key, below, c, i + 1)
      PROVE  Built(after, l, below, c, i + 1)
  <2>1. IsWith(after, nodes, b.key, node)
    BY <1>5, WithIs
  <2>2. BoundTo(l, b.key, c, i + 1) # {}
    <3>1. BoundLast(l, i, b.key, c)
      BY <1>5, BoundMore DEF Apart
    <3> QED BY <3>1 DEF BoundLast
  <2> HIDE DEF after
  <2>3. \A key : key \in DOMAIN after <=> BoundTo(l, key, c, i + 1) # {}
    BY <1>1, <1>2, <2>1, <2>2 DEF IsWith
  <2>4. ASSUME NEW key \in DOMAIN after PROVE NodeIs(after[key], l, key, below, c, i + 1)
    <3>1. CASE key = b.key
      BY <1>5, <2>1, <3>1 DEF IsWith
    <3>2. CASE key # b.key
      BY <1>1, <1>3, <2>1, <2>4, <3>2 DEF IsWith
    <3> QED BY <3>1, <3>2
  <2> QED BY <2>1, <2>3, <2>4 DEF Built, IsWith
<1>6. ASSUME K!matchesContext(b, c), b.keys = << >>
      PROVE  Built(after, l, below, c, i + 1)
  <2> DEFINE node == K!Leaf(b)
  <2>1. after = K!With(nodes, b.key, node)
    BY <1>6 DEF K!insertBinding
  <2>2. BoundLast(l, i, b.key, c) /\ NoNext(l, i, b.key, below, c)
    BY <1>6, BoundMore DEF Apart
  <2>3. node.keys = K!NoKeys /\ node.hidden = ~b.visible /\ node.cmd = b.cmd
    BY DEF K!Leaf
  <2> HIDE DEF node, after
  <2>4. NodeIs(node, l, b.key, below, c, i + 1)
    BY <2>2, <2>3, NoKeysIs DEF NodeIs, BoundLast, NoNext
  <2> QED BY <1>5, <1>6, <2>1, <2>4
<1>7. ASSUME K!matchesContext(b, c), b.keys # << >>
      PROVE  Built(after, l, below, c, i + 1)
  <2>1. after = K!Branch(nodes, b, below[K!Within(b)])
    BY <1>7 DEF K!insertBinding
  <2>2. \E node : /\ K!Branch(nodes, b, below[K!Within(b)]) = K!With(nodes, b.key, node)
                  /\ NodeIs(node, l, b.key, below, c, i + 1)
    BY <1>7, BranchIs
  <2> HIDE DEF after
  <2> QED BY <1>5, <1>7, <2>1, <2>2
<1> QED BY <1>4, <1>6, <1>7

\* A whole list.
LEMMA ListGoesIn ==
  ASSUME NEW l, DOMAIN l = 1 .. Len(l), Len(l) \in Nat, NEW below, NEW c,
         \A i \in DOMAIN l : Maps(below[K!Within(l[i])])
  PROVE  Built(K!Inserted(l, below, c), l, below, c, Len(l))
<1> DEFINE n == Len(l)
<1>1. PICK f : /\ f[0] = K!NoKeys
               /\ \A k \in 1 .. n : f[k] = K!insertBinding(f[k - 1], l[k], below, c)
               /\ K!Inserted(l, below, c) = f[n]
  BY InsertedLoop
<1> DEFINE Done == {k \in 0 .. n : Built(f[k], l, below, c, k)}
<1>2. 0 \in Done
  <2>1. \A key : BoundTo(l, key, c, 0) = {}
    BY DEF BoundTo, K!On
  <2>2. Built(f[0], l, below, c, 0)
    BY <1>1, <2>1, NoKeysIs DEF Built
  <2> QED BY <2>2
<1>3. ASSUME NEW k \in 0 .. (n - 1), k \in Done PROVE k + 1 \in Done
  <2>1. k + 1 \in 1 .. n /\ (k + 1) - 1 = k
    OBVIOUS
  <2>2. f[k + 1] = K!insertBinding(f[k], l[k + 1], below, c)
    BY <1>1, <2>1
  <2>3. Built(f[k], l, below, c, k)
    BY <1>3
  <2>4. Maps(below[K!Within(l[k + 1])])
    BY <2>1
  <2>5. Built(K!insertBinding(f[k], l[k + 1], below, c), l, below, c, k + 1)
    BY <2>3, <2>4, BindingGoesIn
  <2> QED BY <2>1, <2>2, <2>5
<1> HIDE DEF Done
<1>4. \A k \in 0 .. (n - 1) : k \in Done => k + 1 \in Done
  BY <1>3
<1>5. n \in Done
  <2>1. \A k \in 0 .. n : k \in Done
    BY <1>2, <1>4, Induct
  <2> QED BY <2>1
<1> QED BY <1>1, <1>5 DEF Done

\* A list is at its depth, and so is what is nested in it.
LEMMA ListAt ==
  ASSUME NEW n \in 0 .. MaxChord, NEW l \in K!ListsAt(n)
  PROVE  /\ l \in K!Lists /\ DOMAIN l = 1 .. Len(l) /\ Len(l) \in Nat
         /\ \A i \in DOMAIN l : n + 1 \in 1 .. MaxChord => K!Within(l[i]) \in K!ListsAt(n + 1)
         /\ n = MaxChord => l = << >>
<1>1. l \in K!Lists
  BY DEF K!Lists
<1>2. ASSUME NEW i \in DOMAIN l, n + 1 \in 1 .. MaxChord PROVE K!Within(l[i]) \in K!ListsAt(n + 1)
  <2>1. K!ListsAt(n + 1) = K!Nested(K!ListsAt((n + 1) - 1))
    BY <1>2, ListsNest
  <2>2. (n + 1) - 1 = n
    BY KeysAssumption
  <2> QED BY <2>1, <2>2 DEF K!Nested
<1> QED BY <1>1, <1>2, KeysAssumption

\* The trie of a list holds the keys that are bound in it.
Sound(n, c) ==
    \A l \in K!ListsAt(MaxChord - n) :
      /\ Maps(K!Tries(n, c)[l])
      /\ \A k : k \in DOMAIN K!Tries(n, c)[l] <=> K!On(l, k, c) # {}

LEMMA TrieIsBuilt ==
  ASSUME NEW c, NEW n \in 1 .. MaxChord, Sound(n - 1, c), NEW l \in K!ListsAt(MaxChord - n)
  PROVE  Built(K!Tries(n, c)[l], l, K!Tries(n - 1, c), c, Len(l))
<1>0. MaxChord \in Nat /\ MaxChord - n \in 0 .. MaxChord /\ (MaxChord - n) + 1 = MaxChord - (n - 1)
      /\ (MaxChord - n) + 1 \in 1 .. MaxChord /\ n - 1 \in 0 .. MaxChord /\ n \in 0 .. MaxChord
  BY KeysAssumption
<1>1. /\ l \in K!Lists /\ DOMAIN l = 1 .. Len(l) /\ Len(l) \in Nat
      /\ \A i \in DOMAIN l : K!Within(l[i]) \in K!ListsAt(MaxChord - (n - 1))
  BY <1>0, ListAt
<1>2. K!Tries(n, c) = K!AllInserted(K!Tries(n - 1, c), c)
  BY <1>0, TriesGrow
<1>3. K!Tries(n, c)[l] = K!Inserted(l, K!Tries(n - 1, c), c)
  BY <1>1, <1>2 DEF K!AllInserted
<1>4. \A i \in DOMAIN l : Maps(K!Tries(n - 1, c)[K!Within(l[i])])
  BY <1>1 DEF Sound
<1> QED BY <1>1, <1>3, <1>4, ListGoesIn

LEMMA BoundAll ==
  ASSUME NEW l, DOMAIN l = 1 .. Len(l), Len(l) \in Nat, NEW key, NEW c
  PROVE  BoundTo(l, key, c, Len(l)) = K!On(l, key, c)
BY DEF BoundTo, K!On

LEMMA TriesSound ==
  ASSUME NEW c
  PROVE  \A n \in 0 .. MaxChord : Sound(n, c)
<1> DEFINE Done == {n \in 0 .. MaxChord : Sound(n, c)}
<1>0. MaxChord \in Nat
  BY KeysAssumption
<1>1. 0 \in Done
  <2>1. K!Tries(0, c) = [l \in K!Lists |-> K!NoKeys]
    BY <1>0, TriesGrow
  <2>2. ASSUME NEW l \in K!ListsAt(MaxChord - 0)
        PROVE  /\ Maps(K!Tries(0, c)[l])
               /\ \A k : k \in DOMAIN K!Tries(0, c)[l] <=> K!On(l, k, c) # {}
    <3>1. MaxChord - 0 = MaxChord /\ MaxChord \in 0 .. MaxChord
      BY <1>0
    <3>2. l \in K!Lists /\ l = << >>
      BY <3>1, ListAt
    <3>3. K!Tries(0, c)[l] = K!NoKeys
      BY <2>1, <3>2
    <3>4. \A k : K!On(l, k, c) = {}
      BY <3>2 DEF K!On
    <3> QED BY <3>3, <3>4, NoKeysIs
  <2> QED BY <1>0, <2>2 DEF Sound
<1>2. ASSUME NEW n \in 0 .. (MaxChord - 1), n \in Done PROVE n + 1 \in Done
  <2>1. n + 1 \in 1 .. MaxChord /\ n + 1 \in 0 .. MaxChord /\ (n + 1) - 1 = n
        /\ MaxChord - (n + 1) \in 0 .. MaxChord
    BY <1>0
  <2>2. ASSUME NEW l \in K!ListsAt(MaxChord - (n + 1))
        PROVE  /\ Maps(K!Tries(n + 1, c)[l])
               /\ \A k : k \in DOMAIN K!Tries(n + 1, c)[l] <=> K!On(l, k, c) # {}
    <3>1. Built(K!Tries(n + 1, c)[l], l, K!Tries((n + 1) - 1, c), c, Len(l))
      BY <1>2, <2>1, TrieIsBuilt
    <3>2. DOMAIN l = 1 .. Len(l) /\ Len(l) \in Nat
      BY <2>1, ListAt
    <3> QED BY <3>1, <3>2, BoundAll DEF Built
  <2> QED BY <2>1, <2>2 DEF Sound
<1>3. \A n \in 0 .. (MaxChord - 1) : n \in Done => n + 1 \in Done
  BY <1>2
<1> HIDE DEF Done
<1>4. \A n \in 0 .. MaxChord : n \in Done
  BY <1>0, <1>1, <1>3, Induct
<1> QED BY <1>4 DEF Done

\* What the node of a key in the trie of a list is.
NodeOf(node, l, key, n, c) ==
    /\ Maps(node.keys)
    /\ node.hidden = ~l[K!LastOf(K!On(l, key, c))].visible
    /\ \A x : x \in DOMAIN node.keys <=> K!Further(l, key, x, c) # {}
    /\ \A x \in DOMAIN node.keys : node.keys[x] = K!Tries(n - 1, c)[K!Into(l, key, x, c)][x]
    /\ node.keys = K!NoKeys => node.cmd = l[K!LastOf(K!On(l, key, c))].cmd

LEMMA TrieNodes ==
  ASSUME NEW c, NEW n \in 1 .. MaxChord, NEW l \in K!ListsAt(MaxChord - n), NEW key,
         key \in DOMAIN K!Tries(n, c)[l]
  PROVE  NodeOf(K!Tries(n, c)[l][key], l, key, n, c)
<1> DEFINE node == K!Tries(n, c)[l][key]
           below == K!Tries(n - 1, c)
<1>0. MaxChord \in Nat /\ MaxChord - n \in 0 .. MaxChord /\ (MaxChord - n) + 1 = MaxChord - (n - 1)
      /\ (MaxChord - n) + 1 \in 1 .. MaxChord /\ n - 1 \in 0 .. MaxChord /\ n \in 0 .. MaxChord
  BY KeysAssumption
<1>1. /\ DOMAIN l = 1 .. Len(l) /\ Len(l) \in Nat
      /\ \A i \in DOMAIN l : K!Within(l[i]) \in K!ListsAt(MaxChord - (n - 1))
  BY <1>0, ListAt
<1>2. Sound(n - 1, c)
  BY <1>0, TriesSound
<1>3. Built(K!Tries(n, c)[l], l, below, c, Len(l))
  BY <1>2, TrieIsBuilt
<1>4. NodeIs(node, l, key, below, c, Len(l))
  BY <1>3 DEF Built
<1>5. BoundTo(l, key, c, Len(l)) = K!On(l, key, c)
  BY <1>1, BoundAll
<1>6. ChordsTo(l, key, c, Len(l)) = K!Chords(l, key, c)
  BY <1>5 DEF ChordsTo, K!Chords
<1>7. ASSUME NEW x PROVE NextTo(l, key, x, below, c, Len(l)) = K!Further(l, key, x, c)
  <2>1. \A i \in DOMAIN l : x \in DOMAIN below[K!Within(l[i])] <=> K!On(K!Within(l[i]), x, c) # {}
    BY <1>1, <1>2 DEF Sound
  <2>2. K!Chords(l, key, c) \subseteq DOMAIN l
    BY DEF K!Chords, K!On
  <2> HIDE DEF below
  <2> QED BY <1>6, <2>1, <2>2 DEF NextTo, K!Further
<1> HIDE DEF node, below
<1>8. \A x \in DOMAIN node.keys : node.keys[x] = below[K!Into(l, key, x, c)][x]
  BY <1>4, <1>7 DEF NodeIs, K!Into
<1>9. NodeOf(node, l, key, n, c)
  BY <1>4, <1>5, <1>7, <1>8 DEF NodeIs, NodeOf, below
<1> QED BY <1>9 DEF node

-----------------------------------------------------------------------------
(* The keys: a chord is read as the trie is walked.                        *)

\* One key more goes one node further down,
LEMMA OneKeyDown ==
  ASSUME NEW nodes, NEW S, NEW keys \in Seq(S), NEW k \in S
  PROVE  K!At(nodes, Append(keys, k)) = K!At(nodes, keys)[k].keys
<1> DEFINE n == Len(keys)
           more == Append(keys, k)
<1>1. n \in Nat /\ Len(more) = n + 1 /\ more[n + 1] = k /\ \A j \in 1 .. n : more[j] = keys[j]
  OBVIOUS
<1>2. PICK f : /\ f[0] = nodes /\ (\A j \in 1 .. n : f[j] = f[j - 1][keys[j]].keys)
               /\ K!At(nodes, keys) = f[n]
  <2>1. Len(keys) \in Nat
    OBVIOUS
  <2> QED BY <2>1, AtLoop
<1> HIDE DEF n, more
<1>3. PICK g : /\ g[0] = nodes /\ (\A j \in 1 .. (n + 1) : g[j] = g[j - 1][more[j]].keys)
               /\ K!At(nodes, more) = g[n + 1]
  <2>1. Len(more) \in Nat
    BY <1>1
  <2>2. PICK g : /\ g[0] = nodes /\ (\A j \in 1 .. Len(more) : g[j] = g[j - 1][more[j]].keys)
                 /\ K!At(nodes, more) = g[Len(more)]
    BY <2>1, AtLoop
  <2> QED BY <1>1, <2>2
<1> DEFINE Done == {j \in 0 .. n : g[j] = f[j]}
<1>4. 0 \in Done
  BY <1>1, <1>2, <1>3
<1>5. ASSUME NEW j \in 0 .. (n - 1), j \in Done PROVE j + 1 \in Done
  <2>1. j + 1 \in 1 .. n /\ j + 1 \in 1 .. (n + 1) /\ (j + 1) - 1 = j
    BY <1>1
  <2>2. g[j + 1] = g[j][more[j + 1]].keys /\ f[j + 1] = f[j][keys[j + 1]].keys
    BY <1>2, <1>3, <2>1
  <2> QED BY <1>1, <1>5, <2>1, <2>2
<1>6. \A j \in 0 .. (n - 1) : j \in Done => j + 1 \in Done
  BY <1>5
<1> HIDE DEF Done
<1>7. \A j \in 0 .. n : j \in Done
  BY <1>1, <1>4, <1>6, Induct
<1>8. g[n] = f[n]
  BY <1>1, <1>7 DEF Done
<1>9. g[n + 1] = g[n][k].keys
  <2>1. n + 1 \in 1 .. (n + 1) /\ (n + 1) - 1 = n
    BY <1>1
  <2> QED BY <1>1, <1>3, <2>1
<1> QED BY <1>2, <1>3, <1>8, <1>9 DEF more

\* and is looked up in what is nested in the chord that it continues.
LEMMA OneKeyFurther ==
  ASSUME NEW c, NEW S, NEW keys \in Seq(S), keys # << >>, NEW k \in S
  PROVE  K!Read(Append(keys, k), c) = K!Into(K!Read(keys, c), K!Last(keys), k, c)
<1> DEFINE n == Len(keys)
           more == Append(keys, k)
<1>1. n \in Nat \ {0} /\ Len(more) = n + 1 /\ more[n + 1] = k /\ \A j \in 1 .. n : more[j] = keys[j]
  OBVIOUS
<1>2. PICK f : /\ f[0] = KeyList
               /\ (\A j \in 1 .. (n - 1) : f[j] = K!Into(f[j - 1], keys[j], keys[j + 1], c))
               /\ K!Read(keys, c) = f[n - 1]
  BY <1>1, ReadLoop
<1>9. K!Last(keys) = keys[n]
  BY DEF K!Last
<1> HIDE DEF n, more
<1>3. PICK g : /\ g[0] = KeyList
               /\ (\A j \in 1 .. n : g[j] = K!Into(g[j - 1], more[j], more[j + 1], c))
               /\ K!Read(more, c) = g[n]
  <2>1. Len(more) \in Nat \ {0} /\ Len(more) - 1 = n
    BY <1>1
  <2>2. PICK g : /\ g[0] = KeyList
                 /\ (\A j \in 1 .. (Len(more) - 1) : g[j] = K!Into(g[j - 1], more[j], more[j + 1], c))
                 /\ K!Read(more, c) = g[Len(more) - 1]
    BY <2>1, ReadLoop
  <2> QED BY <2>1, <2>2
<1> DEFINE Done == {j \in 0 .. (n - 1) : g[j] = f[j]}
<1>4. 0 \in Done
  BY <1>1, <1>2, <1>3
<1>5. ASSUME NEW j \in 0 .. ((n - 1) - 1), j \in Done PROVE j + 1 \in Done
  <2>1. j + 1 \in 1 .. n /\ j + 1 \in 1 .. (n - 1) /\ (j + 1) - 1 = j /\ (j + 1) + 1 \in 1 .. n
    BY <1>1
  <2>2. /\ g[j + 1] = K!Into(g[j], more[j + 1], more[(j + 1) + 1], c)
        /\ f[j + 1] = K!Into(f[j], keys[j + 1], keys[(j + 1) + 1], c)
    BY <1>2, <1>3, <2>1
  <2> QED BY <1>1, <1>5, <2>1, <2>2
<1>6. \A j \in 0 .. ((n - 1) - 1) : j \in Done => j + 1 \in Done
  BY <1>5
<1> HIDE DEF Done
<1>7. \A j \in 0 .. (n - 1) : j \in Done
  <2>1. n - 1 \in Nat
    BY <1>1
  <2> QED BY <1>4, <1>6, <2>1, Induct
<1>8. g[n - 1] = f[n - 1]
  BY <1>1, <1>7 DEF Done
<1>10. g[n] = K!Into(g[n - 1], keys[n], k, c)
  BY <1>1, <1>3
<1> QED BY <1>2, <1>3, <1>8, <1>9, <1>10 DEF more

LEMMA FirstKey ==
  ASSUME NEW c, NEW k
  PROVE  K!Read(<< k >>, c) = KeyList
<1>1. Len(<< k >>) = 1
  OBVIOUS
<1>2. PICK f : f[0] = KeyList /\ K!Read(<< k >>, c) = f[Len(<< k >>) - 1]
  BY <1>1, ReadLoop
<1> QED BY <1>1, <1>2

LEMMA NoKeysYet ==
  ASSUME NEW nodes
  PROVE  K!At(nodes, << >>) = nodes
<1>1. Len(<< >>) = 0
  OBVIOUS
<1>2. PICK f : f[0] = nodes /\ K!At(nodes, << >>) = f[Len(<< >>)]
  BY <1>1, AtLoop
<1> QED BY <1>1, <1>2

\* Where a chord has led: a key is in the node reached iff a binding applies to it there.
LeadsOn(keys, c, k) ==
    /\ K!Read(Append(keys, k), c) \in K!ListsAt(Len(keys))
    /\ K!At(K!compile(c), keys)[k]
         = K!Tries(MaxChord - Len(keys), c)[K!Read(Append(keys, k), c)][k]
Walked(keys, c) ==
    /\ keys \in Seq(K!AllKeys) /\ Len(keys) < MaxChord
    /\ Maps(K!At(K!compile(c), keys))
    /\ DOMAIN K!At(K!compile(c), keys) \subseteq K!AllKeys
    /\ \A k \in K!AllKeys :
         k \in DOMAIN K!At(K!compile(c), keys)
           <=> K!On(K!Read(Append(keys, k), c), k, c) # {}
    /\ \A k \in DOMAIN K!At(K!compile(c), keys) : LeadsOn(keys, c, k)

LEMMA KeyIsListed ==
  ASSUME NEW l \in K!Lists, NEW k, NEW c, K!On(l, k, c) # {}
  PROVE  k \in K!AllKeys
BY DEF K!On, K!AllKeys

LEMMA WalkBegins ==
  ASSUME NEW c
  PROVE  Walked(<< >>, c)
<1> DEFINE top == K!compile(c)
<1>0. MaxChord \in Nat \ {0} /\ MaxChord \in 0 .. MaxChord /\ MaxChord - MaxChord = 0
      /\ Len(<< >>) = 0 /\ MaxChord - Len(<< >>) = MaxChord /\ 0 \in 0 .. MaxChord
  BY KeysAssumption
<1>1. KeyList \in K!ListsAt(0)
  BY ListsNest
<1>2. KeyList \in K!Lists
  BY <1>0, <1>1, ListAt
<1>3. top = K!Tries(MaxChord, c)[KeyList]
  BY DEF K!compile
<1>4. Sound(MaxChord, c)
  BY <1>0, TriesSound
<1> HIDE DEF top
<1>5. Maps(top) /\ \A k : k \in DOMAIN top <=> K!On(KeyList, k, c) # {}
  BY <1>0, <1>1, <1>3, <1>4 DEF Sound
<1>6. K!At(top, << >>) = top
  BY NoKeysYet
<1>7. \A k : K!Read(Append(<< >>, k), c) = KeyList
  <2>1. \A k : Append(<< >>, k) = << k >>
    OBVIOUS
  <2> QED BY <2>1, FirstKey
<1>8. DOMAIN top \subseteq K!AllKeys
  BY <1>2, <1>5, KeyIsListed
<1>9. ASSUME NEW k \in DOMAIN top PROVE LeadsOn(<< >>, c, k)
  BY <1>0, <1>1, <1>3, <1>6, <1>7 DEF LeadsOn, top
<1>10. << >> \in Seq(K!AllKeys)
  OBVIOUS
<1> QED BY <1>0, <1>5, <1>6, <1>7, <1>8, <1>9, <1>10 DEF Walked, top

LEMMA NodeReached ==
  ASSUME NEW c, NEW keys, Walked(keys, c), NEW key \in DOMAIN K!At(K!compile(c), keys)
  PROVE  /\ K!Read(Append(keys, key), c) \in K!ListsAt(Len(keys))
         /\ NodeOf(K!At(K!compile(c), keys)[key], K!Read(Append(keys, key), c), key,
                   MaxChord - Len(keys), c)
<1> DEFINE r == MaxChord - Len(keys)
           l == K!Read(Append(keys, key), c)
           nodes == K!At(K!compile(c), keys)
<1>0. MaxChord \in Nat /\ Len(keys) \in Nat /\ r \in 1 .. MaxChord /\ MaxChord - r = Len(keys)
      /\ r \in 0 .. MaxChord
  BY KeysAssumption DEF Walked
<1>1. l \in K!ListsAt(Len(keys)) /\ nodes[key] = K!Tries(r, c)[l][key]
  BY DEF Walked, LeadsOn
<1>2. key \in K!AllKeys /\ K!On(l, key, c) # {}
  BY DEF Walked
<1> HIDE DEF r, l, nodes
<1>3. key \in DOMAIN K!Tries(r, c)[l]
  BY <1>0, <1>1, <1>2, TriesSound DEF Sound
<1>4. NodeOf(K!Tries(r, c)[l][key], l, key, r, c)
  BY <1>0, <1>1, <1>3, TrieNodes
<1> QED BY <1>1, <1>4 DEF r, l, nodes

LEMMA WalkGoesOn ==
  ASSUME NEW c, NEW keys, Walked(keys, c), NEW key \in DOMAIN K!At(K!compile(c), keys),
         K!At(K!compile(c), keys)[key].keys # K!NoKeys
  PROVE  Walked(Append(keys, key), c)
<1> DEFINE r == MaxChord - Len(keys)
           l == K!Read(Append(keys, key), c)
           node == K!At(K!compile(c), keys)[key]
           more == Append(keys, key)
<1>0. /\ MaxChord \in Nat /\ Len(keys) \in Nat /\ r \in 1 .. MaxChord /\ MaxChord - r = Len(keys)
      /\ Len(keys) \in 0 .. MaxChord /\ Len(keys) + 1 \in 1 .. MaxChord
      /\ Len(more) = Len(keys) + 1 /\ more \in Seq(K!AllKeys) /\ more # << >>
      /\ r - 1 = MaxChord - Len(more) /\ key \in K!AllKeys
  BY KeysAssumption DEF Walked
<1>1. l \in K!ListsAt(Len(keys)) /\ NodeOf(node, l, key, r, c)
  BY NodeReached
<1>2. K!At(K!compile(c), more) = node.keys
  BY OneKeyDown DEF Walked
<1>3. \A k \in K!AllKeys : K!Read(Append(more, k), c) = K!Into(l, key, k, c)
  <2>1. K!Last(more) = key
    BY <1>0 DEF K!Last, Walked
  <2> HIDE DEF more
  <2>2. \A k \in K!AllKeys : K!Read(Append(more, k), c) = K!Into(K!Read(more, c), K!Last(more), k, c)
    BY <1>0, OneKeyFurther
  <2> QED BY <2>1, <2>2 DEF more
<1>4. /\ DOMAIN l = 1 .. Len(l) /\ Len(l) \in Nat
      /\ \A i \in DOMAIN l : K!Within(l[i]) \in K!ListsAt(Len(more))
  BY <1>0, <1>1, ListAt
<1> HIDE DEF r, l, node, more
<1>5. Maps(node.keys) /\ DOMAIN node.keys # {}
  BY <1>1, NoKeysIs DEF NodeOf, node
<1>6. ASSUME NEW x, K!Further(l, key, x, c) # {}
      PROVE  /\ K!Into(l, key, x, c) \in K!ListsAt(Len(more))
             /\ K!On(K!Into(l, key, x, c), x, c) # {}
  <2> DEFINE S == K!Further(l, key, x, c)
  <2>1. S \subseteq 1 .. Len(l)
    BY <1>4 DEF K!Further, K!Chords, K!On
  <2>2. K!LastOf(S) \in S
    BY <1>4, <1>6, <2>1, LastIs
  <2>3. K!Into(l, key, x, c) = K!Within(l[K!LastOf(S)])
    BY <1>6 DEF K!Into
  <2>4. K!On(K!Within(l[K!LastOf(S)]), x, c) # {}
    BY <2>2 DEF K!Further
  <2> HIDE DEF S
  <2> QED BY <1>4, <2>1, <2>2, <2>3, <2>4
<1>7. ASSUME NEW x, K!Further(l, key, x, c) = {} PROVE K!On(K!Into(l, key, x, c), x, c) = {}
  BY <1>7 DEF K!Into, K!On
<1>8. \A x : x \in DOMAIN node.keys <=> K!Further(l, key, x, c) # {}
  BY <1>1 DEF NodeOf
<1>9. ASSUME NEW x \in DOMAIN node.keys
      PROVE  x \in K!AllKeys /\ Len(more) < MaxChord
  <2>1. /\ K!Into(l, key, x, c) \in K!ListsAt(Len(more))
        /\ K!On(K!Into(l, key, x, c), x, c) # {}
    BY <1>6, <1>8
  <2>2. Len(more) \in 0 .. MaxChord
    BY <1>0
  <2>3. K!Into(l, key, x, c) \in K!Lists /\ (Len(more) = MaxChord => K!Into(l, key, x, c) = << >>)
    BY <2>1, <2>2, ListAt
  <2>4. K!Into(l, key, x, c) # << >>
    BY <2>1 DEF K!On
  <2> QED BY <1>0, <2>1, <2>2, <2>3, <2>4, KeyIsListed
<1>10. ASSUME NEW x \in DOMAIN node.keys PROVE LeadsOn(more, c, x)
  <2>1. node.keys[x] = K!Tries(r - 1, c)[K!Into(l, key, x, c)][x]
    BY <1>1 DEF NodeOf
  <2> QED BY <1>0, <1>2, <1>3, <1>6, <1>8, <1>9, <2>1 DEF LeadsOn
<1>11. \A k \in K!AllKeys :
         k \in DOMAIN node.keys <=> K!On(K!Read(Append(more, k), c), k, c) # {}
  BY <1>3, <1>6, <1>7, <1>8
<1>12. Walked(more, c)
  BY <1>0, <1>2, <1>5, <1>9, <1>10, <1>11 DEF Walked
<1> QED BY <1>12 DEF more

\* What a key runs is what the bindings say, and the hints are all that they bind.
LEMMA RunsItsMeaning ==
  ASSUME NEW c, NEW keys, Walked(keys, c), NEW key \in DOMAIN K!At(K!compile(c), keys),
         K!At(K!compile(c), keys)[key].keys = K!NoKeys
  PROVE  K!At(K!compile(c), keys)[key].cmd = K!Meaning(Append(keys, key), c)
<1> DEFINE l == K!Read(Append(keys, key), c)
           node == K!At(K!compile(c), keys)[key]
           more == Append(keys, key)
<1>1. NodeOf(node, l, key, MaxChord - Len(keys), c)
  BY NodeReached
<1>2. K!Last(more) = key
  BY DEF K!Last, Walked
<1>3. K!On(l, key, c) # {}
  BY DEF Walked
<1> HIDE DEF l, node
<1>4. node.cmd = l[K!LastOf(K!On(l, key, c))].cmd /\ \A x : K!Further(l, key, x, c) = {}
  BY <1>1, NoKeysIs DEF NodeOf, node
<1> QED BY <1>2, <1>3, <1>4 DEF K!Meaning, K!Applying, K!Continues, K!Decides, l, node

LEMMA NestedIsVisible ==
  ASSUME NEW n \in 1 .. MaxChord, NEW l \in K!ListsAt(n), NEW i \in DOMAIN l
  PROVE  l[i].visible
<1>1. l \in K!Nested(K!ListsAt(n - 1))
  BY ListsNest
<1>2. PICK list \in K!ListsAt(n - 1) : \E j \in DOMAIN list : l = K!Within(list[j])
  BY <1>1 DEF K!Nested
<1>3. PICK j \in DOMAIN list : l = K!Within(list[j])
  BY <1>2
<1>4. l[i] = K!Inherited(list[j].keys[i], list[j])
  BY <1>3 DEF K!Within
<1> QED BY <1>4 DEF K!Inherited

LEMMA HintsAreTheKeys ==
  ASSUME NEW c, NEW keys, Walked(keys, c), keys # << >>
  PROVE  K!CurrentHints(K!At(K!compile(c), keys))
           = {k \in K!AllKeys : K!Applying(Append(keys, k), c) # {}}
<1> DEFINE nodes == K!At(K!compile(c), keys)
<1>1. Len(keys) \in 1 .. MaxChord /\ Len(keys) \in 0 .. MaxChord
  BY KeysAssumption DEF Walked
<1>2. ASSUME NEW k \in K!AllKeys
      PROVE  K!Applying(Append(keys, k), c) # {} <=> k \in DOMAIN nodes
  <2>1. K!Last(Append(keys, k)) = k
    BY <1>2 DEF K!Last, Walked
  <2> QED BY <1>2, <2>1 DEF Walked, K!Applying
<1>3. ASSUME NEW k \in DOMAIN nodes PROVE ~nodes[k].hidden
  <2> DEFINE l == K!Read(Append(keys, k), c)
  <2>1. l \in K!ListsAt(Len(keys)) /\ NodeOf(nodes[k], l, k, MaxChord - Len(keys), c)
    BY <1>3, NodeReached
  <2>2. k \in K!AllKeys /\ K!On(l, k, c) # {}
    BY <1>3 DEF Walked
  <2> HIDE DEF l, nodes
  <2>3. DOMAIN l = 1 .. Len(l) /\ Len(l) \in Nat
    BY <1>1, <2>1, ListAt
  <2>4. K!LastOf(K!On(l, k, c)) \in DOMAIN l
    <3>1. K!On(l, k, c) \subseteq 1 .. Len(l)
      BY <2>3 DEF K!On
    <3> QED BY <2>2, <2>3, <3>1, LastIs
  <2>5. l[K!LastOf(K!On(l, k, c))].visible
    BY <1>1, <2>1, <2>4, NestedIsVisible
  <2> QED BY <2>1, <2>5 DEF NodeOf
<1>4. DOMAIN nodes \subseteq K!AllKeys
  BY DEF Walked
<1> QED BY <1>2, <1>3, <1>4 DEF K!CurrentHints

-----------------------------------------------------------------------------
(* The help: every chord that runs is listed.                              *)

AllWords == UNION {{l[i].words : i \in DOMAIN l} : l \in K!Lists}
Hints == [keys : Seq(K!AllKeys), words : AllWords]

Flattens(n, l) ==
    K!Flat(n + 1)[l] = K!FlattenSeq([i \in DOMAIN l |-> K!flattenBinding(l[i], K!Flat(n))])

LEMMA FlatIs ==
  ASSUME NEW n \in 0 .. (MaxChord - 1), NEW l \in K!Lists
  PROVE  Flattens(n, l)
<1>1. n + 1 \in 1 .. MaxChord /\ (n + 1) - 1 = n /\ n \in 0 .. MaxChord /\ n + 1 \in 0 .. MaxChord
  BY KeysAssumption
<1>2. K!Flat(n + 1) = K!AllFlat(K!Flat(n))
  BY <1>1, FlatGrow
<1> QED BY <1>2 DEF K!AllFlat, Flattens

HintsOf(n) == \A l \in K!ListsAt(MaxChord - n) : K!Flat(n)[l] \in Seq(Hints)

LEMMA UnderIs ==
  ASSUME NEW key \in K!AllKeys, NEW found \in Seq(Hints)
  PROVE  /\ K!Under(key, found) \in Seq(Hints) /\ Len(K!Under(key, found)) = Len(found)
         /\ \A j \in 1 .. Len(found) : K!Under(key, found)[j].keys = << key >> \o found[j].keys
<1> DEFINE u == K!Under(key, found)
<1>1. DOMAIN u = 1 .. Len(found) /\ Len(found) \in Nat
  BY DEF K!Under
<1>2. ASSUME NEW j \in 1 .. Len(found) PROVE u[j] \in Hints /\ u[j].keys = << key >> \o found[j].keys
  <2>1. found[j] \in Hints
    BY <1>2
  <2>2. u[j] = [keys |-> << key >> \o found[j].keys, words |-> found[j].words]
    BY <1>1, <1>2 DEF K!Under
  <2>3. found[j].keys \in Seq(K!AllKeys) /\ found[j].words \in AllWords
    BY <2>1 DEF Hints
  <2> DEFINE ks == found[j].keys
  <2> HIDE DEF ks, u
  <2>4. << key >> \o ks \in Seq(K!AllKeys)
    BY <2>3 DEF ks
  <2> QED BY <2>2, <2>3, <2>4 DEF Hints, ks
<1>3. u = [j \in 1 .. Len(found) |-> u[j]]
  BY DEF K!Under
<1> HIDE DEF u
<1>4. u \in Seq(Hints) /\ Len(u) = Len(found)
  BY <1>1, <1>2, <1>3
<1> QED BY <1>2, <1>4 DEF u

LEMMA BindingHints ==
  ASSUME NEW n \in 0 .. (MaxChord - 1), HintsOf(n), NEW l \in K!ListsAt(MaxChord - (n + 1)),
         NEW i \in DOMAIN l
  PROVE  K!flattenBinding(l[i], K!Flat(n)) \in Seq(Hints)
<1>1. /\ MaxChord - (n + 1) \in 0 .. MaxChord /\ (MaxChord - (n + 1)) + 1 = MaxChord - n
      /\ (MaxChord - (n + 1)) + 1 \in 1 .. MaxChord
  BY KeysAssumption
<1>2. l \in K!Lists /\ K!Within(l[i]) \in K!ListsAt(MaxChord - n)
  BY <1>1, ListAt
<1>3. l[i].key \in K!AllKeys /\ l[i].words \in AllWords
  BY <1>2 DEF K!AllKeys, AllWords
<1>4. K!Flat(n)[K!Within(l[i])] \in Seq(Hints)
  BY <1>2 DEF HintsOf
<1>5. K!Under(l[i].key, K!Flat(n)[K!Within(l[i])]) \in Seq(Hints)
  BY <1>3, <1>4, UnderIs
<1>6. [keys |-> << l[i].key >>, words |-> l[i].words] \in Hints
  BY <1>3 DEF Hints
<1>7. << >> \in Seq(Hints) /\ << [keys |-> << l[i].key >>, words |-> l[i].words] >> \in Seq(Hints)
  BY <1>6
<1> QED BY <1>5, <1>7 DEF K!flattenBinding

LEMMA FlatTyped ==
  \A n \in 0 .. MaxChord : HintsOf(n)
<1> DEFINE Done == {n \in 0 .. MaxChord : HintsOf(n)}
<1>0. MaxChord \in Nat
  BY KeysAssumption
<1>1. 0 \in Done
  <2>1. K!Flat(0) = [l \in K!Lists |-> << >>]
    BY <1>0, FlatGrow
  <2>2. ASSUME NEW l \in K!ListsAt(MaxChord - 0) PROVE K!Flat(0)[l] \in Seq(Hints)
    <3>1. MaxChord - 0 \in 0 .. MaxChord
      BY <1>0
    <3>2. l \in K!Lists
      BY <3>1, ListAt
    <3>3. K!Flat(0)[l] = << >>
      BY <2>1, <3>2
    <3>4. << >> \in Seq(Hints)
      OBVIOUS
    <3> QED BY <3>3, <3>4
  <2> QED BY <1>0, <2>2 DEF HintsOf
<1>2. ASSUME NEW n \in 0 .. (MaxChord - 1), n \in Done PROVE n + 1 \in Done
  <2>1. n + 1 \in 0 .. MaxChord /\ MaxChord - (n + 1) \in 0 .. MaxChord
    BY <1>0
  <2>2. ASSUME NEW l \in K!ListsAt(MaxChord - (n + 1)) PROVE K!Flat(n + 1)[l] \in Seq(Hints)
    <3> DEFINE parts == [i \in DOMAIN l |-> K!flattenBinding(l[i], K!Flat(n))]
    <3>1. DOMAIN l = 1 .. Len(l) /\ Len(l) \in Nat /\ l \in K!Lists
      BY <2>1, ListAt
    <3>2. \A i \in DOMAIN l : K!flattenBinding(l[i], K!Flat(n)) \in Seq(Hints)
      BY <1>2, BindingHints
    <3>3. parts \in Seq(Seq(Hints))
      BY <3>1, <3>2
    <3>4. K!Flat(n + 1)[l] = K!FlattenSeq(parts)
      BY <3>1, FlatIs DEF Flattens
    <3> HIDE DEF parts
    <3> QED BY <3>3, <3>4, FlattenHas
  <2> QED BY <2>1, <2>2 DEF HintsOf
<1>3. \A n \in 0 .. (MaxChord - 1) : n \in Done => n + 1 \in Done
  BY <1>2
<1> HIDE DEF Done
<1>4. \A n \in 0 .. MaxChord : n \in Done
  BY <1>0, <1>1, <1>3, Induct
<1> QED BY <1>4 DEF Done

LEMMA FlatHasAll ==
  ASSUME NEW n \in 0 .. (MaxChord - 1), NEW l \in K!ListsAt(MaxChord - (n + 1)), NEW i \in DOMAIN l,
         NEW x, Has(K!flattenBinding(l[i], K!Flat(n)), x)
  PROVE  Has(K!Flat(n + 1)[l], x)
<1> DEFINE parts == [j \in DOMAIN l |-> K!flattenBinding(l[j], K!Flat(n))]
<1>0. MaxChord - (n + 1) \in 0 .. MaxChord /\ n \in 0 .. MaxChord
  BY KeysAssumption
<1>1. DOMAIN l = 1 .. Len(l) /\ Len(l) \in Nat /\ l \in K!Lists
  BY <1>0, ListAt
<1>2. \A j \in DOMAIN l : K!flattenBinding(l[j], K!Flat(n)) \in Seq(Hints)
  BY <1>0, FlatTyped, BindingHints
<1>3. parts \in Seq(Seq(Hints)) /\ Len(parts) = Len(l) /\ parts[i] = K!flattenBinding(l[i], K!Flat(n))
  BY <1>1, <1>2
<1>4. K!Flat(n + 1)[l] = K!FlattenSeq(parts)
  BY <1>1, FlatIs DEF Flattens
<1> HIDE DEF parts
<1>5. \E j \in 1 .. Len(parts) : Has(parts[j], x)
  BY <1>1, <1>3
<1> QED BY <1>3, <1>4, <1>5, FlattenHas

LEMMA Joined ==
  ASSUME NEW V, NEW a \in Seq(V), NEW b \in Seq(V)
  PROVE  /\ a \o b \in Seq(V) /\ Len(a \o b) = Len(a) + Len(b)
         /\ \A i \in 1 .. (Len(a) + Len(b)) :
              (a \o b)[i] = IF i <= Len(a) THEN a[i] ELSE b[i - Len(a)]
OBVIOUS

LEMMA FirstAndRest ==
  ASSUME NEW S, NEW keys \in Seq(S), NEW j \in 1 .. (Len(keys) - 1)
  PROVE  << keys[j] >> \o SubSeq(keys, j + 1, Len(keys)) = SubSeq(keys, j, Len(keys))
<1> DEFINE n == Len(keys)
           rest == SubSeq(keys, j + 1, n)
           all == SubSeq(keys, j, n)
           first == << keys[j] >>
<1>1. n \in Nat /\ j \in 1 .. n /\ j + 1 \in 1 .. n
  OBVIOUS
<1>2. rest \in Seq(S) /\ Len(rest) = n - j /\ \A i \in 1 .. (n - j) : rest[i] = keys[i + j]
  BY <1>1
<1>3. all \in Seq(S) /\ Len(all) = n - j + 1 /\ \A i \in 1 .. (n - j + 1) : all[i] = keys[i + j - 1]
  BY <1>1
<1>4. first \in Seq(S) /\ Len(first) = 1 /\ first[1] = keys[j]
  BY <1>1
<1> HIDE DEF n, rest, all, first
<1>5. first \o rest \in Seq(S) /\ Len(first \o rest) = n - j + 1
  <2>1. first \o rest \in Seq(S) /\ Len(first \o rest) = Len(first) + Len(rest)
    BY <1>2, <1>4, Joined
  <2> QED BY <1>1, <1>2, <1>4, <2>1
<1>6. ASSUME NEW i \in 1 .. (n - j + 1) PROVE (first \o rest)[i] = all[i]
  <2>3. i \in 1 .. (Len(first) + Len(rest)) /\ i \in Nat
    BY <1>1, <1>2, <1>4, <1>6
  <2>4. (first \o rest)[i] = IF i <= Len(first) THEN first[i] ELSE rest[i - Len(first)]
    BY <1>2, <1>4, <2>3, Joined
  <2>1. CASE i = 1
    <3>1. (first \o rest)[i] = keys[j]
      BY <1>4, <2>1, <2>4
    <3>2. all[i] = keys[i + j - 1] /\ i + j - 1 = j
      BY <1>1, <1>3, <1>6, <2>1
    <3> QED BY <3>1, <3>2
  <2>2. CASE i # 1
    <3>1. i - 1 \in 1 .. (n - j) /\ (i - 1) + j = i + j - 1
      BY <1>1, <1>6, <2>2
    <3>2. (first \o rest)[i] = rest[i - 1]
      BY <1>4, <2>2, <2>3, <2>4
    <3> QED BY <1>2, <1>3, <1>6, <3>1, <3>2
  <2> QED BY <2>1, <2>2
<1>7. first \o rest = all
  BY <1>3, <1>5, <1>6
<1> QED BY <1>7 DEF first, rest, all, n

\* A list shows the end of a chord: one of its bindings does, in the hints of the help.
ShowsKeys(hints_, keys) == \E x : Has(hints_, x) /\ x.keys = keys
ShowsFrom(l, j, keys, c) ==
    \E i \in DOMAIN l :
      /\ K!matchesContext(l[i], c)
      /\ ShowsKeys(K!flattenBinding(l[i], K!Flat((MaxChord - 1) - j)),
                   SubSeq(keys, j + 1, Len(keys)))

\* The lists in which the keys of a chord are looked up, one by one.
ReadsBy(f, keys, c) ==
    /\ f[0] = KeyList
    /\ \A k \in 1 .. (Len(keys) - 1) : f[k] = K!Into(f[k - 1], keys[k], keys[k + 1], c)
    /\ K!Read(keys, c) = f[Len(keys) - 1]

LEMMA LastKeyShown ==
  ASSUME NEW c, NEW keys \in Seq(K!AllKeys), Len(keys) \in 1 .. MaxChord,
         NEW l \in K!ListsAt(Len(keys) - 1), l = K!Read(keys, c),
         K!Meaning(keys, c) # K!NoCmd, K!Decides(keys, c).keys = << >>
  PROVE  ShowsFrom(l, Len(keys) - 1, keys, c)
<1> DEFINE n == Len(keys)
           i == K!LastOf(K!On(l, keys[n], c))
           b == l[i]
           hint == [keys |-> << b.key >>, words |-> b.words]
<1>1. K!Last(keys) = keys[n]
  BY DEF K!Last
<1>2. K!On(l, keys[n], c) # {} /\ b.cmd # K!NoCmd /\ b.keys = << >>
  BY <1>1 DEF K!Meaning, K!Applying, K!Decides
<1>3. DOMAIN l = 1 .. Len(l) /\ Len(l) \in Nat
  <2>1. n - 1 \in 0 .. MaxChord
    BY KeysAssumption
  <2> QED BY <2>1, ListAt
<1>4. i \in DOMAIN l /\ b.key = keys[n] /\ K!matchesContext(b, c)
  <2>1. K!On(l, keys[n], c) \subseteq 1 .. Len(l)
    BY <1>3 DEF K!On
  <2>2. i \in K!On(l, keys[n], c)
    BY <1>2, <1>3, <2>1, LastIs
  <2> HIDE DEF i
  <2> QED BY <2>2 DEF K!On
<1>5. \A below : K!flattenBinding(b, below) = << hint >>
  BY <1>2 DEF K!flattenBinding
<1>6. SubSeq(keys, (n - 1) + 1, n) = << keys[n] >>
  <2>1. n \in 1 .. Len(keys) /\ (n - 1) + 1 = n
    OBVIOUS
  <2> DEFINE t == SubSeq(keys, n, n)
  <2>3. t \in Seq(K!AllKeys) /\ Len(t) = 1 /\ t[1] = keys[n]
    BY <2>1
  <2> HIDE DEF t
  <2>4. t = << keys[n] >>
    BY <2>3
  <2>2. SubSeq(keys, n, n) = << keys[n] >>
    BY <2>4 DEF t
  <2> QED BY <2>1, <2>2
<1>7. Has(<< hint >>, hint) /\ hint.keys = << b.key >>
  BY DEF Has
<1>8. ShowsKeys(K!flattenBinding(b, K!Flat((MaxChord - 1) - (n - 1))), SubSeq(keys, (n - 1) + 1, n))
  <2> HIDE DEF hint, b
  <2> QED BY <1>4, <1>5, <1>6, <1>7 DEF ShowsKeys
<1> HIDE DEF i
<1> QED BY <1>4, <1>8 DEF ShowsFrom

\* What is shown of the end of a chord is shown, with its key, of the chord around it.
LEMMA KeyBeforeShown ==
  ASSUME NEW c, NEW keys \in Seq(K!AllKeys), Len(keys) \in 1 .. MaxChord,
         NEW j \in 1 .. (Len(keys) - 1), NEW l \in K!ListsAt(j - 1),
         NEW next \in K!ListsAt(j), next = K!Into(l, keys[j], keys[j + 1], c),
         ShowsFrom(next, j, keys, c)
  PROVE  ShowsFrom(l, j - 1, keys, c)
<1> DEFINE n == Len(keys)
           S == K!Further(l, keys[j], keys[j + 1], c)
           i == K!LastOf(S)
           m == (MaxChord - 1) - j
<1>0. /\ j - 1 \in 0 .. MaxChord /\ j \in 0 .. MaxChord /\ m \in 0 .. (MaxChord - 1)
      /\ MaxChord - (m + 1) = j /\ m + 1 = (MaxChord - 1) - (j - 1) /\ (j - 1) + 1 = j
      /\ m + 1 \in 0 .. MaxChord /\ j \in 1 .. n
  BY KeysAssumption
<1>1. /\ DOMAIN l = 1 .. Len(l) /\ Len(l) \in Nat
      /\ DOMAIN next = 1 .. Len(next) /\ Len(next) \in Nat
  BY <1>0, ListAt
<1>2. PICK k \in DOMAIN next : ShowsKeys(K!flattenBinding(next[k], K!Flat(m)), SubSeq(keys, j + 1, n))
  BY DEF ShowsFrom
<1>3. S # {}
  BY <1>2 DEF K!Into
<1>4. /\ next = K!Within(l[i]) /\ i \in DOMAIN l /\ l[i].key = keys[j]
      /\ K!matchesContext(l[i], c) /\ l[i].keys # << >>
  <2>1. S \subseteq 1 .. Len(l)
    BY <1>1 DEF K!Further, K!Chords, K!On
  <2>2. i \in S
    BY <1>1, <1>3, <2>1, LastIs
  <2>3. next = K!Within(l[i])
    BY <1>3 DEF K!Into
  <2> HIDE DEF i
  <2> QED BY <2>2, <2>3 DEF K!Further, K!Chords, K!On
<1>5. PICK x : Has(K!flattenBinding(next[k], K!Flat(m)), x) /\ x.keys = SubSeq(keys, j + 1, n)
  BY <1>2 DEF ShowsKeys
<1>6. Has(K!Flat(m + 1)[next], x)
  BY <1>0, <1>5, FlatHasAll
<1> DEFINE found == K!Flat(m + 1)[next]
<1>7. found \in Seq(Hints)
  BY <1>0, FlatTyped DEF HintsOf
<1>8. K!flattenBinding(l[i], K!Flat(m + 1)) = K!Under(keys[j], found)
  BY <1>4 DEF K!flattenBinding
<1>9. PICK p \in 1 .. Len(found) : found[p] = x
  BY <1>6 DEF Has
<1>10. keys[j] \in K!AllKeys
  BY <1>0
<1> HIDE DEF found, i
<1> DEFINE u == K!Under(keys[j], found)
<1>11. u[p].keys = << keys[j] >> \o SubSeq(keys, j + 1, n) /\ p \in 1 .. Len(u)
  BY <1>5, <1>7, <1>9, <1>10, UnderIs
<1>12. u[p].keys = SubSeq(keys, (j - 1) + 1, n)
  BY <1>0, <1>11, FirstAndRest
<1> HIDE DEF u
<1>13. ShowsKeys(u, SubSeq(keys, (j - 1) + 1, n))
  BY <1>11, <1>12 DEF ShowsKeys, Has
<1>14. ShowsKeys(K!flattenBinding(l[i], K!Flat((MaxChord - 1) - (j - 1))), SubSeq(keys, (j - 1) + 1, n))
  BY <1>0, <1>8, <1>13 DEF u
<1> QED BY <1>4, <1>14 DEF ShowsFrom

LEMMA WholeChordShown ==
  ASSUME NEW c, NEW keys \in Seq(K!AllKeys), Len(keys) \in 1 .. MaxChord,
         K!Meaning(keys, c) # K!NoCmd, K!Decides(keys, c).keys = << >>
  PROVE  ShowsFrom(KeyList, 0, keys, c)
<1> DEFINE n == Len(keys)
           m == n - 1
<1>0. MaxChord \in Nat /\ n \in 1 .. MaxChord /\ m \in Nat /\ n \in Nat \ {0} /\ m \in 0 .. (MaxChord - 1)
  BY KeysAssumption
<1>1. PICK f : ReadsBy(f, keys, c)
  BY <1>0, ReadLoop DEF ReadsBy
<1> HIDE DEF n, m
<1>2. /\ f[0] = KeyList /\ K!Read(keys, c) = f[m]
      /\ \A k \in 1 .. m : f[k] = K!Into(f[k - 1], keys[k], keys[k + 1], c)
  BY <1>1 DEF ReadsBy, n, m
<1> DEFINE Down == {j \in 0 .. m : f[j] = << >> \/ f[j] \in K!ListsAt(j)}
<1>3. 0 \in Down
  BY <1>0, <1>2, ListsNest
<1>4. ASSUME NEW j \in 0 .. (m - 1), j \in Down PROVE j + 1 \in Down
  <2>0. j + 1 \in 1 .. m /\ (j + 1) - 1 = j /\ j \in 0 .. MaxChord /\ j + 1 \in 1 .. MaxChord
    BY <1>0
  <2>1. f[j + 1] = K!Into(f[j], keys[j + 1], keys[(j + 1) + 1], c)
    BY <1>2, <2>0
  <2> DEFINE S == K!Further(f[j], keys[j + 1], keys[(j + 1) + 1], c)
  <2>2. CASE S = {}
    <3>1. f[j + 1] = << >>
      BY <2>1, <2>2 DEF K!Into
    <3> QED BY <2>0, <3>1
  <2>3. CASE S # {}
    <3>1. S \subseteq DOMAIN f[j]
      BY DEF K!Further, K!Chords, K!On
    <3>2. f[j] # << >>
      BY <2>3, <3>1
    <3>3. f[j] \in K!ListsAt(j)
      BY <1>4, <3>2
    <3>4. DOMAIN f[j] = 1 .. Len(f[j]) /\ Len(f[j]) \in Nat
          /\ \A i \in DOMAIN f[j] : K!Within(f[j][i]) \in K!ListsAt(j + 1)
      BY <2>0, <3>3, ListAt
    <3>5. K!LastOf(S) \in S
      <4> HIDE DEF S
      <4> QED BY <2>3, <3>1, <3>4, LastIs
    <3>6. f[j + 1] = K!Within(f[j][K!LastOf(S)])
      BY <2>1, <2>3 DEF K!Into
    <3> HIDE DEF S
    <3> QED BY <2>0, <3>1, <3>4, <3>5, <3>6
  <2> QED BY <2>2, <2>3
<1>5. \A j \in 0 .. (m - 1) : j \in Down => j + 1 \in Down
  BY <1>4
<1> HIDE DEF Down
<1>6. \A j \in 0 .. m : j \in Down
  BY <1>0, <1>3, <1>5, Induct
<1>7. ASSUME NEW j \in 0 .. m, f[j] # << >> PROVE f[j] \in K!ListsAt(j)
  BY <1>6, <1>7 DEF Down
<1> DEFINE Up == {k \in 0 .. m : f[m - k] \in K!ListsAt(m - k) /\ ShowsFrom(f[m - k], m - k, keys, c)}
<1>8. 0 \in Up
  <2>1. f[m] # << >>
    BY <1>2 DEF K!Meaning, K!Applying, K!On
  <2>2. f[m] \in K!ListsAt(m)
    BY <1>0, <1>7, <2>1
  <2>3. ShowsFrom(f[m], m, keys, c)
    BY <1>2, <2>2, LastKeyShown DEF m, n
  <2>4. m - 0 = m /\ 0 \in 0 .. m
    BY <1>0
  <2> QED BY <2>2, <2>3, <2>4
<1>9. ASSUME NEW k \in 0 .. (m - 1), k \in Up PROVE k + 1 \in Up
  <2> DEFINE j == m - k
  <2>0. j \in 1 .. m /\ m - (k + 1) = j - 1 /\ k + 1 \in 0 .. m /\ j - 1 \in 0 .. m
    BY <1>0
  <2>1. f[j] \in K!ListsAt(j) /\ ShowsFrom(f[j], j, keys, c)
    BY <1>9
  <2>2. f[j] = K!Into(f[j - 1], keys[j], keys[j + 1], c)
    BY <1>2, <2>0
  <2> HIDE DEF j
  <2>3. f[j] # << >>
    BY <2>1 DEF ShowsFrom
  <2>4. f[j - 1] # << >>
    <3>1. K!Further(f[j - 1], keys[j], keys[j + 1], c) # {}
      BY <2>2, <2>3 DEF K!Into
    <3>2. K!Further(f[j - 1], keys[j], keys[j + 1], c) \subseteq DOMAIN f[j - 1]
      BY DEF K!Further, K!Chords, K!On
    <3> QED BY <3>1, <3>2
  <2>5. f[j - 1] \in K!ListsAt(j - 1)
    BY <1>7, <2>0, <2>4
  <2>6. ShowsFrom(f[j - 1], j - 1, keys, c)
    BY <2>0, <2>1, <2>2, <2>5, KeyBeforeShown DEF m, n
  <2> QED BY <2>0, <2>5, <2>6
<1>10. \A k \in 0 .. (m - 1) : k \in Up => k + 1 \in Up
  BY <1>9
<1> HIDE DEF Up
<1>11. \A k \in 0 .. m : k \in Up
  BY <1>0, <1>8, <1>10, Induct
<1>12. m \in Up
  BY <1>0, <1>11
<1>13. m - m = 0
  BY <1>0
<1> QED BY <1>2, <1>12, <1>13 DEF Up

\* The group of a scope has all hints of the bindings of that scope which apply.
LEMMA GroupIs ==
  ASSUME NEW s, NEW c
  PROVE  /\ K!Grouped(s, c) \in Seq(Hints)
         /\ \A i \in DOMAIN KeyList : K!matchesContext(KeyList[i], c) /\ KeyList[i].scope = s =>
              \A x : Has(K!flattenBinding(KeyList[i], K!Flat(MaxChord - 1)), x)
                       => Has(K!Grouped(s, c), x)
<1> DEFINE Applies(i) == K!matchesContext(KeyList[i], c) /\ KeyList[i].scope = s
           flat(i) == K!flattenBinding(KeyList[i], K!Flat(MaxChord - 1))
           parts == [i \in DOMAIN KeyList |-> IF Applies(i) THEN flat(i) ELSE << >>]
<1>0. /\ MaxChord - 1 \in 0 .. (MaxChord - 1) /\ MaxChord - 1 \in 0 .. MaxChord
      /\ MaxChord - ((MaxChord - 1) + 1) = 0 /\ 0 \in 0 .. MaxChord
  BY KeysAssumption
<1>1. KeyList \in K!ListsAt(0) /\ DOMAIN KeyList = 1 .. Len(KeyList) /\ Len(KeyList) \in Nat
  BY <1>0, ListsNest, ListAt
<1>2. \A i \in DOMAIN KeyList : flat(i) \in Seq(Hints)
  BY <1>0, <1>1, FlatTyped, BindingHints
<1>3. K!Grouped(s, c) = K!FlattenSeq(parts)
  BY DEF K!Grouped
<1>4. << >> \in Seq(Hints)
  OBVIOUS
<1> HIDE DEF Applies, flat
<1>5. parts \in Seq(Seq(Hints)) /\ Len(parts) = Len(KeyList)
  BY <1>1, <1>2, <1>4
<1>6. \A i \in DOMAIN KeyList : Applies(i) => parts[i] = flat(i)
  OBVIOUS
<1> HIDE DEF parts
<1>7. /\ K!Grouped(s, c) \in Seq(Hints)
      /\ \A x : Has(K!Grouped(s, c), x) <=> \E k \in 1 .. Len(parts) : Has(parts[k], x)
  BY <1>3, <1>5, FlattenHas
<1>8. ASSUME NEW i \in DOMAIN KeyList, NEW x, K!matchesContext(KeyList[i], c), KeyList[i].scope = s,
             Has(K!flattenBinding(KeyList[i], K!Flat(MaxChord - 1)), x)
      PROVE  Has(K!Grouped(s, c), x)
  <2>1. Applies(i) /\ Has(flat(i), x)
    BY <1>8 DEF Applies, flat
  <2> QED BY <1>1, <1>5, <1>6, <1>7, <2>1
<1> QED BY <1>7, <1>8

Listed(groups, keys) == \E g \in groups : \E i \in DOMAIN g.hints : g.hints[i].keys = keys

LEMMA HelpListsChords ==
  ASSUME NEW c, NEW n \in 1 .. MaxChord, NEW keys \in [1 .. n -> K!AllKeys],
         K!Meaning(keys, c) # K!NoCmd, K!Decides(keys, c).keys = << >>
  PROVE  Listed(K!HelpGroups(c), keys)
<1>0. MaxChord \in Nat /\ (MaxChord - 1) - 0 = MaxChord - 1 /\ n \in Nat
  BY KeysAssumption
<1>1. keys \in Seq(K!AllKeys) /\ Len(keys) = n
  BY <1>0
<1>2. ShowsFrom(KeyList, 0, keys, c)
  BY <1>1, WholeChordShown
<1>3. SubSeq(keys, 0 + 1, Len(keys)) = keys
  <2> DEFINE t == SubSeq(keys, 0 + 1, Len(keys))
  <2>1. t \in Seq(K!AllKeys) /\ Len(t) = n /\ \A i \in 1 .. n : t[i] = keys[i]
    BY <1>0, <1>1
  <2> HIDE DEF t
  <2>2. t = keys
    BY <1>0, <1>1, <2>1
  <2> QED BY <2>2 DEF t
<1>4. PICK i \in DOMAIN KeyList :
        /\ K!matchesContext(KeyList[i], c)
        /\ ShowsKeys(K!flattenBinding(KeyList[i], K!Flat(MaxChord - 1)), keys)
  BY <1>0, <1>2, <1>3 DEF ShowsFrom
<1>5. PICK x : Has(K!flattenBinding(KeyList[i], K!Flat(MaxChord - 1)), x) /\ x.keys = keys
  BY <1>4 DEF ShowsKeys
<1> DEFINE s == KeyList[i].scope
           hs == K!Grouped(s, c)
<1>6. Has(hs, x) /\ hs \in Seq(Hints)
  BY <1>4, <1>5, GroupIs
<1>7. [scope |-> s, hints |-> hs] \in K!HelpGroups(c)
  <2>1. hs # << >>
    BY <1>6 DEF Has
  <2> HIDE DEF hs
  <2>2. [scope |-> s, hints |-> hs].hints # << >>
    BY <2>1
  <2> QED BY <1>4, <2>2 DEF K!HelpGroups, hs
<1>8. \E k \in DOMAIN hs : hs[k].keys = keys
  BY <1>5, <1>6 DEF Has
<1> HIDE DEF hs
<1>9. [scope |-> s, hints |-> hs].hints = hs
  OBVIOUS
<1> QED BY <1>7, <1>8, <1>9 DEF Listed

\* What a search finds are hints.
LEMMA FoundTyped ==
  ASSUME NEW all \in Seq(Hints), NEW query
  PROVE  K!Found(all, query) \in Seq(Hints)
<1> DEFINE n == Len(all)
<1>0. n \in Nat /\ \A k \in 1 .. n : all[k] \in Hints
  OBVIOUS
<1>1. PICK f : /\ f[0] = << >>
               /\ \A k \in 1 .. n : f[k] = (IF query \in all[k].words
                                            THEN Append(f[k - 1], all[k]) ELSE f[k - 1])
               /\ K!Found(all, query) = f[n]
  BY <1>0, FoundLoop
<1> HIDE DEF n
<1> DEFINE Done == {k \in 0 .. n : f[k] \in Seq(Hints)}
<1>2. 0 \in Done
  <2>1. << >> \in Seq(Hints)
    OBVIOUS
  <2>2. f[0] \in Seq(Hints)
    BY <1>1, <2>1
  <2> QED BY <1>0, <2>2
<1>3. ASSUME NEW k \in 0 .. (n - 1), k \in Done PROVE k + 1 \in Done
  <2>1. k + 1 \in 1 .. n /\ (k + 1) - 1 = k /\ k + 1 \in 0 .. n
    BY <1>0
  <2>2. f[k] \in Seq(Hints) /\ all[k + 1] \in Hints
    BY <1>0, <1>3, <2>1
  <2>3. f[k + 1] = (IF query \in all[k + 1].words THEN Append(f[k], all[k + 1]) ELSE f[k])
    BY <1>1, <2>1
  <2>4. Append(f[k], all[k + 1]) \in Seq(Hints)
    BY <2>2
  <2> QED BY <2>1, <2>2, <2>3, <2>4
<1>4. \A k \in 0 .. (n - 1) : k \in Done => k + 1 \in Done
  BY <1>3
<1> HIDE DEF Done
<1>5. \A k \in 0 .. n : k \in Done
  BY <1>0, <1>2, <1>4, Induct
<1> QED BY <1>0, <1>1, <1>5 DEF Done

\* Finitely many numbers have a bound, and those below a bound a greatest.
LEMMA HasBound ==
  ASSUME NEW n \in Nat, NEW f \in [1 .. n -> Nat]
  PROVE  \E m \in Nat : \A i \in 1 .. n : f[i] <= m
<1> DEFINE Done == {k \in 0 .. n : \E m \in Nat : \A i \in 1 .. k : f[i] <= m}
<1>1. 0 \in Done
  OBVIOUS
<1>2. ASSUME NEW k \in 0 .. (n - 1), k \in Done PROVE k + 1 \in Done
  <2>1. PICK m \in Nat : \A i \in 1 .. k : f[i] <= m
    BY <1>2
  <2>2. k + 1 \in 0 .. n /\ f[k + 1] \in Nat
    OBVIOUS
  <2>3. ASSUME NEW i \in 1 .. (k + 1) PROVE f[i] <= m + f[k + 1]
    <3>1. CASE i = k + 1
      BY <2>2, <3>1
    <3>2. CASE i # k + 1
      <4>1. i \in 1 .. k /\ f[i] \in Nat
        BY <2>3, <3>2
      <4>2. f[i] <= m
        BY <2>1, <4>1
      <4> QED BY <2>2, <4>1, <4>2
    <3> QED BY <3>1, <3>2
  <2>4. m + f[k + 1] \in Nat
    BY <2>2
  <2> QED BY <2>2, <2>3, <2>4
<1>3. \A k \in 0 .. (n - 1) : k \in Done => k + 1 \in Done
  BY <1>2
<1> HIDE DEF Done
<1>4. \A k \in 0 .. n : k \in Done
  BY <1>1, <1>3, Induct
<1>5. n \in Done
  BY <1>4
<1> QED BY <1>5 DEF Done

LEMMA GreatestBelow ==
  ASSUME NEW A, A \subseteq Nat, A # {}, NEW m \in Nat, \A a \in A : a <= m
  PROVE  \E top \in A : \A a \in A : a <= top
<1> DEFINE R == {m - a : a \in A}
<1>1. R \subseteq Nat /\ R # {}
  <2>1. ASSUME NEW a \in A PROVE m - a \in Nat
    BY <2>1
  <2>2. \E a \in A : TRUE
    OBVIOUS
  <2> QED BY <2>1, <2>2
<1>2. PICK r \in R : \A k \in R : r <= k
  <2> HIDE DEF R
  <2> QED BY <1>1, LeastNat
<1>3. PICK top \in A : r = m - top
  BY <1>2
<1>4. ASSUME NEW a \in A PROVE a <= top
  <2>1. m - top <= m - a
    BY <1>2, <1>3
  <2> QED BY <1>3, <2>1
<1> QED BY <1>4

\* Every line of the help can be scrolled to.
CanBeSeen(h, g, i) ==
    \E s \in 0 .. K!maxScroll(h) : \E j \in DOMAIN K!Column(h, g, s) : K!Column(h, g, s)[j] = g.hints[i]

LEMMA GroupsHaveRows ==
  ASSUME NEW h, NEW c, h.groups = K!HelpGroups(c)
  PROVE  \E f \in [1 .. Len(KeyList) -> Nat] :
           \A g \in K!filteredGroups(h) :
             g.hints \in Seq(Hints) /\ \E i \in 1 .. Len(KeyList) : f[i] = 1 + Len(g.hints)
<1> DEFINE hintsOf(i) == IF h.query = K!NoQuery THEN K!Grouped(KeyList[i].scope, c)
                      ELSE K!Found(K!Grouped(KeyList[i].scope, c), h.query)
           f == [i \in 1 .. Len(KeyList) |-> 1 + Len(hintsOf(i))]
<1>1. DOMAIN KeyList = 1 .. Len(KeyList) /\ Len(KeyList) \in Nat
  <2>1. 0 \in 0 .. MaxChord
    BY KeysAssumption
  <2> QED BY <2>1, ListsNest, ListAt
<1>2. ASSUME NEW i \in 1 .. Len(KeyList) PROVE hintsOf(i) \in Seq(Hints)
  BY GroupIs, FoundTyped
<1>3. f \in [1 .. Len(KeyList) -> Nat]
  <2> HIDE DEF hintsOf
  <2>1. \A i \in 1 .. Len(KeyList) : 1 + Len(hintsOf(i)) \in Nat
    BY <1>2
  <2> QED BY <2>1
<1>4. ASSUME NEW x \in K!HelpGroups(c)
      PROVE  \E i \in 1 .. Len(KeyList) : x.hints = K!Grouped(KeyList[i].scope, c)
  BY <1>1, <1>4 DEF K!HelpGroups
<1>5. ASSUME NEW g \in K!filteredGroups(h)
      PROVE  \E i \in 1 .. Len(KeyList) : g.hints = hintsOf(i)
  <2>1. CASE h.query = K!NoQuery
    BY <1>4, <1>5, <2>1 DEF K!filteredGroups
  <2>2. CASE h.query # K!NoQuery
    <3>1. PICK x \in K!HelpGroups(c) : g.hints = K!Found(x.hints, h.query)
      BY <1>5, <2>2 DEF K!filteredGroups
    <3> QED BY <1>4, <2>2, <3>1
  <2> QED BY <2>1, <2>2
<1>6. ASSUME NEW g \in K!filteredGroups(h)
      PROVE  g.hints \in Seq(Hints) /\ \E i \in 1 .. Len(KeyList) : f[i] = 1 + Len(g.hints)
  <2>1. PICK i \in 1 .. Len(KeyList) : g.hints = hintsOf(i)
    BY <1>5
  <2> HIDE DEF hintsOf
  <2> QED BY <1>2, <2>1
<1> HIDE DEF f
<1> QED BY <1>3, <1>6

LEMMA TallestIs ==
  ASSUME NEW h, NEW c, h.groups = K!HelpGroups(c), NEW g \in K!filteredGroups(h)
  PROVE  /\ g.hints \in Seq(Hints)
         /\ K!tallestGroup(h) \in Nat /\ 1 + Len(g.hints) <= K!tallestGroup(h)
<1> DEFINE found == K!filteredGroups(h)
           A == {1 + Len(x.hints) : x \in found}
<1>1. PICK f \in [1 .. Len(KeyList) -> Nat] :
        \A x \in found : x.hints \in Seq(Hints) /\ \E i \in 1 .. Len(KeyList) : f[i] = 1 + Len(x.hints)
  BY GroupsHaveRows
<1>2. Len(KeyList) \in Nat
  <2>1. 0 \in 0 .. MaxChord
    BY KeysAssumption
  <2> QED BY <2>1, ListsNest, ListAt
<1>3. PICK m \in Nat : \A i \in 1 .. Len(KeyList) : f[i] <= m
  BY <1>2, HasBound
<1> HIDE DEF found
<1>4. A \subseteq Nat /\ A # {} /\ \A a \in A : a <= m
  <2>1. ASSUME NEW x \in found PROVE 1 + Len(x.hints) \in Nat /\ 1 + Len(x.hints) <= m
    BY <1>1, <1>3
  <2>2. 1 + Len(g.hints) \in A
    BY DEF found
  <2> QED BY <2>1, <2>2
<1>5. \E top \in A : \A a \in A : a <= top
  <2> HIDE DEF A
  <2> QED BY <1>4, GreatestBelow
<1>6. \E top \in A : \A x \in found : 1 + Len(x.hints) <= top
  BY <1>5
<1>7. found # {}
  BY DEF found
<1>8. K!tallestGroup(h) = CHOOSE n \in A : \A x \in found : 1 + Len(x.hints) <= n
  BY <1>7 DEF K!tallestGroup, found
<1>9. K!tallestGroup(h) \in A /\ \A x \in found : 1 + Len(x.hints) <= K!tallestGroup(h)
  <2> HIDE DEF A
  <2> QED BY <1>6, <1>8
<1> HIDE DEF A
<1> QED BY <1>1, <1>4, <1>9 DEF found

LEMMA EveryLineIsSeen ==
  ASSUME NEW h, NEW c, h.groups = K!HelpGroups(c), h.height \in Int,
         NEW g \in K!filteredGroups(h), NEW i \in DOMAIN g.hints
  PROVE  CanBeSeen(h, g, i)
<1> DEFINE V == K!visibleHeight(h)
           T == K!tallestGroup(h)
           M == K!maxScroll(h)
           L == Len(g.hints)
           all == g.hints
           s == IF i - 1 <= M THEN i - 1 ELSE M
           body == SubSeq(all, s + 1, L)
           fits == IF Len(body) > V - 1 THEN V - 1 ELSE Len(body)
           col == SubSeq(body, 1, fits)
           j == i - s
<1>1. all \in Seq(Hints) /\ T \in Nat /\ 1 + L <= T
  BY TallestIs
<1>2. V \in Nat /\ 5 <= V
  BY DEF K!visibleHeight, K!AtLeast
<1>3. M \in Nat /\ T - V <= M
  BY <1>1, <1>2 DEF K!maxScroll, K!AtLeast
<1>4. i \in 1 .. L /\ L \in Nat
  BY <1>1
<1>5. K!Column(h, g, s) = col
  <2>1. ~(s > M)
    BY <1>3, <1>4
  <2> QED BY <2>1 DEF K!Column
<1> HIDE DEF V, T, M, L, all
<1>6. s \in 0 .. M /\ s + 1 \in 1 .. L /\ j \in 1 .. (L - s) /\ j <= V - 1 /\ j + s = i
  <2>1. CASE i - 1 <= M
    BY <1>2, <1>3, <1>4, <2>1
  <2>2. CASE ~(i - 1 <= M)
    <3>1. s = M /\ M < i - 1
      BY <1>3, <1>4, <2>2
    <3>2. T \in Nat /\ 1 + L <= T
      BY <1>1
    <3> HIDE DEF s
    <3> QED BY <1>2, <1>3, <1>4, <3>1, <3>2
  <2> QED BY <2>1, <2>2
<1> HIDE DEF s, j
<1>7. L = Len(all)
  BY DEF L, all
<1>8. body \in Seq(Hints) /\ Len(body) = L - s /\ \A k \in 1 .. (L - s) : body[k] = all[k + s]
  BY <1>1, <1>6, <1>7
<1> HIDE DEF body
<1>9. fits \in Nat /\ fits <= Len(body) /\ j \in 1 .. fits
  BY <1>2, <1>4, <1>6, <1>8
<1> HIDE DEF fits
<1>10. col \in Seq(Hints) /\ Len(col) = fits /\ \A k \in 1 .. fits : col[k] = body[k]
  BY <1>8, <1>9
<1> HIDE DEF col
<1>11. j \in DOMAIN col /\ col[j] = all[i]
  BY <1>6, <1>8, <1>9, <1>10
<1> QED BY <1>5, <1>6, <1>11 DEF CanBeSeen, all, M

-----------------------------------------------------------------------------
(* The keys: the invariant.                                                *)

BoundNext(keys, c) == {k \in K!AllKeys : K!Applying(Append(keys, k), c) # {}}

KeysInv ==
    /\ typed # << >> =>
         /\ compiled = K!currentContext(began)
         /\ Walked(typed, compiled) /\ hints = BoundNext(typed, compiled)
    /\ ran.cmd # K!NoCmd => ran.cmd = K!Meaning(ran.keys, K!currentContext(ran.place))
    /\ help.active => help.groups = K!HelpGroups(K!currentContext(help.of))
    /\ help.height \in Int

LEMMA KeysBegin == ASSUME K!Init PROVE KeysInv
<1>1. typed = << >> /\ ran.cmd = K!NoCmd
  BY DEF K!Init, K!Nothing
<1>2. help.active = FALSE /\ help.height \in ScreenHeights
  BY DEF K!Init
<1> QED BY <1>1, <1>2, KeysAssumption DEF KeysInv

\* A key is looked up where the chord has led, in the pane in which it began.
LEMMA LooksWhereItLed ==
  ASSUME KeysInv
  PROVE  /\ K!Refreshed = K!currentContext(K!Began) /\ Walked(typed, K!Refreshed)
         /\ K!Nodes = K!At(K!compile(K!Refreshed), typed)
<1>1. CASE typed = << >>
  <2>1. K!Refreshed = K!currentContext(place) /\ K!Began = place
    BY <1>1 DEF K!Refreshed, K!Began, K!AtRoot
  <2> QED BY <1>1, <2>1, WalkBegins DEF K!Nodes
<1>2. CASE typed # << >>
  <2>1. K!Refreshed = compiled /\ K!Began = began
    BY <1>2 DEF K!Refreshed, K!Began, K!AtRoot
  <2> QED BY <1>2, <2>1 DEF KeysInv, K!Nodes
<1> QED BY <1>1, <1>2

LEMMA NothingRan == ASSUME ran' = K!Nothing PROVE ran'.cmd = K!NoCmd
BY DEF K!Nothing

LEMMA DescendKeeps ==
  ASSUME KeysInv, NEW key \in K!AllKeys, K!Descend(key, K!Nodes)
  PROVE  KeysInv'
<1> DEFINE c == K!Refreshed
           nodes == K!At(K!compile(c), typed)
           more == Append(typed, key)
<1>1. c = K!currentContext(K!Began) /\ Walked(typed, c) /\ K!Nodes = nodes
  BY LooksWhereItLed
<1>2. key \in DOMAIN nodes /\ nodes[key].keys # K!NoKeys
  BY <1>1 DEF K!Descend
<1>3. /\ compiled' = c /\ began' = K!Began /\ typed' = more
      /\ hints' = K!CurrentHints(nodes[key].keys)
  BY <1>1 DEF K!Descend
<1>4. ran' = K!Nothing /\ help' = help
  BY DEF K!Descend
<1> HIDE DEF c
<1>5. Walked(more, c)
  BY <1>1, <1>2, WalkGoesOn
<1>6. K!At(K!compile(c), more) = nodes[key].keys
  BY <1>1, OneKeyDown DEF Walked
<1>7. more # << >>
  BY <1>1 DEF Walked
<1> HIDE DEF more, nodes
<1>8. hints' = BoundNext(more, c)
  BY <1>3, <1>5, <1>6, <1>7, HintsAreTheKeys DEF BoundNext
<1> QED BY <1>1, <1>3, <1>4, <1>5, <1>8, NothingRan DEF KeysInv

LEMMA SwallowKeeps ==
  ASSUME KeysInv, NEW key \in K!AllKeys, K!Swallow(key, K!Nodes)
  PROVE  KeysInv'
<1>1. typed' = << >> /\ ran' = K!Nothing /\ help' = help
  BY DEF K!Swallow, K!Resolved
<1> QED BY <1>1, NothingRan DEF KeysInv

LEMMA ExecuteKeeps ==
  ASSUME KeysInv, NEW key \in K!AllKeys, K!Execute(key, K!Nodes)
  PROVE  KeysInv'
<1> DEFINE c == K!Refreshed
           nodes == K!At(K!compile(c), typed)
           more == Append(typed, key)
<1>1. c = K!currentContext(K!Began) /\ Walked(typed, c) /\ K!Nodes = nodes
  BY LooksWhereItLed
<1>2. key \in DOMAIN nodes /\ nodes[key].keys = K!NoKeys
  BY <1>1 DEF K!Execute, K!Resolves
<1>3. ran' = [place |-> K!Began, keys |-> more, cmd |-> nodes[key].cmd] /\ typed' = << >>
  BY <1>1 DEF K!Execute, K!Resolved
<1>4. nodes[key].cmd = K!Meaning(more, c)
  BY <1>1, <1>2, RunsItsMeaning
<1>5. help' = help \/ help' = K!Opened(help, K!HelpGroups(K!currentContext(place)))
  BY DEF K!Execute
<1> HIDE DEF c, nodes, more
<1>6. ran'.cmd = K!Meaning(ran'.keys, K!currentContext(ran'.place))
  BY <1>1, <1>3, <1>4
<1>7. CASE help' = help
  BY <1>3, <1>6, <1>7 DEF KeysInv
<1>8. CASE help' = K!Opened(help, K!HelpGroups(K!currentContext(place)))
  <2>1. /\ help'.groups = K!HelpGroups(K!currentContext(help'.of)) /\ help'.height = help.height
    BY <1>8 DEF K!Opened
  <2> QED BY <1>3, <1>6, <2>1 DEF KeysInv
<1> QED BY <1>5, <1>7, <1>8

\* The mouse, and panes that go away.
LEMMA MouseKeeps ==
  ASSUME KeysInv, NEW p, K!Click(p) \/ K!DoubleClick \/ K!PaneRemoved(p)
  PROVE  KeysInv'
<1>1. ran' = K!Nothing /\ help' = help
  BY DEF K!Click, K!DoubleClick, K!PaneRemoved
<1>2. typed' = << >> \/ (compiled' = compiled /\ typed' = typed /\ began' = began /\ hints' = hints)
  BY DEF K!Click, K!DoubleClick, K!PaneRemoved
<1> QED BY <1>1, <1>2, NothingRan DEF KeysInv

\* The keys of the help.
LEMMA HelpKeyKeeps ==
  ASSUME KeysInv, NEW active, NEW scroll, NEW searching, NEW query,
         K!Help(active, scroll, searching, query)
  PROVE  KeysInv'
<1>1. /\ ran' = K!Nothing /\ help.active
      /\ compiled' = compiled /\ typed' = typed /\ began' = began /\ hints' = hints
  BY DEF K!Help
<1>2. help'.of = help.of /\ help'.groups = help.groups /\ help'.height = help.height
  BY DEF K!Help
<1> QED BY <1>1, <1>2, NothingRan DEF KeysInv

LEMMA SizeKeeps ==
  ASSUME KeysInv, NEW n \in ScreenHeights, K!WindowSize(n)
  PROVE  KeysInv'
<1>1. /\ ran' = K!Nothing
      /\ compiled' = compiled /\ typed' = typed /\ began' = began /\ hints' = hints
  BY DEF K!WindowSize
<1>2. help'.of = help.of /\ help'.groups = help.groups /\ help'.height = n /\ help'.active = help.active
  BY DEF K!WindowSize
<1> QED BY <1>1, <1>2, NothingRan, KeysAssumption DEF KeysInv

LEMMA KeysKeep ==
  ASSUME KeysInv, [K!Next]_K!vars
  PROVE  KeysInv'
<1>1. CASE UNCHANGED K!vars
  BY <1>1 DEF K!vars, KeysInv
<1>2. CASE K!Next
  <2>1. ASSUME NEW key \in K!AllKeys, K!Descend(key, K!Nodes) PROVE KeysInv'
    BY <2>1, DescendKeeps
  <2>2. ASSUME NEW key \in K!AllKeys, K!Swallow(key, K!Nodes) PROVE KeysInv'
    BY <2>2, SwallowKeeps
  <2>3. ASSUME NEW key \in K!AllKeys, K!Execute(key, K!Nodes) PROVE KeysInv'
    BY <2>3, ExecuteKeeps
  <2>4. ASSUME NEW p, K!Click(p) \/ K!DoubleClick \/ K!PaneRemoved(p) PROVE KeysInv'
    BY <2>4, MouseKeeps
  <2>5. CASE \/ K!ScrollDown \/ K!ScrollUp \/ K!OpenSearch \/ \E q \in HelpQueries : K!TypeQuery(q)
             \/ K!EraseQuery \/ K!CancelSearch \/ K!ApplySearch \/ K!CloseHelp
    <3>1. \E active, scroll, searching, query : K!Help(active, scroll, searching, query)
      BY <2>5 DEF K!ScrollDown, K!ScrollUp, K!OpenSearch, K!TypeQuery, K!EraseQuery, K!CancelSearch,
                  K!ApplySearch, K!CloseHelp, K!ScrollTo
    <3> QED BY <3>1, HelpKeyKeeps
  <2>6. ASSUME NEW n \in ScreenHeights, K!WindowSize(n) PROVE KeysInv'
    BY <2>6, SizeKeeps
  <2> QED BY <1>2, <2>1, <2>2, <2>3, <2>4, <2>5, <2>6 DEF K!Next
<1> QED BY <1>1, <1>2

\* What the properties say.
LEMMA MeaningIsKept == ASSUME KeysInv PROVE K!KeysMeanTheirBindings
BY DEF KeysInv, K!KeysMeanTheirBindings, K!AtRoot, BoundNext

LEMMA HelpIsWhole == ASSUME KeysInv PROVE K!HelpShowsEveryKey
<1> SUFFICES ASSUME help.active PROVE K!HelpShowsEveryKey
  BY DEF K!HelpShowsEveryKey
<1> DEFINE c == K!currentContext(help.of)
<1>1. help.groups = K!HelpGroups(c) /\ help.height \in Int
  BY DEF KeysInv
<1> HIDE DEF c
<1>2. ASSUME NEW n \in 1 .. MaxChord, NEW keys \in [1 .. n -> K!AllKeys],
             K!Meaning(keys, c) # K!NoCmd, K!Decides(keys, c).keys = << >>
      PROVE  \E g \in help.groups : \E i \in DOMAIN g.hints : g.hints[i].keys = keys
  <2>1. Listed(K!HelpGroups(c), keys)
    BY <1>2, HelpListsChords
  <2> QED BY <1>1, <2>1 DEF Listed
<1>3. ASSUME NEW g \in K!filteredGroups(help), NEW i \in DOMAIN g.hints
      PROVE  \E s \in 0 .. K!maxScroll(help) :
               \E j \in DOMAIN K!Column(help, g, s) : K!Column(help, g, s)[j] = g.hints[i]
  <2>1. CanBeSeen(help, g, i)
    BY <1>1, <1>3, EveryLineIsSeen
  <2> QED BY <2>1 DEF CanBeSeen
<1> QED BY <1>2, <1>3 DEF K!HelpShowsEveryKey, c

LEMMA StepOfKeys ==
  ASSUME [ToolsNext]_toolsVars, part = "keys"
  PROVE  [K!Next]_K!vars /\ part' = part
<1>1. CASE UNCHANGED toolsVars
  BY <1>1, ZenonT(30) DEF toolsVars, keysVars, K!vars
<1>2. CASE ToolsNext
  BY <1>2 DEF ToolsNext, TerminalsStep, SearchBarStep, FormsStep, PortForwardsStep, NoticesStep,
              EditsStep, CatalogStep, KeysStep, K!Next
<1> QED BY <1>1, <1>2

KeysPart == part = "keys" => KeysInv

\* Whatever the list of bindings, the panes and the order of keys, clicks and panes that go
\* away: a chord runs what the pane in which it began binds it to, the status bar meanwhile
\* shows the keys that go on from it and no others, and the help lists every chord that runs
\* and can be scrolled to each of its lines (compileTrie, KeyTrie, handleKey, HelpOverlay).
THEOREM KeysStayTrue == ToolsSpec => []KeysAndHelpAgree
<1>1. ToolsInit => KeysPart
  BY KeysBegin DEF ToolsInit, KeysPart
<1>2. KeysPart /\ [ToolsNext]_toolsVars => KeysPart'
  BY StepOfKeys, PartStays, KeysKeep DEF KeysPart
<1>3. KeysPart => KeysAndHelpAgree
  BY MeaningIsKept, HelpIsWhole DEF KeysPart, KeysAndHelpAgree
<1> QED BY <1>1, <1>2, <1>3, PTL DEF ToolsSpec
=============================================================================
