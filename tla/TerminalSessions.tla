-------------------------- MODULE TerminalSessions --------------------------
(***************************************************************************)
(* Embedded terminal panes: the panes, the session registry and the        *)
(* clean-up metadata of the App (internal/app), the sessions behind them   *)
(* (internal/k8s/session) and the debug pods they need (internal/k8s).     *)
(*                                                                         *)
(* The Update goroutine handles keys and messages one at a time.  Beside   *)
(* it run, per terminal: the pre-flight that prepares a debug container,   *)
(* the stream to the shell, the command that reads the session's output    *)
(* channel, and after a close the goroutine that lets the shell exit.      *)
(***************************************************************************)
EXTENDS Naturals, FiniteSets

CONSTANTS
    Exec, PodDebug, NodeDebug,  \* ids of terminals by kind; each is used once
    OutCap                      \* capacity of a session's output channel

Debug == PodDebug \cup NodeDebug
Terminal == Exec \cup Debug

VARIABLES
    status,      \* of the program: "running", "quitting" (the quit command is
                 \* under way), "exited" or "crashed"
    lists,       \* some resource list is in the layout
    layout,      \* the terminal panes in the layout
    exited,      \* panes frozen by MarkExited
    terminals,   \* App.terminals: registered sessions
    termCleanup, \* App.termCleanup: terminals with metadata
    named,       \* those whose metadata knows the pod's name
    preflight,   \* debug pre-flight, "ready" and "failed" with its message queued
    pod,         \* node-debug pod: "none", "up", or "deleted" (asked for)
    stream,      \* the session's stream
    out,         \* chunks in the session's output channel
    read,        \* the read command: waiting, or its message queued
    closer       \* the goroutine that releases a closed session

vars == <<status, lists, layout, exited, terminals, termCleanup, named, preflight,
          pod, stream, out, read, closer>>

sessionVars == <<stream, out, read, closer>>
paneVars == <<lists, layout, exited>>
cleanupVars == <<termCleanup, named, preflight, pod>>

Init ==
    /\ status = "running" /\ lists = TRUE
    /\ layout = {} /\ exited = {} /\ terminals = {}
    /\ termCleanup = {} /\ named = {}
    /\ preflight = [t \in Terminal |-> "none"]
    /\ pod = [t \in Terminal |-> "none"]
    /\ stream = [t \in Terminal |-> "none"]
    /\ out = [t \in Terminal |-> 0]
    /\ read = [t \in Terminal |-> "none"]
    /\ closer = [t \in Terminal |-> "none"]

\* The process is there, and Update handles messages.
Alive == status \in {"running", "quitting"}

SplitCount == Cardinality(layout) + IF lists THEN 1 ELSE 0

\* The keys reach the key trie: a list, or an exited terminal, can be focused.
TrieReachable == status = "running" /\ (lists \/ layout \cap exited # {})

Unused(t) == preflight[t] = "none" /\ stream[t] = "none"

\* session.Start, the registration and the first read.
StartSession(t) ==
    /\ terminals' = terminals \cup {t}
    /\ stream' = [stream EXCEPT ![t] = "running"]
    /\ read' = [read EXCEPT ![t] = "waiting"]
    /\ UNCHANGED <<out, closer>>

-----------------------------------------------------------------------------
(* Keys.                                                                   *)

\* openExecTerminal, from a resource list.
OpenExec(t) ==
    /\ status = "running" /\ lists /\ Unused(t)
    /\ layout' = layout \cup {t}
    /\ StartSession(t)
    /\ UNCHANGED <<status, lists, exited, cleanupVars>>

\* openDebugTerminal, openNodeDebugTerminal: the placeholder is shown at once.
OpenDebug(t) ==
    /\ status = "running" /\ lists /\ Unused(t)
    /\ layout' = layout \cup {t}
    /\ termCleanup' = termCleanup \cup {t}
    /\ preflight' = [preflight EXCEPT ![t] = IF t \in NodeDebug THEN "creating" ELSE "waiting"]
    /\ UNCHANGED <<status, lists, exited, terminals, named, pod, sessionVars>>

\* handleSplit, and closeFocusedSplit of the last list.
ToggleList ==
    /\ TrieReachable
    /\ lists' = ~lists
    /\ lists => SplitCount > 1
    /\ UNCHANGED <<status, layout, exited, terminals, cleanupVars, sessionVars>>

\* closeTerminalSession: unregister, let a goroutine end the shell, cancel the
\* pre-flight and delete a pod whose name is known.  A cancelled pre-flight may
\* still succeed, so cancelling only makes it likelier to fail.
CloseSession(t) ==
    /\ terminals' = terminals \ {t}
    /\ closer' = IF t \in terminals THEN [closer EXCEPT ![t] = "asking"] ELSE closer
    /\ termCleanup' = termCleanup \ {t}
    /\ named' = named \ {t}
    /\ pod' = IF t \in named \cap NodeDebug THEN [pod EXCEPT ![t] = "deleted"] ELSE pod
    /\ UNCHANGED <<preflight, stream, out, read>>

\* closeFocusedSplit of a terminal, by prefix or through the trie.
CloseTerminal(t) ==
    /\ status = "running" /\ t \in layout /\ SplitCount > 1
    /\ layout' = layout \ {t}
    /\ CloseSession(t)
    /\ UNCHANGED <<status, lists, exited>>

\* closeFocusedTerminal, the last split: the pane stays.
CloseLastTerminal(t) ==
    /\ status = "running" /\ t \in layout \ exited /\ SplitCount = 1
    /\ CloseSession(t)
    /\ UNCHANGED <<status, paneVars>>

\* "quit", ctrl+c: shutdownTerminals, then tea.Quit.
Quit ==
    /\ TrieReachable
    /\ status' = "quitting"
    /\ termCleanup' = {} /\ named' = {}
    /\ pod' = [t \in Terminal |-> IF t \in named \cap NodeDebug THEN "deleted" ELSE pod[t]]
    /\ terminals' = {}
    /\ stream' = [t \in Terminal |->
                    IF t \in terminals /\ stream[t] = "running" THEN "cancelled" ELSE stream[t]]
    /\ UNCHANGED <<paneVars, preflight, out, read, closer>>

\* The QuitMsg arrives and the program ends.
Exit ==
    /\ status = "quitting"
    /\ status' = "exited"
    /\ UNCHANGED <<paneVars, terminals, cleanupVars, sessionVars>>

-----------------------------------------------------------------------------
(* The pre-flight, PrepareNodeDebug and PrepareEphemeralDebug.             *)

Preflight(t, from, to) ==
    /\ Alive /\ preflight[t] = from
    /\ preflight' = [preflight EXCEPT ![t] = to]
    /\ UNCHANGED <<status, paneVars, terminals, termCleanup, named, sessionVars>>

PodCreated(t) ==
    /\ Preflight(t, "creating", "waiting")
    /\ pod' = [pod EXCEPT ![t] = "up"]

CreateFailed(t) == Preflight(t, "creating", "failed") /\ UNCHANGED pod

ContainerRuns(t) == Preflight(t, "waiting", "ready") /\ UNCHANGED pod

\* Timeout, termination or cancellation; PrepareNodeDebug deletes its pod.
WaitFailed(t) ==
    /\ Preflight(t, "waiting", "failed")
    /\ pod' = IF t \in NodeDebug THEN [pod EXCEPT ![t] = "deleted"] ELSE pod

\* failTerminalPane: removed, or frozen when it is the last split.
FailPane(t) ==
    IF SplitCount > 1 THEN layout' = layout \ {t} /\ UNCHANGED exited
                      ELSE exited' = exited \cup {t} /\ UNCHANGED layout

\* handleDebugReady with an error.
DebugFailed(t) ==
    /\ Alive /\ preflight[t] = "failed"
    /\ preflight' = [preflight EXCEPT ![t] = "done"]
    /\ termCleanup' = termCleanup \ {t}
    /\ IF t \in layout THEN FailPane(t) ELSE UNCHANGED <<layout, exited>>
    /\ UNCHANGED <<status, lists, terminals, named, pod, sessionVars>>

DeletePod(t) == pod' = IF t \in NodeDebug THEN [pod EXCEPT ![t] = "deleted"] ELSE pod

\* Mutant: the client is taken from the metadata, which the close removed.
DebugReadyLateByMeta(t) ==
    /\ Alive /\ preflight[t] = "ready" /\ t \notin layout
    /\ preflight' = [preflight EXCEPT ![t] = "done"]
    /\ IF t \in termCleanup THEN DeletePod(t) ELSE UNCHANGED pod
    /\ termCleanup' = termCleanup \ {t}
    /\ UNCHANGED <<status, paneVars, terminals, named, sessionVars>>

\* handleDebugReady, success, the pane is gone: its pod is deleted with the
\* client the message carries.
DebugReadyLate(t) ==
    /\ Alive /\ preflight[t] = "ready" /\ t \notin layout
    /\ preflight' = [preflight EXCEPT ![t] = "done"]
    /\ DeletePod(t)
    /\ termCleanup' = termCleanup \ {t}
    /\ UNCHANGED <<status, paneVars, terminals, named, sessionVars>>

\* handleDebugReady, success: the session is bound to the placeholder.
DebugReady(t) ==
    /\ Alive /\ preflight[t] = "ready" /\ t \in layout \cap termCleanup
    /\ preflight' = [preflight EXCEPT ![t] = "done"]
    /\ named' = named \cup {t}
    /\ StartSession(t)
    /\ UNCHANGED <<status, paneVars, termCleanup, pod>>

\* handleDebugReady, the attach executor cannot be built.
AttachFailed(t) ==
    /\ Alive /\ preflight[t] = "ready" /\ t \in layout \cap termCleanup
    /\ preflight' = [preflight EXCEPT ![t] = "done"]
    /\ DeletePod(t)
    /\ termCleanup' = termCleanup \ {t}
    /\ FailPane(t)
    /\ UNCHANGED <<status, lists, terminals, named, sessionVars>>

\* handleDebugReady for a pane without metadata: the client of the zero
\* terminalMeta is nil, which NewAttachExecutor dereferences.
DebugReadyWithoutMeta(t) ==
    /\ Alive /\ preflight[t] = "ready" /\ t \in layout \ termCleanup
    /\ status' = "crashed"
    /\ preflight' = [preflight EXCEPT ![t] = "done"]
    /\ UNCHANGED <<paneVars, terminals, termCleanup, named, pod, sessionVars>>
-----------------------------------------------------------------------------
(* The session: stream, output channel, reader, and the closing goroutine. *)

\* chanWriter: blocks on a full channel until it is read or cancelled.
Output(t) ==
    /\ Alive /\ stream[t] = "running" /\ out[t] < OutCap
    /\ out' = [out EXCEPT ![t] = @ + 1]
    /\ UNCHANGED <<status, paneVars, terminals, cleanupVars, stream, read, closer>>

\* Mutant: the cancellation is not seen while the output is blocked.
StreamReturnsIfRead(t) ==
    /\ Alive
    /\ stream[t] \in {"running", "cancelled"} /\ out[t] < OutCap
    /\ stream' = [stream EXCEPT ![t] = "ended"]
    /\ UNCHANGED <<status, paneVars, terminals, cleanupVars, out, read, closer>>

\* StreamWithContext returns, out and done are closed: the shell ended and its
\* output is delivered, or the context was cancelled.
StreamReturns(t) ==
    /\ Alive
    /\ \/ stream[t] = "running" /\ out[t] < OutCap
       \/ stream[t] = "cancelled"
    /\ stream' = [stream EXCEPT ![t] = "ended"]
    /\ UNCHANGED <<status, paneVars, terminals, cleanupVars, out, read, closer>>

\* readTermBytes: a chunk, or the closed channel.
Read(t) ==
    /\ Alive /\ read[t] = "waiting"
    /\ \/ /\ out[t] > 0
          /\ out' = [out EXCEPT ![t] = @ - 1]
          /\ read' = [read EXCEPT ![t] = "bytes"]
       \/ /\ out[t] = 0 /\ stream[t] = "ended"
          /\ read' = [read EXCEPT ![t] = "exit"]
          /\ UNCHANGED out
    /\ UNCHANGED <<status, paneVars, terminals, cleanupVars, stream, closer>>

\* Mutant: the read is not scheduled again.
TermBytesOnce(t) ==
    /\ Alive /\ read[t] = "bytes"
    /\ read' = [read EXCEPT ![t] = "none"]
    /\ UNCHANGED <<status, paneVars, terminals, cleanupVars, stream, out, closer>>

\* Update, TermBytesMsg: read on, while the session is registered.
TermBytes(t) ==
    /\ Alive /\ read[t] = "bytes"
    /\ read' = [read EXCEPT ![t] = IF t \in terminals THEN "waiting" ELSE "none"]
    /\ UNCHANGED <<status, paneVars, terminals, cleanupVars, stream, out, closer>>

\* Update, TermExitMsg: the pane is frozen.
TermExit(t) ==
    /\ Alive /\ read[t] = "exit"
    /\ read' = [read EXCEPT ![t] = "none"]
    /\ exited' = IF t \in layout THEN exited \cup {t} ELSE exited
    /\ UNCHANGED <<status, lists, layout, terminals, cleanupVars, stream, out, closer>>

\* TerminateGracefully gave up or saw the end; Close.
Closed(t) ==
    /\ Alive /\ closer[t] = "asking"
    /\ closer' = [closer EXCEPT ![t] = "done"]
    /\ stream' = IF stream[t] = "running" THEN [stream EXCEPT ![t] = "cancelled"] ELSE stream
    /\ UNCHANGED <<status, paneVars, terminals, cleanupVars, out, read>>

Next ==
    \/ \E t \in Exec : OpenExec(t)
    \/ \E t \in Debug :
         \/ OpenDebug(t) \/ ContainerRuns(t) \/ WaitFailed(t) \/ DebugFailed(t)
         \/ DebugReady(t) \/ DebugReadyLate(t) \/ AttachFailed(t)
         \/ DebugReadyWithoutMeta(t)
    \/ \E t \in NodeDebug : PodCreated(t) \/ CreateFailed(t)
    \/ \E t \in Terminal :
         \/ CloseTerminal(t) \/ CloseLastTerminal(t) \/ Output(t) \/ StreamReturns(t)
         \/ Read(t) \/ TermBytes(t) \/ TermExit(t) \/ Closed(t)
    \/ ToggleList \/ Quit \/ Exit

Spec == Init /\ [][Next]_vars

\* What takes place without the user and the shell: output is read and its messages are
\* handled, and a closed session ends.
Reads(t) == Read(t) \/ TermBytes(t) \/ TermExit(t)
Ends(t) == Closed(t) \/ (stream[t] = "cancelled" /\ StreamReturns(t))

-----------------------------------------------------------------------------
TypeOK ==
    /\ status \in {"running", "quitting", "exited", "crashed"}
    /\ lists \in BOOLEAN
    /\ layout \in SUBSET Terminal
    /\ exited \in SUBSET Terminal
    /\ terminals \in SUBSET Terminal
    /\ termCleanup \in SUBSET Debug
    /\ named \in SUBSET termCleanup
    /\ preflight \in [Terminal -> {"none", "creating", "waiting", "ready", "failed", "done"}]
    /\ pod \in [Terminal -> {"none", "up", "deleted"}]
    /\ stream \in [Terminal -> {"none", "running", "cancelled", "ended"}]
    /\ out \in [Terminal -> 0..OutCap]
    /\ read \in [Terminal -> {"none", "waiting", "bytes", "exit"}]
    /\ closer \in [Terminal -> {"none", "asking", "done"}]

\* While the program runs no node-debug pod is forgotten: a pod that is up has a
\* pre-flight that will report it, or is known by name to what will close its pane,
\* however closing, cancelling, failing and late success interleave.
PodsAreOwned ==
    Alive => \A t \in NodeDebug : pod[t] = "up" => preflight[t] \in {"waiting", "ready"} \/ t \in named

\* After a quit only a pod stays whose pre-flight was not handled: the program ends
\* before the cancelled pre-flight deletes it, or with its success still queued.
OnlyUnreportedPodsStay ==
    status = "exited" =>
        \A t \in NodeDebug : pod[t] = "up" => preflight[t] \in {"waiting", "ready"}

\* A shell the App no longer knows is on its way out: its stream ends, is
\* cancelled, or its closing goroutine is still at work.
ShellsAreOwned ==
    \A t \in Terminal : stream[t] = "running" => t \in terminals \/ closer[t] = "asking"

\* Together: what was started in a cluster is out of reach only where the program ended
\* before it was told of a pod.
NothingLeaks == PodsAreOwned /\ OnlyUnreportedPodsStay /\ ShellsAreOwned

\* The output of a registered session keeps flowing to a pane that is there: a
\* read is in flight until the exit is shown.
OutputIsPumped ==
    \A t \in terminals : t \in layout /\ (read[t] # "none" \/ t \in exited)

\* A closed session is released: its stream ends even when nobody reads the output any
\* more.
Unregistered(t) == stream[t] = "running" /\ t \notin terminals
StreamEnded(t) == stream[t] = "ended" \/ ~Alive

\* The end of a shell reaches its pane, after the output that came before it.
EndedUnseen(t) == stream[t] = "ended" /\ t \in terminals
EndSeen(t) == t \in exited \/ t \notin terminals
=============================================================================
