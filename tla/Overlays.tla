------------------------------ MODULE Overlays ------------------------------
(***************************************************************************)
(* What lies over the panes (internal/app: activeOverlay and the pending   *)
(* actions; internal/ui: the dialogs).  An overlay takes the keys; when it *)
(* closes it may send a message, and the message is handled after whatever *)
(* was handled in between.  The actions a dialog confirms are kept in four *)
(* pending fields of the program and not in the message, and what some of  *)
(* them act on is looked up when the message comes.                        *)
(*                                                                         *)
(* A target is what a pane shows: [plugin, cluster]; the plugin of a       *)
(* terminal pane is NoPlugin.  Objects are named by the plugin they are of.*)
(***************************************************************************)
EXTENDS Integers, FiniteSets

CONSTANTS
    Pane,       \* the panes of the layout, in no order
    Plugin,     \* kinds of resources
    Local,      \* kinds that are deleted in the program itself: port forwards
    Cluster,
    Connected,  \* clusters with a client; the others are pinned
    NoPlugin,
    Release,    \* helm releases
    Plain,      \* overlays that only take keys: help, pickers of the log view
    Forms,      \* overlays that send a request about one object: scale, set-image, ...
    Pickers,    \* "resource", "context": overlays that send what was picked
    MaxAnswers, \* bound: messages of closed overlays not handled yet
    None

VARIABLES
    focus, target,  \* the focused pane; what each pane shows
    overlay,        \* App.activeOverlay
    about,          \* what the open overlay was opened for: the action it asks
                    \* for, the object of the form, or a release and the release
                    \* whose revisions are listed for it
    pending,        \* pendingRestart, pendingDelete, pendingRun, pendingDebug
    answers,        \* messages of closed overlays that are on their way
    histories,      \* the releases whose history is being fetched
    done,           \* history: what the last step did to a cluster
    disturbed       \* history: panes or questions changed while one was open

vars == <<focus, target, overlay, about, pending, answers, histories, done, disturbed>>
where == <<focus, target>>

Target == [plugin : Plugin \cup {NoPlugin}, cluster : Cluster]
Order == <<"restart", "delete", "run", "debug">>
Confirmed == {Order[i] : i \in 1 .. 4}
Nothing == [k \in Confirmed |-> None]

Init ==
    /\ focus \in Pane /\ target \in [Pane -> Target]
    /\ overlay = "none" /\ about = None /\ pending = Nothing
    /\ answers = {} /\ histories = {} /\ done = None /\ disturbed = FALSE

Here == target[focus]
OnList == Here.plugin # NoPlugin
Shown(k) == [kind |-> k, plugin |-> Here.plugin, cluster |-> Here.cluster]

\* A key is a command only when no overlay and no live terminal takes it.
Command == overlay = "none" /\ OnList

Open(o, a) == overlay' = o /\ about' = a
Close == overlay' = "none" /\ about' = None
Sends(m) == Cardinality(answers) < MaxAnswers /\ answers' = answers \cup {m}

\* Keys handled before an answer is, and panes that change by themselves while
\* a question is open, are what the answer of a question does not survive.
Outstanding == overlay # "none" \/ answers # {} \/ pending # Nothing
Quiet == done' = None /\ disturbed' = (disturbed /\ Outstanding)
Disturbs == done' = None /\ disturbed' = Outstanding
Key == IF answers # {} THEN Disturbs ELSE Quiet

-----------------------------------------------------------------------------
(* Opening.                                                                *)

OpenOther(o) ==
    /\ Command /\ o \in Plain \cup Pickers
    /\ Open(o, None) /\ Key
    /\ UNCHANGED <<where, pending, answers, histories>>

\* delete, rollout-restart, a custom command with confirm, and the two debugs
\* that are confirmed; a restart and a debug need a client.
Ask(k) ==
    /\ Command /\ (k \in {"restart", "debug"} => Here.cluster \in Connected)
    /\ pending' = [pending EXCEPT ![k] = Shown(k)]
    /\ Open("confirm", Shown(k)) /\ Key
    /\ UNCHANGED <<where, answers, histories>>

\* port-forward, set-image and scale need a client, the chart of a release none.
OpenForm(o) ==
    /\ Command /\ (o = "chartInput" \/ Here.cluster \in Connected)
    /\ Open(o, Shown(o)) /\ Key
    /\ UNCHANGED <<where, pending, answers, histories>>

OpenRollback(r) ==
    /\ Command /\ Here.cluster \in Connected
    /\ histories' = histories \cup {r}
    /\ Open("rollback", [release |-> r, listed |-> None]) /\ Key
    /\ UNCHANGED <<where, pending, answers>>

\* The history is shown whenever the overlay is open, whatever it was opened for.
HistoryLoaded(r) ==
    /\ r \in histories /\ histories' = histories \ {r}
    /\ about' = IF overlay = "rollback" THEN [about EXCEPT !.listed = r] ELSE about
    /\ Quiet /\ UNCHANGED <<where, overlay, pending, answers>>

-----------------------------------------------------------------------------
(* The keys an overlay takes.                                              *)

\* Mutant: what was asked stays pending.
CtrlWKeepsDelete ==
    /\ overlay # "none" /\ Close
    /\ pending' = [Nothing EXCEPT !["delete"] = pending["delete"]]
    /\ Quiet /\ UNCHANGED <<where, answers, histories>>

\* ctrl+w takes the overlay and what it asked for away.
CtrlW ==
    /\ overlay # "none" /\ Close /\ pending' = Nothing
    /\ Quiet /\ UNCHANGED <<where, answers, histories>>

\* esc, and enter or n on No; also the end of a plain overlay.
Dismiss ==
    /\ overlay \notin {"none", "confirm"} /\ Close
    /\ Quiet /\ UNCHANGED <<where, pending, answers, histories>>

\* The confirm dialog always sends its result: Yes, Force, No or Cancel.
Answer(yes) ==
    /\ overlay = "confirm" /\ Close
    /\ Sends([what |-> "confirm", yes |-> yes, of |-> about])
    /\ Quiet /\ UNCHANGED <<where, pending, histories>>

\* A form with a valid value, a picker with a choice.
Submit ==
    /\ overlay \in Forms \cup Pickers /\ Close
    /\ Sends([what |-> IF overlay \in Forms THEN "form" ELSE "picked", of |-> about])
    /\ Quiet /\ UNCHANGED <<where, pending, histories>>

\* The revision under the cursor, of the release the overlay was opened for.
SubmitRollback ==
    /\ overlay = "rollback" /\ about.listed # None /\ Close
    /\ Sends([what |-> "rollback", of |-> about])
    /\ Quiet /\ UNCHANGED <<where, pending, histories>>

-----------------------------------------------------------------------------
(* What a confirmed action does: the cluster, and for a delete the plugin, *)
(* are those of the pane that is focused when the answer is handled.       *)

Effect(a, at) ==
    CASE a.kind = "run" -> a
      [] a.kind = "delete" /\ (at.plugin \in Local
            \/ (at.plugin # NoPlugin /\ at.cluster \in Connected)) ->
           [a EXCEPT !.plugin = at.plugin, !.cluster = at.cluster]
      [] a.kind \in {"restart", "debug"} /\ at.cluster \in Connected ->
           [a EXCEPT !.cluster = at.cluster]
      [] OTHER -> None

\* The pending action that is answered: the first in the order of the handler.
Answered == {i \in 1 .. 4 : pending[Order[i]] # None
                            /\ \A j \in 1 .. i - 1 : pending[Order[j]] = None}

\* Mutant: what was run stays pending.
RunKeepsPending(m) ==
    \E i \in Answered :
        LET a == pending[Order[i]] IN
        /\ pending' = IF m.yes THEN pending ELSE [pending EXCEPT ![Order[i]] = None]
        /\ done' = IF m.yes THEN Effect(a, Here) ELSE None

Run(m) ==
    \E i \in Answered :
        LET a == pending[Order[i]] IN
        /\ pending' = [pending EXCEPT ![Order[i]] = None]
        /\ done' = IF m.yes THEN Effect(a, Here) ELSE None

\* ConfirmResultMsg; it takes away whatever overlay is open by now.
ConfirmResult(m) ==
    /\ m \in answers /\ m.what = "confirm" /\ answers' = answers \ {m}
    /\ Close
    /\ IF pending = Nothing THEN done' = None /\ UNCHANGED pending ELSE Run(m)
    /\ disturbed' = (disturbed /\ Outstanding)
    /\ UNCHANGED <<where, histories>>

\* The request of a form, and a rollback: they go to the cluster focused now.
Requested(m) ==
    /\ m \in answers /\ m.what \in {"form", "rollback"} /\ answers' = answers \ {m}
    /\ done' = IF m.what = "form" /\ Here.cluster \in Connected
               THEN [m.of EXCEPT !.cluster = Here.cluster] ELSE None
    /\ disturbed' = (disturbed /\ Outstanding)
    /\ UNCHANGED <<where, overlay, about, pending, histories>>

\* A resource or a context that was picked: the focused pane shows something
\* else, or another pane gets the focus.
Picked(m) ==
    /\ m \in answers /\ m.what = "picked" /\ answers' = answers \ {m}
    /\ \/ focus' \in Pane /\ UNCHANGED target
       \/ \E t \in Target : /\ OnList /\ t.plugin # NoPlugin
                            /\ target' = [target EXCEPT ![focus] = t] /\ UNCHANGED focus
    /\ Disturbs
    /\ UNCHANGED <<overlay, about, pending, histories>>

-----------------------------------------------------------------------------
(* The panes meanwhile.                                                    *)

\* Keys and clicks move the focus only where no overlay is.
MoveFocus(p) ==
    /\ overlay = "none" /\ focus' = p
    /\ Key
    /\ UNCHANGED <<target, overlay, about, pending, answers, histories>>

\* goto, a pane switch of context: keys.
Retarget(t) ==
    /\ Command /\ t.plugin # NoPlugin /\ target' = [target EXCEPT ![focus] = t]
    /\ Key
    /\ UNCHANGED <<focus, overlay, about, pending, answers, histories>>

\* A debug pre-flight that fails closes its pane, and the focus lands on
\* another one, whatever is open.
DebugFailed(p) ==
    /\ p # focus /\ focus' = p /\ Disturbs
    /\ UNCHANGED <<target, overlay, about, pending, answers, histories>>

\* reloadAll takes away what might still be pending.
ReloadAll ==
    /\ Command /\ Close /\ pending' = Nothing
    /\ Key /\ UNCHANGED <<where, answers, histories>>

Next ==
    \/ \E o \in Plain \cup Pickers : OpenOther(o)
    \/ \E k \in Confirmed : Ask(k)
    \/ \E o \in Forms : OpenForm(o)
    \/ \E r \in Release : OpenRollback(r) \/ HistoryLoaded(r)
    \/ CtrlW \/ Dismiss \/ Submit \/ SubmitRollback
    \/ \E yes \in BOOLEAN : Answer(yes)
    \/ \E m \in answers : ConfirmResult(m) \/ Requested(m) \/ Picked(m)
    \/ \E p \in Pane : MoveFocus(p) \/ DebugFailed(p)
    \/ \E t \in Target : Retarget(t)
    \/ ReloadAll

Spec == Init /\ [][Next]_vars

-----------------------------------------------------------------------------
(* Properties.                                                             *)

\* What is pending has the dialog that asks for it, or its answer is on the way;
\* it is one action, unless keys were handled before an answer was.
PendingIsAsked ==
    ~disturbed =>
        /\ Cardinality({k \in Confirmed : pending[k] # None}) <= 1
        /\ \A k \in Confirmed : pending[k] # None =>
             \/ overlay = "confirm" /\ about = pending[k]
             \/ \E m \in answers : m.what = "confirm" /\ m.of = pending[k]

\* An answer does what was asked when its dialog opened, on the cluster and to
\* the objects that were shown there, or nothing if it was no; the same for the
\* request of a form.  Not so if the panes changed in the meantime.
AnswerStep ==
    \A m \in answers \ answers' :
        m.what \in {"confirm", "form"} /\ ~disturbed =>
            done' = CASE m.what = "form" /\ m.of.cluster \in Connected -> m.of
                      [] m.what = "confirm" /\ m.yes -> Effect(m.of, m.of)
                      [] OTHER -> None
AnswerIsOfItsQuestion == [][AnswerStep]_vars
=============================================================================
