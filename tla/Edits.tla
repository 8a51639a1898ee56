--------------------------------- MODULE Edits --------------------------------
(* Editing in $EDITOR: an object (internal/k8s/edit.go) or the values of a    *)
(* helm release (internal/helm/editvalues.go), written to a file, opened,     *)
(* stripped of its leading comments, sent to the server, and opened again     *)
(* with the error on top when that fails. Meanwhile others write to the       *)
(* server and the cache an object is taken from lags behind it. A text is a   *)
(* sequence of lines; what an object is, beyond its version, is its body.     *)
EXTENDS Integers, Sequences, FiniteSets

CONSTANTS Bodies,      \* what an object, or the values of a release, can be
          NoValues,    \* the body of a release without values
          MaxVersion   \* bound: writes to the server

VARIABLES kind,    \* "object" or "values": what is edited
          server,  \* [version, body, by]
          cached,  \* the object as the informer last saw it
          phase,   \* "idle", "editing", "sending", "refetching"
          base,    \* baseContent
          hash,    \* baseHash
          file,    \* the file as the editor opened it
          sent,    \* the text last given to the server, <<>> when it took it
          note     \* "none", "applied", "error"

vars == <<kind, server, cached, phase, base, hash, file, sent, note>>

Line(k, v) == [kind |-> k, value |-> v]
Comment == Line("comment", 0)
Blank == Line("blank", 0)
Broken == Line("broken", 0)
Has(text, k) == \E i \in DOMAIN text : text[i].kind = k
The(text, k) == text[CHOOSE i \in DOMAIN text : text[i].kind = k].value

----------------------------------------------------------------------------
(* The texts. An object is shown with its resourceVersion, without its       *)
(* managedFields; a release without values as a comment.                     *)

(* A slip: the version goes the way of the managed fields.                   *)
marshalWithoutVersion(object) == <<Line("body", object.body)>>
marshalForEdit(object) == <<Line("version", object.version), Line("body", object.body)>>
marshalValues(values) == IF values = NoValues THEN <<Comment>> ELSE <<Line("body", values)>>
Marshal(object) == IF kind = "object" THEN marshalForEdit(object) ELSE marshalValues(object.body)

After(text, k) == SubSeq(text, 1 + Cardinality({i \in DOMAIN text : \A j \in 1..i : text[j].kind = k}), Len(text))
StripComments(text) == After(After(text, "comment"), "blank")
FormatErrComment == <<Comment, Comment>>

(* What a user may leave in the file: nothing, what was there, another body  *)
(* in its place, something that is no YAML, with the comments or without, or *)
(* a body alone, the version deleted.                                        *)
Retyped(text, body) ==
  IF Has(text, "body") THEN [i \in DOMAIN text |-> IF text[i].kind = "body" THEN Line("body", body) ELSE text[i]]
  ELSE Append(text, Line("body", body))
Unversioned == {<<Line("body", body)>> : body \in Bodies}
Typed ==
  LET texts == {file, Append(file, Broken)} \cup {Retyped(file, body) : body \in Bodies}
  IN  {<<>>} \cup Unversioned \cup texts \cup {StripComments(t) : t \in texts} \cup {<<Comment, Blank>> \o StripComments(t) : t \in texts}

----------------------------------------------------------------------------
(* The loop of Run.                                                          *)

Based(text) == base' = text /\ hash' = text
Opened(text) == phase' = "editing" /\ file' = text
Reopened(text) == Opened(FormatErrComment \o text)
Finished(n) == phase' = "idle" /\ note' = n

(* The edit command of an object, which is taken from the list.              *)
EditObject ==
  /\ phase = "idle" /\ kind' = "object"
  /\ Based(marshalForEdit(cached)) /\ Opened(marshalForEdit(cached))
  /\ sent' = <<>> /\ note' = "none"
  /\ UNCHANGED <<server, cached>>

(* The edit command of a release, whose values are fetched first.            *)
EditValues ==
  /\ phase = "idle" /\ kind' = "values"
  /\ \/ Based(marshalValues(server.body)) /\ Opened(marshalValues(server.body)) /\ note' = "none"
     \/ Finished("error") /\ UNCHANGED <<base, hash, file>>
  /\ sent' = <<>>
  /\ UNCHANGED <<server, cached>>

(* The editor ends with an error.                                            *)
EditorFails ==
  /\ phase = "editing" /\ Finished("error")
  /\ UNCHANGED <<kind, server, cached, base, hash, file, sent>>

(* It ends with a text: nothing, or nothing new, cancels; what cannot be     *)
(* parsed is opened again as it was at first.                                *)
Cancels(text) == StripComments(text) = <<>> \/ StripComments(text) = hash
Cancel(text) ==
  /\ phase = "editing" /\ Cancels(text)
  /\ Finished(IF kind = "object" THEN "applied" ELSE "none")
  /\ UNCHANGED <<kind, server, cached, base, hash, file, sent>>

Misparse(text) ==
  /\ phase = "editing" /\ ~Cancels(text) /\ Has(text, "broken")
  /\ Reopened(base) /\ sent' = StripComments(text)
  /\ UNCHANGED <<kind, server, cached, base, hash, note>>

Send(text) ==
  /\ phase = "editing" /\ ~Cancels(text) /\ ~Has(text, "broken")
  /\ phase' = "sending" /\ sent' = StripComments(text)
  /\ UNCHANGED <<kind, server, cached, base, hash, file, note>>

(* The server takes the update: for an object that says its version only     *)
(* when the server has that one, for any other always. Its answer can be     *)
(* lost.                                                                     *)
Conflicts == kind = "object" /\ Has(sent, "version") /\ The(sent, "version") # server.version
Taken == [version |-> server.version + 1, body |-> The(sent, "body"), by |-> "user"]

Update ==
  /\ phase = "sending" /\ ~Conflicts /\ server.version < MaxVersion
  /\ server' = Taken
  /\ \/ Finished(IF kind = "object" THEN "applied" ELSE "none") /\ sent' = <<>> /\ UNCHANGED file
     \/ kind = "object" /\ Reopened(base) /\ UNCHANGED <<note, sent>>
     \/ kind = "values" /\ phase' = "refetching" /\ UNCHANGED <<note, file, sent>>
  /\ UNCHANGED <<kind, cached, base, hash>>

(* It refuses: a conflict, and any refusal of a helm upgrade, fetches what   *)
(* the server has now; anything else opens the text as it was at first.      *)
Refuse ==
  /\ phase = "sending"
  /\ IF Conflicts \/ kind = "values" THEN phase' = "refetching" /\ UNCHANGED file ELSE Reopened(base)
  /\ UNCHANGED <<kind, server, cached, base, hash, sent, note>>

Refetch ==
  /\ phase = "refetching"
  /\ \/ Based(Marshal(server)) /\ Reopened(Marshal(server))
     \/ Reopened(base) /\ UNCHANGED <<base, hash>>
  /\ UNCHANGED <<kind, server, cached, sent, note>>

----------------------------------------------------------------------------
(* The world outside.                                                        *)
OtherWrites(body) ==
  /\ server.version < MaxVersion
  /\ server' = [version |-> server.version + 1, body |-> body, by |-> "other"]
  /\ UNCHANGED <<kind, cached, phase, base, hash, file, sent, note>>

Watch ==
  /\ cached # server /\ cached' = server
  /\ UNCHANGED <<kind, server, phase, base, hash, file, sent, note>>

Init ==
  /\ kind = "object"
  /\ server \in {[version |-> 1, body |-> b, by |-> "other"] : b \in Bodies} /\ cached = server
  /\ phase = "idle" /\ note = "none"
  /\ base = <<>> /\ hash = <<>> /\ file = <<>> /\ sent = <<>>

Next ==
  \/ EditObject
  \/ EditValues
  \/ EditorFails
  \/ \E text \in Typed : Cancel(text)
  \/ \E text \in Typed : Misparse(text)
  \/ \E text \in Typed : Send(text)
  \/ Update
  \/ Refuse
  \/ Refetch
  \/ \E body \in Bodies : OtherWrites(body)
  \/ Watch

Spec == Init /\ [][Next]_vars

----------------------------------------------------------------------------
(* Saving a file as it was opened cancels, whatever was refused and fetched  *)
(* before (internal/editor/editor.go: "save unchanged to cancel"): what is   *)
(* sent always differs from what was shown.                                  *)
OnlyChangesAreSent == phase = "sending" => sent # StripComments(file)

(* An edit of an object that leaves a version where the file showed one      *)
(* replaces nothing its author has not seen, however stale the list it was   *)
(* opened from and whoever wrote meanwhile: what the server had is what the  *)
(* file showed. (With the version deleted it replaces whatever is there.)    *)
KeepsVersion == Has(StripComments(file), "version") => Has(sent, "version")
ReplaceStep ==
  kind = "object" /\ KeepsVersion /\ server' # server /\ server'.by = "user" =>
    The(StripComments(file), "body") = server.body
NothingUnseenIsReplaced == [][ReplaceStep]_vars

=============================================================================
