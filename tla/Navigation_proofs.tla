-------------------------- MODULE Navigation_proofs --------------------------
(***************************************************************************)
(* Back stays on the cluster of its pane and above the floor of its split, *)
(* for any panes, clusters, kinds and drills.                              *)
(*                                                                         *)
(* A pane is popped in two places: by back, which looks at the floor, and  *)
(* by a choice in the list of contexts, which does not.  That the second   *)
(* never goes below the floor either needs more than the property: the     *)
(* list of contexts is only ever pushed above the floor (Grounded), in     *)
(* the pane as it is and in every frame that back would bring back.        *)
(***************************************************************************)
EXTENDS Navigation, SequenceTheorems, TLAPS

Frame == [kind : Kind, ns : Ns \cup {All}, ctx : Context, rows : Rows, object : Ns \cup {NoObject}]
PaneType == [kind : Kind, ns : Ns \cup {All}, ctx : Context, rows : Rows,
             stack : Seq(Frame), floor : {0, 1}]

\* A list of contexts is at the root of a pane, or above its floor.
Grounded(p) ==
    /\ p \in PaneType
    /\ \A i \in 1..Len(p.stack) :
         /\ p.stack[i].ctx = p.ctx
         /\ p.stack[i].kind = Contexts => i = 1 \/ i - 1 > p.floor
    /\ Len(p.stack) >= p.floor
    /\ p.kind = Contexts => p.stack = <<>> \/ Len(p.stack) > p.floor

IInv ==
    /\ focus \in Open /\ Open \subseteq Pane
    /\ \A p \in Open : Grounded(pane[p])

-----------------------------------------------------------------------------
(* The helpers of the handlers keep a pane grounded.                       *)

LEMMA FreshGrounded ==
  ASSUME NEW k \in Kind, NEW ns \in Ns \cup {All}, NEW c \in Context
  PROVE  Grounded(Fresh(k, ns, c)) /\ Fresh(k, ns, c).stack = <<>>
BY DEF Grounded, PaneType, Fresh, Rows

\* What does not touch the stack, and does not turn a drilled pane into a list
\* of contexts.
LEMMA KeptGrounded ==
  ASSUME NEW p, Grounded(p), NEW q \in PaneType,
         q.stack = p.stack, q.floor = p.floor, q.ctx = p.ctx, q.kind = p.kind
  PROVE  Grounded(q)
BY DEF Grounded

\* What empties it.
LEMMA RootGrounded ==
  ASSUME NEW q \in PaneType, q.stack = <<>>, q.floor = 0
  PROVE  Grounded(q)
BY DEF Grounded, PaneType

LEMMA PopulatedGrounded ==
  ASSUME NEW p, Grounded(p), NEW up
  PROVE  Grounded(Populated(p, up)) /\ Populated(p, up).stack = p.stack
                                    /\ Populated(p, up).floor = p.floor
                                    /\ Populated(p, up).kind = p.kind
                                    /\ Populated(p, up).ctx = p.ctx
<1>1. p \in PaneType
  BY DEF Grounded
<1>2. Populated(p, up) \in PaneType
  BY <1>1 DEF Populated, PaneType, Rows
<1> QED BY <1>1, <1>2, KeptGrounded DEF Populated, PaneType

\* A drill, and the list of contexts, one level up.
LEMMA PushedGrounded ==
  ASSUME NEW p, Grounded(p), NEW k \in Kind, NEW object \in Ns \cup {NoObject}
  PROVE  /\ Grounded(Pushed(p, k, object))
         /\ Len(Pushed(p, k, object).stack) = Len(p.stack) + 1
<1> DEFINE f == [kind |-> p.kind, ns |-> p.ns, ctx |-> p.ctx, rows |-> p.rows, object |-> object]
           q == Pushed(p, k, object)
<1>1. p \in PaneType /\ f \in Frame
  BY DEF Grounded, PaneType, Frame
<1>2. /\ q.kind = k /\ q.ctx = p.ctx /\ q.stack = Append(p.stack, f) /\ q.floor = p.floor
      /\ Append(p.stack, f) \in Seq(Frame) => q \in PaneType
  BY <1>1 DEF Pushed, SetPlugin, PaneType, Rows
<1>3. /\ q.stack \in Seq(Frame) /\ Len(q.stack) = Len(p.stack) + 1
      /\ \A i \in 1..Len(p.stack) : q.stack[i] = p.stack[i]
      /\ q.stack[Len(p.stack) + 1] = f
  BY <1>1, <1>2, AppendProperties DEF PaneType
<1>4. q \in PaneType
  BY <1>2, <1>3
<1>5. Len(p.stack) \in Nat /\ p.floor \in {0, 1}
  BY <1>1, LenProperties DEF PaneType
<1>6. p.kind = Contexts => Len(p.stack) + 1 = 1 \/ Len(p.stack) > p.floor
  BY <1>1, EmptySeq DEF Grounded, PaneType
<1>7. ASSUME NEW i \in 1..Len(q.stack)
      PROVE  q.stack[i].ctx = q.ctx /\ (q.stack[i].kind = Contexts => i = 1 \/ i - 1 > q.floor)
  <2>1. CASE i \in 1..Len(p.stack)
    BY <2>1, <1>2, <1>3 DEF Grounded
  <2>2. CASE i = Len(p.stack) + 1
    <3>1. q.stack[i] = f /\ q.floor = p.floor /\ q.ctx = p.ctx
      BY <2>2, <1>2, <1>3
    <3> QED BY <3>1, <2>2, <1>5, <1>6
  <2> QED BY <2>1, <2>2, <1>3, <1>5
<1>8. Len(q.stack) > q.floor
  BY <1>2, <1>3, <1>5 DEF Grounded
<1> QED BY <1>3, <1>4, <1>5, <1>7, <1>8 DEF Grounded, PaneType

\* One level back: what is left is grounded when the floor allows it.
LEMMA PoppedGrounded ==
  ASSUME NEW p, Grounded(p), p.stack # <<>>, Len(p.stack) > p.floor
  PROVE  Grounded(PopNav(p))
<1> DEFINE n == Len(p.stack)  f == p.stack[n]  q == PopNav(p)
<1>1. p \in PaneType /\ n \in Nat /\ n > 0 /\ p.floor \in {0, 1}
  BY LenProperties, EmptySeq DEF Grounded, PaneType
<1>2. f \in Frame /\ f.ctx = p.ctx /\ (f.kind = Contexts => n = 1 \/ n - 1 > p.floor)
  <2>1. p.stack \in Seq(Frame) /\ n \in 1..n
    BY <1>1 DEF PaneType
  <2> QED BY <2>1, ElementOfSeq DEF Grounded
<1>3. /\ q.kind = f.kind /\ q.ctx = f.ctx /\ q.stack = Front(p.stack) /\ q.floor = p.floor
      /\ Front(p.stack) \in Seq(Frame) => q \in PaneType
  BY <1>1, <1>2 DEF PopNav, Last, PaneType, Frame
<1>4. /\ Front(p.stack) \in Seq(Frame) /\ Len(Front(p.stack)) = n - 1
      /\ \A i \in 1..(n - 1) : Front(p.stack)[i] = p.stack[i]
  <2>1. p.stack \in Seq(Frame) /\ \A i \in 1..(n - 1) : p.stack[i] \in Frame
    BY <1>1, ElementOfSeq DEF PaneType
  <2>2. /\ SubSeq(p.stack, 1, n - 1) \in Seq(Frame)
        /\ Len(SubSeq(p.stack, 1, n - 1)) = IF 1 <= n - 1 THEN (n - 1) - 1 + 1 ELSE 0
        /\ \A i \in 1..((n - 1) - 1 + 1) : SubSeq(p.stack, 1, n - 1)[i] = p.stack[1 + i - 1]
    BY <1>1, <2>1, SubSeqProperties
  <2> QED BY <1>1, <2>2 DEF Front
<1>5. q \in PaneType
  BY <1>3, <1>4
<1>6. n = 1 => Front(p.stack) = <<>>
  BY <1>4, EmptySeq
<1>7. \A i \in 1..(n - 1) : i \in 1..n
  BY <1>1
<1>8. \A i \in 1..(n - 1) : q.stack[i].ctx = q.ctx
                            /\ (q.stack[i].kind = Contexts => i = 1 \/ i - 1 > q.floor)
  <2> TAKE i \in 1..(n - 1)
  <2>1. q.stack[i] = p.stack[i] /\ q.ctx = p.ctx /\ q.floor = p.floor /\ i \in 1..n
    BY <1>2, <1>3, <1>4, <1>7
  <2> QED BY <2>1 DEF Grounded
<1>9. Len(q.stack) >= q.floor /\ q.stack = Front(p.stack) /\ q.floor = p.floor /\ q.kind = f.kind
  BY <1>1, <1>3, <1>4
<1> QED BY <1>1, <1>2, <1>4, <1>5, <1>6, <1>8, <1>9 DEF Grounded

LEMMA RetargetedGrounded ==
  ASSUME NEW p \in PaneType, NEW c \in Context
  PROVE  Grounded(Retargeted(p, c))
<1>1. Retargeted(p, c) \in PaneType /\ Retargeted(p, c).stack = <<>> /\ Retargeted(p, c).floor = 0
  BY EmptySeq DEF Retargeted, ResetNav, PaneType, Rows
<1> QED BY <1>1, RootGrounded

\* What a row of the list of contexts goes back to: the pop does not look at
\* the floor, and need not.
LEMMA UnderContextsGrounded ==
  ASSUME NEW p, Grounded(p) PROVE Grounded(UnderContexts(p))
<1>1. CASE p.kind = Contexts /\ InDrillDown(p)
  <2>1. p.stack # <<>> /\ Len(p.stack) > p.floor
    BY <1>1 DEF Grounded, InDrillDown
  <2> QED BY <1>1, <2>1, PoppedGrounded DEF UnderContexts
<1>2. CASE p.kind = Contexts /\ ~InDrillDown(p)
  <2>1. UnderContexts(p) = ResetNav(SetPlugin(p, Home))
    BY <1>2 DEF UnderContexts
  <2>2. LET q == ResetNav(SetPlugin(p, Home)) IN
        q \in PaneType /\ q.stack = <<>> /\ q.floor = 0
    BY NavigationAssumption, EmptySeq DEF Grounded, ResetNav, SetPlugin, PaneType, Rows
  <2> QED BY <2>1, <2>2, RootGrounded
<1>3. CASE p.kind # Contexts
  BY <1>3 DEF UnderContexts
<1> QED BY <1>1, <1>2, <1>3

LEMMA AtRootGrounded ==
  ASSUME NEW p, Grounded(p) PROVE Grounded(AtRoot(p))
<1>1. p \in PaneType /\ p.stack \in Seq(Frame)
  BY DEF Grounded, PaneType
<1>2. p.stack # <<>> => Head(p.stack) \in Frame
  BY <1>1, HeadTailProperties
<1>3. AtRoot(p) \in PaneType /\ AtRoot(p).stack = <<>> /\ AtRoot(p).floor = 0
  BY <1>1, <1>2, EmptySeq DEF AtRoot, InDrillDown, ResetNav, PaneType, Frame, Rows
<1> QED BY <1>3, RootGrounded

LEMMA ReadiedGrounded ==
  ASSUME NEW p, Grounded(p), NEW c \in Context PROVE Grounded(Readied(p, c))
<1> DEFINE q == [p EXCEPT !.ns = DefaultNs[c]]
<1>1. p \in PaneType
  BY DEF Grounded
<1>2. q \in PaneType /\ q.stack = p.stack /\ q.floor = p.floor /\ q.ctx = p.ctx /\ q.kind = p.kind
  BY <1>1, NavigationAssumption DEF PaneType
<1>3. Grounded(q)
  BY <1>2, KeptGrounded
<1> QED BY <1>3, PopulatedGrounded DEF Readied

LEMMA RepaintedGrounded ==
  ASSUME NEW p, Grounded(p), NEW k PROVE Grounded(Repainted(p, k))
<1>1. p \in PaneType
  BY DEF Grounded
<1>2. ASSUME NEW r \in Rows PROVE Grounded([p EXCEPT !.rows = r])
  <2>1. LET q == [p EXCEPT !.rows = r] IN
        q \in PaneType /\ q.stack = p.stack /\ q.floor = p.floor /\ q.ctx = p.ctx /\ q.kind = p.kind
    BY <1>1 DEF PaneType
  <2> QED BY <2>1, KeptGrounded
<1> QED BY <1>2 DEF Repainted, Rows

-----------------------------------------------------------------------------
(* The handlers.                                                           *)

\* Most change the focused pane alone.
LEMMA UpdateKeeps ==
  ASSUME IInv, NEW q, Grounded(q), pane' = [pane EXCEPT ![focus] = q], focus' = focus
  PROVE  IInv'
BY DEF IInv, Open

\* Some open one, and move there.
LEMMA OpenedKeeps ==
  ASSUME IInv, NEW r \in Pane, r \notin Open, NEW q, Grounded(q), Opened(r, q)
  PROVE  IInv'
<1>1. /\ DOMAIN pane' = Open \cup {r} /\ focus' = r /\ pane'[r] = q
      /\ \A s \in Open : pane'[s] = pane[s]
  BY DEF Opened, Open
<1> QED BY <1>1 DEF IInv, Open

\* The others change every pane in one of the ways above.
LEMMA EachKeeps ==
  ASSUME IInv, DOMAIN pane' = Open, \A p \in Open : Grounded(pane'[p]), focus' = focus
  PROVE  IInv'
BY DEF IInv, Open

LEMMA InitGrounded == ASSUME Init PROVE IInv
<1>1. PICK p \in Pane, k \in Kind \ Synthetic, ns \in Ns \cup {All}, c \in Context :
         /\ pane = [q \in {p} |-> Populated(Fresh(k, ns, c), {c})]
         /\ focus = p /\ subs = Wanted(Fresh(k, ns, c), {c})
         /\ live = {c} /\ dials = {}
  BY DEF Init
<1>2. Grounded(Populated(Fresh(k, ns, c), {c}))
  BY FreshGrounded, PopulatedGrounded
<1>3. DOMAIN pane = {p} /\ pane[p] = Populated(Fresh(k, ns, c), {c})
  BY <1>1
<1> QED BY <1>1, <1>2, <1>3 DEF IInv, Open

\* A new pane starts with the kind and the cluster of the focused one.
LEMMA RootOf ==
  ASSUME IInv, NEW k \in Kind
  PROVE  LET ns == IF Here.ns = All THEN DefaultNs[Here.ctx] ELSE Here.ns
             root == Populated(Fresh(k, ns, Here.ctx), live)
         IN Grounded(root) /\ root.stack = <<>> /\ root.floor = 0
<1> DEFINE ns == IF Here.ns = All THEN DefaultNs[Here.ctx] ELSE Here.ns
<1>1. Here \in PaneType
  BY DEF IInv, Here, Grounded
<1>2. ns \in Ns \cup {All} /\ Here.ctx \in Context
  BY <1>1, NavigationAssumption DEF PaneType
<1>3. Grounded(Fresh(k, ns, Here.ctx)) /\ Fresh(k, ns, Here.ctx).stack = <<>>
      /\ Fresh(k, ns, Here.ctx).floor = 0
  BY <1>2, FreshGrounded DEF Fresh
<1> QED BY <1>3, PopulatedGrounded

LEMMA SplitDrilledKeeps ==
  ASSUME IInv, NEW q \in Pane, NEW k \in Kind, NEW object \in Ns, SplitDrilled(q, k, object)
  PROVE  IInv'
<1> DEFINE ns == IF Here.ns = All THEN DefaultNs[Here.ctx] ELSE Here.ns
           root == Populated(Fresh(Here.kind, ns, Here.ctx), live)
           up == Pushed(root, k, object)
           new == [up EXCEPT !.floor = 1]
<1>1. Here.kind \in Kind /\ k # Contexts
  <2>1. Here \in PaneType /\ k \in Children[Here.kind] \cup Parents[Here.kind]
    BY DEF IInv, Here, Grounded, SplitDrilled
  <2> QED BY <2>1, NavigationAssumption DEF PaneType
<1>2. Grounded(root) /\ root.stack = <<>> /\ root.floor = 0
  BY <1>1, RootOf
<1>3. Grounded(up) /\ Len(up.stack) = 1 /\ up.kind = k
  <2>1. Grounded(up) /\ Len(up.stack) = Len(root.stack) + 1
    BY <1>2, PushedGrounded
  <2>2. up.kind = k
    BY <1>2 DEF Pushed, SetPlugin, Grounded, PaneType
  <2>3. Len(root.stack) = 0
    BY <1>2, EmptySeq
  <2> HIDE DEF root, up
  <2> QED BY <2>1, <2>2, <2>3
<1>4. new \in PaneType /\ new.stack = up.stack /\ new.ctx = up.ctx /\ new.floor = 1 /\ new.kind = k
  BY <1>3 DEF Grounded, PaneType
<1>5. Grounded(new)
  <2> HIDE DEF up, new
  <2>1. \A i \in 1..Len(new.stack) : i = 1 /\ new.stack[i].ctx = new.ctx
    BY <1>3, <1>4 DEF Grounded
  <2> QED BY <1>1, <1>3, <1>4, <2>1 DEF Grounded
<1>6. q \notin Open /\ Opened(q, new)
  BY DEF SplitDrilled
<1> QED BY <1>5, <1>6, OpenedKeeps
\* Every step keeps every pane grounded.
LEMMA NextGrounded == ASSUME IInv, [Next]_vars PROVE IInv'
<1>0. /\ Here \in PaneType /\ Grounded(Here) /\ focus \in Open
      /\ Here.ctx \in Context /\ Here.kind \in Kind /\ Here.ns \in Ns \cup {All}
  BY DEF IInv, Here, Grounded, PaneType
<1>1. CASE UNCHANGED vars
  BY <1>1 DEF vars, IInv, Open
<1>2. ASSUME NEW k \in Kind, NEW ns \in Ns \cup {All}, Goto(k, ns) PROVE IInv'
  <2> DEFINE q == [SetPlugin(ResetNav(Here), k) EXCEPT !.ns = ns]
  <2>1. q \in PaneType /\ q.stack = <<>> /\ q.floor = 0
    BY <1>0, EmptySeq DEF SetPlugin, ResetNav, PaneType, Rows
  <2>2. Grounded(Populated(q, live))
    BY <2>1, RootGrounded, PopulatedGrounded
  <2> QED BY <1>2, <2>2, UpdateKeeps DEF Goto
<1>3. ASSUME NEW k \in Kind, NEW object \in Ns, Drill(k, object) PROVE IInv'
  BY <1>0, <1>3, PushedGrounded, UpdateKeeps DEF Drill, Update
<1>4. CASE GotoContexts
  <2>1. Contexts \in Kind
    BY NavigationAssumption
  <2> QED BY <1>0, <1>4, <2>1, PushedGrounded, UpdateKeeps DEF GotoContexts, Update
<1>5. CASE Escape
  <2> DEFINE p == PopNav(Here)
  <2>1. Here.stack # <<>>
    <3>1. Len(Here.stack) > Here.floor /\ Here.floor \in {0, 1}
      BY <1>0, <1>5 DEF Escape, PaneType
    <3> QED BY <3>1, EmptySeq
  <2>2. Grounded(p)
    BY <1>0, <1>5, <2>1, PoppedGrounded DEF Escape
  <2>3. Grounded([p EXCEPT !.rows = Listed(p)])
    <3> HIDE DEF p
    <3>1. p \in PaneType /\ Listed(p) \in Rows
      BY <2>2 DEF Grounded, Listed, Rows
    <3>2. LET q == [p EXCEPT !.rows = Listed(p)] IN
          q \in PaneType /\ q.stack = p.stack /\ q.floor = p.floor /\ q.ctx = p.ctx /\ q.kind = p.kind
      BY <3>1 DEF PaneType
    <3> QED BY <2>2, <3>2, KeptGrounded
  <2>4. Update(p) \/ Update([p EXCEPT !.rows = Listed(p)])
    BY <1>5 DEF Escape
  <2>5. focus' = focus
    BY <1>5 DEF Escape
  <2> HIDE DEF p
  <2> QED BY <2>2, <2>3, <2>4, <2>5, UpdateKeeps DEF Update
<1>6. CASE Close
  <2>1. DOMAIN pane' = Open \ {focus} /\ focus' \in Open \ {focus}
        /\ \A p \in Open \ {focus} : pane'[p] = pane[p]
    BY <1>6 DEF Close
  <2> QED BY <2>1 DEF IInv, Open
<1>7. CASE ReloadAll
  <2>1. \A p \in Open : Grounded(Populated(AtRoot(pane[p]), live))
    BY AtRootGrounded, PopulatedGrounded DEF IInv
  <2> QED BY <1>7, <2>1, EachKeeps DEF ReloadAll, Open
<1>8. ASSUME NEW p \in Pane, Focus(p) PROVE IInv'
  BY <1>8 DEF Focus, IInv, Open
<1>9. ASSUME NEW q \in Pane, NEW k \in Kind, Split(q, k) PROVE IInv'
  BY <1>9, RootOf, OpenedKeeps DEF Split
<1>10. ASSUME NEW q \in Pane, NEW k \in Kind, NEW object \in Ns, SplitDrilled(q, k, object)
       PROVE  IInv'
  BY <1>10, SplitDrilledKeeps
<1>11. ASSUME NEW ns \in Ns \cup {All}, NamespaceSwitch(ns) PROVE IInv'
  <2> DEFINE q == [ResetNav(Here) EXCEPT !.ns = ns, !.rows = "none"]
  <2>1. q \in PaneType /\ q.stack = <<>> /\ q.floor = 0
    BY <1>0, EmptySeq DEF ResetNav, PaneType, Rows
  <2>2. Grounded(Populated(q, live))
    BY <2>1, RootGrounded, PopulatedGrounded
  <2> QED BY <1>11, <2>2, UpdateKeeps DEF NamespaceSwitch
<1>12. ASSUME NEW c \in Context, PaneSwitch(c) PROVE IInv'
  <2>1. Grounded(UnderContexts(Here)) /\ Grounded(Retargeted(UnderContexts(Here), c))
    BY <1>0, UnderContextsGrounded, RetargetedGrounded DEF Grounded
  <2> QED BY <1>12, <2>1, UpdateKeeps DEF PaneSwitch
<1>13. ASSUME NEW c \in Context, GroupSwitch(c) PROVE IInv'
  <2>1. \A p \in Open : Grounded(pane[p]) /\ Grounded(Retargeted(pane[p], c))
    BY RetargetedGrounded DEF IInv, Grounded
  <2> QED BY <1>13, <2>1, EachKeeps DEF GroupSwitch, Open
<1>14. ASSUME NEW c \in Context, ClusterReady(c) PROVE IInv'
  <2>1. \A p \in Open : Grounded(pane[p]) /\ Grounded(Readied(pane[p], c))
    BY ReadiedGrounded DEF IInv
  <2> QED BY <1>14, <2>1, EachKeeps DEF ClusterReady, Open
<1>15. ASSUME NEW c \in Context, DialFailed(c) PROVE IInv'
  BY <1>15 DEF DialFailed, IInv, Open
<1>16. ASSUME NEW k \in subs, ResourceUpdated(k) PROVE IInv'
  <2>1. \A p \in Open : Grounded(Repainted(pane[p], k))
    BY RepaintedGrounded DEF IInv
  <2> QED BY <1>16, <2>1, EachKeeps DEF ResourceUpdated, Open
<1> QED
  BY <1>1, <1>2, <1>3, <1>4, <1>5, <1>6, <1>7, <1>8, <1>9, <1>10, <1>11, <1>12, <1>13, <1>14,
     <1>15, <1>16
  DEF Next

\* Back never takes a pane to another cluster, and never below the drill its
\* split was opened with, whichever drills, splits, switches and late answers
\* came before (ResourceList.PopNav, App.handlePaneContextSwitch).
THEOREM BackAlwaysStaysHere == Spec => []BackStaysHere
<1>1. Init => IInv
  BY InitGrounded
<1>2. IInv /\ [Next]_vars => IInv'
  BY NextGrounded
<1>3. IInv => BackStaysHere
  <2> SUFFICES ASSUME IInv, NEW p \in Open
               PROVE  /\ \A f \in ToSet(pane[p].stack) : f.ctx = pane[p].ctx
                      /\ Len(pane[p].stack) >= pane[p].floor
    BY DEF BackStaysHere
  <2>1. Grounded(pane[p]) /\ pane[p].stack \in Seq(Frame)
    BY DEF IInv, Grounded, PaneType
  <2>2. DOMAIN pane[p].stack = 1..Len(pane[p].stack)
    BY <2>1, LenProperties
  <2> QED BY <2>1, <2>2 DEF Grounded, ToSet
<1> QED BY <1>1, <1>2, <1>3, PTL DEF Spec

-----------------------------------------------------------------------------
(* The informers of what panes show and would go back to.                  *)

Fed(f, S) == f.rows = "list" /\ f.kind \notin Synthetic => KeyOf(f) \in S
AllFed(p, S) == Fed(p, S) /\ \A i \in 1..Len(p.stack) : Fed(p.stack[i], S)

\* No informer runs on a cluster that is not connected, and every list has one.
FedInv ==
    /\ IInv
    /\ \A k \in subs : k.ctx \in live
    /\ \A p \in Open : AllFed(pane[p], subs)

LEMMA FedMore ==
  ASSUME NEW p, NEW S, NEW T, S \subseteq T, AllFed(p, S) PROVE AllFed(p, T)
BY DEF AllFed, Fed

\* Where a key goes that no level of a pane is of.
LEMMA FedUnused ==
  ASSUME NEW p, NEW S, AllFed(p, S), NEW c, NEW k, NEW ns, Grounded(p),
         p.ctx # c \/ ~Uses(p, k, ns)
  PROVE  AllFed(p, S \ {Key(c, k, ns)})
<1>1. ASSUME NEW f, Fed(f, S), f.ctx # c \/ ~(f.kind = k /\ EffectiveNs(f) = ns)
      PROVE  Fed(f, S \ {Key(c, k, ns)})
  BY <1>1 DEF Fed, KeyOf, Key
<1>2. p.stack \in Seq(Frame) /\ \A i \in 1..Len(p.stack) : p.stack[i].ctx = p.ctx
  BY DEF Grounded, PaneType
<1>3. \A i \in 1..Len(p.stack) : p.stack[i] \in ToSet(p.stack)
  BY <1>2, LenProperties DEF ToSet
<1> QED BY <1>1, <1>2, <1>3 DEF AllFed, Uses, Shows, HasGVR

\* Where the stores of other clusters go.
LEMMA FedOn ==
  ASSUME NEW p, NEW S, AllFed(p, S), Grounded(p), NEW C, (\E k \in S : k.ctx = p.ctx) => p.ctx \in C
  PROVE  AllFed(p, On(C, S))
<1>1. ASSUME NEW f, Fed(f, S), f.ctx = p.ctx PROVE Fed(f, On(C, S))
  <2>1. KeyOf(f).ctx = f.ctx
    BY DEF KeyOf, Key
  <2> QED BY <1>1, <2>1 DEF Fed, On
<1> QED BY <1>1 DEF AllFed, Grounded

LEMMA FreshFed ==
  ASSUME NEW k, NEW ns, NEW c, NEW S PROVE AllFed(Fresh(k, ns, c), S)
BY EmptySeq DEF AllFed, Fed, Fresh

\* A pane that shows no list, and has nothing to go back to.
LEMMA EmptyFed ==
  ASSUME NEW p, p.rows = "none", p.stack = <<>>, NEW S PROVE AllFed(p, S)
BY EmptySeq DEF AllFed, Fed

\* subscribeAndPopulate shows a list and asks for its informer.
LEMMA PopulatedFed ==
  ASSUME NEW p, Grounded(p), NEW S, NEW up, p.ctx \in up \/ Fed(p, S),
         \A i \in 1..Len(p.stack) : Fed(p.stack[i], S)
  PROVE  /\ AllFed(Populated(p, up), S \cup Wanted(p, up))
         /\ Wanted(Populated(p, up), up) = Wanted(p, up)
         /\ \A k \in Wanted(p, up) : k.ctx \in up
<1> DEFINE q == Populated(p, up)
<1>1. q.stack = p.stack /\ q.kind = p.kind /\ q.ctx = p.ctx
  BY PopulatedGrounded
<1>2. q.ns = p.ns
  BY DEF Populated, Grounded, PaneType
<1>3. KeyOf(q) = KeyOf(p) /\ KeyOf(p).ctx = p.ctx
  BY <1>1, <1>2 DEF KeyOf, Key, EffectiveNs
<1>4. Wanted(q, up) = Wanted(p, up)
  BY <1>1, <1>3 DEF Wanted
<1>5. \A k \in Wanted(p, up) : k.ctx \in up
  BY <1>3 DEF Wanted
<1>6. Fed(q, S \cup Wanted(p, up))
  <2>1. CASE p.kind \in Synthetic \/ p.ctx \in up
    BY <1>1, <1>3, <2>1 DEF Fed, Wanted
  <2>2. CASE ~(p.kind \in Synthetic \/ p.ctx \in up)
    BY <2>2 DEF Populated, Fed
  <2> QED BY <2>1, <2>2
<1>7. \A i \in 1..Len(q.stack) : Fed(q.stack[i], S \cup Wanted(p, up))
  BY <1>1 DEF Fed
<1> QED BY <1>4, <1>5, <1>6, <1>7 DEF AllFed

LEMMA PushedFed ==
  ASSUME NEW p, Grounded(p), NEW S, AllFed(p, S), NEW k \in Kind, NEW object \in Ns \cup {NoObject}
  PROVE  AllFed(Pushed(p, k, object), S)
<1> DEFINE f == [kind |-> p.kind, ns |-> p.ns, ctx |-> p.ctx, rows |-> p.rows, object |-> object]
           q == Pushed(p, k, object)
<1>1. p \in PaneType /\ f \in Frame
  BY DEF Grounded, PaneType, Frame
<1>2. q.rows = "part" /\ q.stack = Append(p.stack, f)
  BY <1>1 DEF Pushed, SetPlugin, PaneType
<1>3. /\ Len(q.stack) = Len(p.stack) + 1 /\ Len(p.stack) \in Nat
      /\ \A i \in 1..Len(p.stack) : q.stack[i] = p.stack[i]
      /\ q.stack[Len(p.stack) + 1] = f
  BY <1>1, <1>2, AppendProperties, LenProperties DEF PaneType
<1>4. Fed(f, S)
  BY DEF AllFed, Fed, KeyOf, EffectiveNs
<1>5. ASSUME NEW i \in 1..Len(q.stack) PROVE Fed(q.stack[i], S)
  <2>1. i \in 1..Len(p.stack) \/ i = Len(p.stack) + 1
    BY <1>3
  <2> QED BY <1>3, <1>4, <2>1 DEF AllFed
<1>6. Fed(q, S)
  BY <1>2 DEF Fed
<1> QED BY <1>5, <1>6 DEF AllFed

LEMMA PoppedFed ==
  ASSUME NEW p, Grounded(p), p.stack # <<>>, NEW S, AllFed(p, S)
  PROVE  AllFed(PopNav(p), S)
<1> DEFINE n == Len(p.stack)  f == p.stack[n]  q == PopNav(p)
<1>1. p \in PaneType /\ n \in Nat /\ n > 0
  BY LenProperties, EmptySeq DEF Grounded, PaneType
<1>2. q.kind = f.kind /\ q.ctx = f.ctx /\ q.ns = f.ns /\ q.rows = f.rows /\ q.stack = Front(p.stack)
  BY <1>1 DEF PopNav, Last, PaneType
<1>3. /\ Len(Front(p.stack)) = n - 1
      /\ \A i \in 1..(n - 1) : Front(p.stack)[i] = p.stack[i]
  <2>1. p.stack \in Seq(Frame) /\ \A i \in 1..(n - 1) : p.stack[i] \in Frame
    BY <1>1, ElementOfSeq DEF PaneType
  <2>2. /\ Len(SubSeq(p.stack, 1, n - 1)) = IF 1 <= n - 1 THEN (n - 1) - 1 + 1 ELSE 0
        /\ \A i \in 1..((n - 1) - 1 + 1) : SubSeq(p.stack, 1, n - 1)[i] = p.stack[1 + i - 1]
    BY <1>1, <2>1, SubSeqProperties
  <2> QED BY <1>1, <2>2 DEF Front
<1>4. Fed(f, S)
  BY <1>1 DEF AllFed
<1>5. Fed(q, S)
  BY <1>2, <1>4 DEF Fed, KeyOf, EffectiveNs
<1>6. \A i \in 1..Len(q.stack) : Fed(q.stack[i], S)
  <2> TAKE i \in 1..Len(q.stack)
  <2>1. i \in 1..(n - 1) /\ i \in 1..n
    BY <1>1, <1>2, <1>3
  <2>2. q.stack[i] = p.stack[i]
    BY <1>2, <1>3, <2>1
  <2> QED BY <2>1, <2>2 DEF AllFed
<1> QED BY <1>5, <1>6 DEF AllFed

\* A list that is switched, or starts over, shows nothing until it is filled.
LEMMA ResetFed ==
  ASSUME NEW p, Grounded(p), NEW S, NEW c
  PROVE  AllFed(Retargeted(p, c), S) /\ AllFed(AtRoot(p), S)
<1>1. p \in PaneType /\ (p.stack # <<>> => Head(p.stack) \in Frame)
  BY HeadTailProperties DEF Grounded, PaneType
<1>2. Retargeted(p, c).rows = "none" /\ Retargeted(p, c).stack = <<>>
  BY <1>1 DEF Retargeted, ResetNav, PaneType
<1>3. AtRoot(p).rows = "none" /\ AtRoot(p).stack = <<>>
  BY <1>1 DEF AtRoot, ResetNav, InDrillDown, PaneType
<1> QED BY <1>2, <1>3, EmptyFed

LEMMA UnderContextsFed ==
  ASSUME NEW p, Grounded(p), NEW S, AllFed(p, S) PROVE AllFed(UnderContexts(p), S)
<1>1. CASE p.kind = Contexts /\ InDrillDown(p)
  BY <1>1, PoppedFed DEF UnderContexts, InDrillDown
<1>2. CASE p.kind = Contexts /\ ~InDrillDown(p)
  <2>1. LET q == ResetNav(SetPlugin(p, Home)) IN q.rows = "none" /\ q.stack = <<>>
    BY DEF Grounded, ResetNav, SetPlugin, PaneType
  <2> QED BY <1>2, <2>1, EmptyFed DEF UnderContexts
<1>3. CASE p.kind # Contexts
  BY <1>3 DEF UnderContexts
<1> QED BY <1>1, <1>2, <1>3

\* A connected cluster fills its panes with the lists of its own namespace, and
\* leaves what they would go back to.
LEMMA ReadiedFed ==
  ASSUME NEW p, Grounded(p), NEW S, AllFed(p, S), p.ctx \in Context
  PROVE  /\ AllFed(Readied(p, p.ctx), S \cup Wanted(Readied(p, p.ctx), {p.ctx}))
         /\ \A k \in Wanted(Readied(p, p.ctx), {p.ctx}) : k.ctx = p.ctx
<1> DEFINE q == [p EXCEPT !.ns = DefaultNs[p.ctx]]
<1>1. p \in PaneType
  BY DEF Grounded
<1>2. q \in PaneType /\ q.stack = p.stack /\ q.floor = p.floor /\ q.ctx = p.ctx /\ q.kind = p.kind
  BY <1>1, NavigationAssumption DEF PaneType
<1>3. Grounded(q)
  BY <1>2, KeptGrounded
<1>4. q.ctx \in {p.ctx} /\ \A i \in 1..Len(q.stack) : Fed(q.stack[i], S)
  BY <1>2 DEF AllFed
<1>5. Readied(p, p.ctx) = Populated(q, {p.ctx})
  BY DEF Readied
<1> HIDE DEF q
<1>6. /\ AllFed(Populated(q, {p.ctx}), S \cup Wanted(q, {p.ctx}))
      /\ Wanted(Populated(q, {p.ctx}), {p.ctx}) = Wanted(q, {p.ctx})
      /\ \A k \in Wanted(q, {p.ctx}) : k.ctx \in {p.ctx}
  BY <1>3, <1>4, PopulatedFed
<1> QED BY <1>5, <1>6

\* An informer's news leave a list a list, and make one only of its own bucket.
LEMMA RepaintedFed ==
  ASSUME NEW p, Grounded(p), NEW S, AllFed(p, S), NEW k \in S PROVE AllFed(Repainted(p, k), S)
<1>1. p \in PaneType
  BY DEF Grounded
<1>2. ASSUME NEW r, r = "list" => KeyOf(p) \in S PROVE AllFed([p EXCEPT !.rows = r], S)
  <2>1. LET q == [p EXCEPT !.rows = r] IN
        q.stack = p.stack /\ q.ctx = p.ctx /\ q.kind = p.kind /\ q.ns = p.ns /\ q.rows = r
    BY <1>1 DEF PaneType
  <2> QED BY <1>2, <2>1 DEF AllFed, Fed, KeyOf, EffectiveNs
<1> QED BY <1>2 DEF Repainted

-----------------------------------------------------------------------------
\* Another pane in the place of the focused one, and its informers.
LEMMA UpdateFeeds ==
  ASSUME FedInv, NEW q, pane' = [pane EXCEPT ![focus] = q], subs \subseteq subs', AllFed(q, subs')
  PROVE  \A p \in DOMAIN pane' : AllFed(pane'[p], subs')
<1>1. \A p \in Open : AllFed(pane[p], subs')
  BY FedMore DEF FedInv
<1> QED BY <1>1 DEF FedInv, IInv, Open

LEMMA OpenedFeeds ==
  ASSUME FedInv, NEW r, NEW q, Opened(r, q), subs \subseteq subs', AllFed(q, subs')
  PROVE  \A p \in DOMAIN pane' : AllFed(pane'[p], subs')
<1>1. \A p \in Open : AllFed(pane[p], subs')
  BY FedMore DEF FedInv
<1> QED BY <1>1 DEF Opened, Open

\* goto and a change of namespace: the focused pane starts over, and what it
\* left is unsubscribed when no pane uses it.
LEMMA LeavingFeeds ==
  ASSUME FedInv, NEW q, Grounded(q), q.ctx = Here.ctx, AllFed(q, subs),
         pane' = [pane EXCEPT ![focus] = Populated(q, live)], UNCHANGED <<focus, live>>,
         NEW k, NEW ns, NEW left \in BOOLEAN, left => UnusedAnywhere(pane', Key(Here.ctx, k, ns)),
         subs' = (subs \cup Wanted(Populated(q, live), live))
                   \ (IF left THEN {Key(Here.ctx, k, ns)} ELSE {})
  PROVE  FedInv'
<1> DEFINE old == Key(Here.ctx, k, ns)  more == subs \cup Wanted(q, live)
<1>1. Grounded(Populated(q, live)) /\ AllFed(Populated(q, live), more)
      /\ Wanted(Populated(q, live), live) = Wanted(q, live)
      /\ \A key \in Wanted(q, live) : key.ctx \in live
  BY PopulatedGrounded, PopulatedFed DEF AllFed
<1>2. IInv'
  BY <1>1, UpdateKeeps DEF FedInv
<1>3. \A p \in Open : AllFed(pane[p], more)
  BY FedMore DEF FedInv
<1>4. \A p \in DOMAIN pane' : AllFed(pane'[p], more)
  BY <1>1, <1>3 DEF FedInv, IInv, Open
<1>5. \A p \in DOMAIN pane' : AllFed(pane'[p], subs')
  <2>1. CASE left
    <3>1. \A p \in DOMAIN pane' : ~Uses(pane'[p], k, ns)
      BY <2>1 DEF UnusedAnywhere, Key
    <3>2. subs' = more \ {old}
      BY <1>1, <2>1
    <3>3. \A p \in DOMAIN pane' : Grounded(pane'[p])
      BY <1>2 DEF IInv, Open
    <3> HIDE DEF more
    <3> QED BY <1>4, <3>1, <3>2, <3>3, FedUnused
  <2>2. CASE ~left
    BY <1>1, <1>4, <2>2
  <2> QED BY <2>1, <2>2
<1>6. \A key \in subs' : key.ctx \in live'
  BY <1>1 DEF FedInv
<1> QED BY <1>2, <1>5, <1>6 DEF FedInv, Open

\* What a drill asks for is of its cluster.
LEMMA DrillKeysOf ==
  ASSUME NEW c, NEW from, NEW k, NEW object PROVE \A key \in DrillKeys(c, from, k, object) : key.ctx = c
BY DEF DrillKeys, Key

\* Every step keeps every list fed.
LEMMA NextFed == ASSUME FedInv, [Next]_vars PROVE FedInv'
<1>0. /\ Here \in PaneType /\ Grounded(Here) /\ AllFed(Here, subs) /\ focus \in Open
      /\ Here.ctx \in Context /\ Here.kind \in Kind /\ Here.ns \in Ns \cup {All}
  BY DEF FedInv, IInv, Here, Grounded, PaneType
<1>00. IInv'
  BY NextGrounded DEF FedInv
<1>1. CASE UNCHANGED vars
  BY <1>1, <1>00 DEF vars, FedInv, Open
<1>2. ASSUME NEW k \in Kind, NEW ns \in Ns \cup {All}, Goto(k, ns) PROVE FedInv'
  <2> DEFINE q == [SetPlugin(ResetNav(Here), k) EXCEPT !.ns = ns]
             now == [pane EXCEPT ![focus] = Populated(q, live)]
             left == Here.ctx \in live /\ k # Here.kind /\ UnusedAnywhere(now, KeyOf(Here))
  <2>1. q \in PaneType /\ q.stack = <<>> /\ q.floor = 0 /\ q.rows = "none" /\ q.ctx = Here.ctx
    BY <1>0, EmptySeq DEF SetPlugin, ResetNav, PaneType, Rows
  <2>2. Grounded(q) /\ AllFed(q, subs)
    BY <2>1, RootGrounded, EmptyFed
  <2>3. /\ pane' = now /\ UNCHANGED <<focus, live>>
        /\ subs' = (subs \cup Wanted(Populated(q, live), live)) \ (IF left THEN {KeyOf(Here)} ELSE {})
    BY <1>2 DEF Goto
  <2> DEFINE old == Key(Here.ctx, Here.kind, EffectiveNs(Here))
  <2>4. KeyOf(Here) = old /\ left \in BOOLEAN /\ (left => UnusedAnywhere(pane', old))
    BY <2>3 DEF KeyOf
  <2>5. subs' = (subs \cup Wanted(Populated(q, live), live)) \ (IF left THEN {old} ELSE {})
    BY <2>3, <2>4
  <2> HIDE DEF q, left
  <2> QED BY <2>1, <2>2, <2>3, <2>4, <2>5, LeavingFeeds
<1>3. ASSUME NEW k \in Kind, NEW object \in Ns, Drill(k, object) PROVE FedInv'
  <2>1. AllFed(Pushed(Here, k, object), subs)
    BY <1>0, PushedFed
  <2>2. subs \subseteq subs' /\ pane' = [pane EXCEPT ![focus] = Pushed(Here, k, object)]
        /\ \A key \in subs' : key.ctx \in live'
    BY <1>3, DrillKeysOf DEF Drill, Update, FedInv
  <2>3. AllFed(Pushed(Here, k, object), subs')
    BY <2>1, <2>2, FedMore
  <2> QED BY <1>00, <2>2, <2>3, UpdateFeeds DEF FedInv, Open
<1>4. CASE GotoContexts
  <2>1. Contexts \in Kind
    BY NavigationAssumption
  <2>2. AllFed(Pushed(Here, Contexts, NoObject), subs)
    BY <1>0, <2>1, PushedFed
  <2>3. UNCHANGED <<subs, live>> /\ pane' = [pane EXCEPT ![focus] = Pushed(Here, Contexts, NoObject)]
    BY <1>4 DEF GotoContexts, Update
  <2> QED BY <1>00, <2>2, <2>3, UpdateFeeds DEF FedInv, Open
<1>5. CASE Escape
  <2> DEFINE p == PopNav(Here)
  <2>1. Here.stack # <<>>
    <3>1. Len(Here.stack) > Here.floor /\ Here.floor \in {0, 1}
      BY <1>0, <1>5 DEF Escape, PaneType
    <3> QED BY <3>1, EmptySeq
  <2>2. AllFed(p, subs)
    BY <1>0, <2>1, PoppedFed
  <2>3. p \in PaneType
    <3>1. Len(Here.stack) > Here.floor
      BY <1>5 DEF Escape
    <3> QED BY <1>0, <2>1, <3>1, PoppedGrounded DEF Grounded
  <2>4. AllFed([p EXCEPT !.rows = Listed(p)], subs)
    <3> HIDE DEF p
    <3>1. LET q == [p EXCEPT !.rows = Listed(p)] IN
          q.stack = p.stack /\ q.ctx = p.ctx /\ q.kind = p.kind /\ q.ns = p.ns /\ q.rows = Listed(p)
      BY <2>3 DEF PaneType
    <3>2. Listed(p) = "list" /\ p.kind \notin Synthetic => KeyOf(p) \in subs
      BY DEF Listed
    <3> QED BY <2>2, <3>1, <3>2 DEF AllFed, Fed, KeyOf, EffectiveNs
  <2>5. /\ subs \subseteq subs' /\ \A key \in subs' : key.ctx \in live'
        /\ Update(p) \/ Update([p EXCEPT !.rows = Listed(p)])
    <3>1. \A key \in RefreshKeys(p) : key.ctx = p.ctx
      BY DrillKeysOf DEF RefreshKeys
    <3> HIDE DEF p
    <3> QED BY <1>5, <3>1 DEF Escape, FedInv, p
  <2>6. AllFed(p, subs') /\ AllFed([p EXCEPT !.rows = Listed(p)], subs')
    <3> HIDE DEF p
    <3> QED BY <2>2, <2>4, <2>5, FedMore
  <2> HIDE DEF p
  <2> QED BY <1>00, <2>5, <2>6, UpdateFeeds DEF FedInv, Open, Update
<1>6. CASE Close
  <2> DEFINE now == [p \in Open \ {focus} |-> pane[p]]
             old == KeyOf(Here)
             stay == live \cap Referenced(now)
             left == subs \ (IF UnusedOn(now, old) THEN {old} ELSE {})
  <2>1. pane' = now /\ subs' = On(stay, left) /\ live' = stay
    BY <1>6 DEF Close
  <2>2. ASSUME NEW p \in Open \ {focus} PROVE AllFed(pane[p], On(stay, left))
    <3>1. Grounded(pane[p]) /\ AllFed(pane[p], subs)
      BY DEF FedInv, IInv
    <3>2. AllFed(pane[p], left)
      <4>1. CASE UnusedOn(now, old)
        <5>1. old = Key(Here.ctx, Here.kind, EffectiveNs(Here)) /\ old.ctx = Here.ctx
              /\ old.kind = Here.kind /\ old.ns = EffectiveNs(Here)
          BY DEF KeyOf, Key
        <5>2. pane[p].ctx # Here.ctx \/ ~Uses(pane[p], Here.kind, EffectiveNs(Here))
          BY <4>1, <5>1 DEF UnusedOn
        <5>3. left = subs \ {Key(Here.ctx, Here.kind, EffectiveNs(Here))}
          BY <4>1, <5>1
        <5> QED BY <3>1, <5>2, <5>3, FedUnused
      <4>2. CASE ~UnusedOn(now, old)
        BY <3>1, <4>2
      <4> QED BY <4>1, <4>2
    <3>3. (\E k \in left : k.ctx = pane[p].ctx) => pane[p].ctx \in stay
      BY DEF FedInv, Referenced
    <3> HIDE DEF left, stay
    <3> QED BY <3>1, <3>2, <3>3, FedOn
  <2>3. \A key \in subs' : key.ctx \in live'
    BY <2>1 DEF On
  <2>4. \A p \in DOMAIN pane' : AllFed(pane'[p], subs')
    BY <2>1, <2>2
  <2> QED BY <1>00, <2>3, <2>4 DEF FedInv, Open
<1>7. CASE ReloadAll
  <2>1. ASSUME NEW p \in Open
        PROVE  /\ AllFed(Populated(AtRoot(pane[p]), live), Wanted(AtRoot(pane[p]), live))
               /\ \A k \in Wanted(AtRoot(pane[p]), live) : k.ctx \in live
    <3>1. Grounded(pane[p])
      BY DEF FedInv, IInv
    <3>2. Grounded(AtRoot(pane[p])) /\ AllFed(AtRoot(pane[p]), {})
      BY <3>1, AtRootGrounded, ResetFed
    <3>3. /\ AllFed(Populated(AtRoot(pane[p]), live), {} \cup Wanted(AtRoot(pane[p]), live))
          /\ \A k \in Wanted(AtRoot(pane[p]), live) : k.ctx \in live
      BY <3>2, PopulatedFed DEF AllFed
    <3>4. {} \cup Wanted(AtRoot(pane[p]), live) = Wanted(AtRoot(pane[p]), live)
      OBVIOUS
    <3> QED BY <3>3, <3>4
  <2>2. /\ pane' = [p \in Open |-> Populated(AtRoot(pane[p]), live)] /\ live' = live
        /\ subs' = UNION {Wanted(AtRoot(pane[p]), live) : p \in Open}
    BY <1>7 DEF ReloadAll
  <2>3. ASSUME NEW p \in Open PROVE AllFed(pane'[p], subs')
    <3>1. Wanted(AtRoot(pane[p]), live) \subseteq subs'
      BY <2>2
    <3> QED BY <2>1, <2>2, <3>1, FedMore
  <2>4. \A key \in subs' : key.ctx \in live'
    BY <2>1, <2>2
  <2> QED BY <1>00, <2>2, <2>3, <2>4 DEF FedInv, Open
<1>8. ASSUME NEW p \in Pane, Focus(p) PROVE FedInv'
  BY <1>8, <1>00 DEF Focus, FedInv, Open
<1>9. ASSUME NEW q \in Pane, NEW k \in Kind, Split(q, k) PROVE FedInv'
  <2> DEFINE ns == IF Here.ns = All THEN DefaultNs[Here.ctx] ELSE Here.ns
             new == Fresh(k, ns, Here.ctx)
  <2>1. ns \in Ns \cup {All}
    BY <1>0, NavigationAssumption
  <2>2. Grounded(new) /\ AllFed(new, subs)
    BY <1>0, <2>1, FreshGrounded, FreshFed
  <2>3. /\ Opened(q, Populated(new, live)) /\ live' = live
        /\ subs' = subs \cup Wanted(Populated(new, live), live)
    BY <1>9 DEF Split
  <2> HIDE DEF new
  <2>4. AllFed(Populated(new, live), subs') /\ \A key \in Wanted(Populated(new, live), live) : key.ctx \in live
    BY <2>2, <2>3, PopulatedFed DEF AllFed
  <2> QED BY <1>00, <2>3, <2>4, OpenedFeeds DEF FedInv, Open
<1>10. ASSUME NEW q \in Pane, NEW k \in Kind, NEW object \in Ns, SplitDrilled(q, k, object)
       PROVE  FedInv'
  <2> DEFINE ns == IF Here.ns = All THEN DefaultNs[Here.ctx] ELSE Here.ns
             new == Fresh(Here.kind, ns, Here.ctx)
             root == Populated(new, live)
             up == Pushed(root, k, object)
  <2>1. ns \in Ns \cup {All}
    BY <1>0, NavigationAssumption
  <2>2. Grounded(new) /\ AllFed(new, subs)
    BY <1>0, <2>1, FreshGrounded, FreshFed
  <2>3. /\ Opened(q, [up EXCEPT !.floor = 1]) /\ live' = live /\ Here.ctx \in live
        /\ subs' = subs \cup Wanted(root, live) \cup DrillKeys(Here.ctx, Here.kind, k, object)
    BY <1>10 DEF SplitDrilled
  <2>4. Grounded(root) /\ AllFed(root, subs \cup Wanted(root, live))
        /\ \A key \in Wanted(root, live) : key.ctx \in live
    <3> HIDE DEF new
    <3> QED BY <2>2, PopulatedGrounded, PopulatedFed DEF AllFed
  <2>5. AllFed(root, subs')
    BY <2>3, <2>4, FedMore
  <2>6. Grounded(up) /\ AllFed(up, subs')
    <3> HIDE DEF root
    <3> QED BY <2>4, <2>5, PushedGrounded, PushedFed
  <2>7. AllFed([up EXCEPT !.floor = 1], subs')
    <3> HIDE DEF up
    <3>1. LET v == [up EXCEPT !.floor = 1] IN
          v.stack = up.stack /\ v.ctx = up.ctx /\ v.kind = up.kind /\ v.ns = up.ns /\ v.rows = up.rows
      BY <2>6 DEF Grounded, PaneType
    <3> QED BY <2>6, <3>1 DEF AllFed, Fed, KeyOf, EffectiveNs
  <2>8. \A key \in subs' : key.ctx \in live'
    <3> HIDE DEF root
    <3> QED BY <2>3, <2>4, DrillKeysOf DEF FedInv
  <2>9. subs \subseteq subs'
    BY <2>3
  <2> HIDE DEF up
  <2> QED BY <1>00, <2>3, <2>7, <2>8, <2>9, OpenedFeeds DEF FedInv, Open
<1>11. ASSUME NEW ns \in Ns \cup {All}, NamespaceSwitch(ns) PROVE FedInv'
  <2> DEFINE q == [ResetNav(Here) EXCEPT !.ns = ns, !.rows = "none"]
             now == [pane EXCEPT ![focus] = Populated(q, live)]
             old == Key(Here.ctx, Here.kind, Here.ns)
             left == Here.ctx \in live /\ UnusedAnywhere(now, old)
  <2>1. q \in PaneType /\ q.stack = <<>> /\ q.floor = 0 /\ q.rows = "none" /\ q.ctx = Here.ctx
    BY <1>0, EmptySeq DEF ResetNav, PaneType, Rows
  <2>2. Grounded(q) /\ AllFed(q, subs)
    BY <2>1, RootGrounded, EmptyFed
  <2>3. /\ pane' = now /\ UNCHANGED <<focus, live>>
        /\ subs' = (subs \cup Wanted(Populated(q, live), live)) \ (IF left THEN {old} ELSE {})
    BY <1>11 DEF NamespaceSwitch
  <2>4. left \in BOOLEAN /\ (left => UnusedAnywhere(pane', old))
    BY <2>3
  <2> HIDE DEF q, now, left
  <2> QED BY <2>1, <2>2, <2>3, <2>4, LeavingFeeds DEF now
<1>12. ASSUME NEW c \in Context, PaneSwitch(c) PROVE FedInv'
  <2> DEFINE under == UnderContexts(Here)
             q == IF under.ctx = c /\ c \in live THEN under ELSE Retargeted(under, c)
             now == [pane EXCEPT ![focus] = q]
             stay == live \cap Referenced(now)
  <2>1. pane' = now /\ live' = stay /\ subs' = On(stay, subs) /\ Open = DOMAIN now
    BY <1>12 DEF PaneSwitch, Open
  <2>2. Grounded(under) /\ AllFed(under, subs)
    BY <1>0, UnderContextsGrounded, UnderContextsFed
  <2>3. Grounded(q) /\ AllFed(q, subs)
    <3> HIDE DEF under
    <3>1. under \in PaneType
      BY <2>2 DEF Grounded
    <3> QED BY <2>2, <3>1, RetargetedGrounded, ResetFed DEF q
  <2>4. \A p \in Open : Grounded(now[p]) /\ AllFed(now[p], subs)
    <3> HIDE DEF q
    <3> QED BY <2>3 DEF FedInv, IInv, Open
  <2>5. \A p \in Open : (\E k \in subs : k.ctx = now[p].ctx) => now[p].ctx \in stay
    <3> HIDE DEF now
    <3> QED BY <2>1 DEF FedInv, Referenced
  <2>6. \A p \in DOMAIN pane' : AllFed(pane'[p], subs')
    <3> HIDE DEF now, stay
    <3> QED BY <2>1, <2>4, <2>5, FedOn
  <2>7. \A key \in subs' : key.ctx \in live'
    BY <2>1 DEF On
  <2> QED BY <1>00, <2>6, <2>7 DEF FedInv, Open
<1>13. ASSUME NEW c \in Context, GroupSwitch(c) PROVE FedInv'
  <2> DEFINE group == {p \in Open : pane[p].ctx = Here.ctx}
             now == [p \in Open |-> IF p \in group /\ c # Here.ctx THEN Retargeted(pane[p], c) ELSE pane[p]]
             stay == live \cap Referenced(now)
             old == {KeyOf(pane[p]) : p \in group}
             gone == {k \in old : UnusedOn(now, k)}
  <2>1. pane' = now /\ live' = stay /\ subs' = On(stay, subs \ gone)
    BY <1>13 DEF GroupSwitch
  <2>2. ASSUME NEW p \in Open PROVE Grounded(now[p]) /\ AllFed(now[p], subs)
    <3>1. Grounded(pane[p]) /\ AllFed(pane[p], subs) /\ pane[p] \in PaneType
      BY DEF FedInv, IInv, Grounded
    <3> QED BY <3>1, RetargetedGrounded, ResetFed
  <2>3. ASSUME NEW p \in Open PROVE AllFed(now[p], subs \ gone)
    <3>1. ASSUME NEW f, Fed(f, subs), f.ctx = now[p].ctx, Uses(now[p], f.kind, EffectiveNs(f))
          PROVE  Fed(f, subs \ gone)
      <4>1. KeyOf(f).ctx = now[p].ctx /\ KeyOf(f).kind = f.kind /\ KeyOf(f).ns = EffectiveNs(f)
        BY <3>1 DEF KeyOf, Key
      <4>2. KeyOf(f) \notin gone
        BY <3>1, <4>1 DEF UnusedOn
      <4> QED BY <3>1, <4>2 DEF Fed
    <3>2. now[p].stack \in Seq(Frame) /\ \A i \in 1..Len(now[p].stack) : now[p].stack[i].ctx = now[p].ctx
      BY <2>2 DEF Grounded, PaneType
    <3>3. \A i \in 1..Len(now[p].stack) : now[p].stack[i] \in ToSet(now[p].stack)
      BY <3>2, LenProperties DEF ToSet
    <3> HIDE DEF now, gone
    <3>4. Fed(now[p], subs \ gone)
      BY <2>2, <3>1 DEF AllFed, Uses, Shows
    <3>5. \A i \in 1..Len(now[p].stack) : Fed(now[p].stack[i], subs \ gone)
      <4> TAKE i \in 1..Len(now[p].stack)
      <4>1. Fed(now[p].stack[i], subs)
        BY <2>2 DEF AllFed
      <4>2. Uses(now[p], now[p].stack[i].kind, EffectiveNs(now[p].stack[i]))
        BY <3>3 DEF Uses, HasGVR
      <4> QED BY <3>1, <3>2, <4>1, <4>2
    <3> QED BY <3>4, <3>5 DEF AllFed
  <2>4. \A p \in Open : (\E k \in subs \ gone : k.ctx = now[p].ctx) => now[p].ctx \in stay
    <3>1. DOMAIN now = Open
      OBVIOUS
    <3> HIDE DEF now, gone
    <3> QED BY <3>1 DEF FedInv, Referenced
  <2>5. \A p \in Open : AllFed(now[p], On(stay, subs \ gone))
    <3> HIDE DEF now, stay, gone
    <3> QED BY <2>2, <2>3, <2>4, FedOn
  <2>6. \A p \in DOMAIN pane' : AllFed(pane'[p], subs')
    BY <2>1, <2>5
  <2>7. \A key \in subs' : key.ctx \in live'
    BY <2>1 DEF On
  <2> QED BY <1>00, <2>6, <2>7 DEF FedInv, Open
<1>14. ASSUME NEW c \in Context, ClusterReady(c) PROVE FedInv'
  <2> DEFINE mine == {p \in Open : pane[p].ctx = c}
  <2>1. /\ pane' = [p \in Open |-> IF p \in mine THEN Readied(pane[p], c) ELSE pane[p]]
        /\ live' = IF mine = {} THEN live ELSE live \cup {c}
        /\ subs' = subs \cup UNION {Wanted(Readied(pane[p], c), {c}) : p \in mine}
    BY <1>14 DEF ClusterReady
  <2>2. ASSUME NEW p \in mine
        PROVE  /\ AllFed(Readied(pane[p], c), subs \cup Wanted(Readied(pane[p], c), {c}))
               /\ \A k \in Wanted(Readied(pane[p], c), {c}) : k.ctx = c
    BY ReadiedFed DEF FedInv, IInv
  <2>3. ASSUME NEW p \in Open PROVE AllFed(pane'[p], subs')
    <3>1. CASE p \in mine
      <4>1. subs \cup Wanted(Readied(pane[p], c), {c}) \subseteq subs'
        BY <2>1, <3>1
      <4> QED BY <2>1, <2>2, <3>1, <4>1, FedMore
    <3>2. CASE p \notin mine
      BY <2>1, <3>2, FedMore DEF FedInv
    <3> QED BY <3>1, <3>2
  <2>4. \A key \in subs' : key.ctx \in live'
    BY <2>1, <2>2 DEF FedInv
  <2> QED BY <1>00, <2>1, <2>3, <2>4 DEF FedInv, Open
<1>15. ASSUME NEW c \in Context, DialFailed(c) PROVE FedInv'
  BY <1>15, <1>00 DEF DialFailed, FedInv, Open
<1>16. ASSUME NEW k \in subs, ResourceUpdated(k) PROVE FedInv'
  <2>1. \A p \in Open : AllFed(Repainted(pane[p], k), subs)
    BY RepaintedFed DEF FedInv, IInv
  <2>2. /\ pane' = [p \in Open |-> Repainted(pane[p], k)] /\ live' = live /\ subs \subseteq subs'
        /\ \A key \in subs' \ subs : \E p \in Open : key \in RefreshKeys(pane[p]) /\ pane[p].ctx \in live
    BY <1>16 DEF ResourceUpdated
  <2>3. \A p \in Open : \A key \in RefreshKeys(pane[p]) : key.ctx = pane[p].ctx
    BY DrillKeysOf DEF RefreshKeys
  <2>4. \A p \in Open : AllFed(pane'[p], subs')
    BY <2>1, <2>2, FedMore
  <2>5. \A key \in subs' : key.ctx \in live'
    BY <2>2, <2>3 DEF FedInv
  <2> QED BY <1>00, <2>2, <2>4, <2>5 DEF FedInv, Open
<1> QED
  BY <1>1, <1>2, <1>3, <1>4, <1>5, <1>6, <1>7, <1>8, <1>9, <1>10, <1>11, <1>12, <1>13, <1>14,
     <1>15, <1>16
  DEF Next

LEMMA InitFed == ASSUME Init PROVE FedInv
<1>1. PICK p \in Pane, k \in Kind \ Synthetic, ns \in Ns \cup {All}, c \in Context :
         /\ pane = [q \in {p} |-> Populated(Fresh(k, ns, c), {c})]
         /\ focus = p /\ subs = Wanted(Fresh(k, ns, c), {c})
         /\ live = {c} /\ dials = {}
  BY DEF Init
<1> DEFINE new == Fresh(k, ns, c)
<1>2. Grounded(new) /\ AllFed(new, {})
  BY FreshGrounded, FreshFed
<1>3. AllFed(Populated(new, {c}), {} \cup Wanted(new, {c})) /\ \A key \in Wanted(new, {c}) : key.ctx \in {c}
  <2> HIDE DEF new
  <2> QED BY <1>2, PopulatedFed DEF AllFed
<1>4. {} \cup Wanted(new, {c}) = Wanted(new, {c})
  OBVIOUS
<1>5. IInv
  BY InitGrounded
<1> QED BY <1>1, <1>3, <1>4, <1>5 DEF FedInv, Open

\* The list a pane shows, and every list back would bring it to, has its
\* informer, although the panes subscribe and unsubscribe the same buckets and
\* drill, split, close and switch in any order (App.unsubscribeIfUnused,
\* unsubscribeOnStoreIfUnused and Manager.SyncRefs).
THEOREM LevelsStayFed == Spec => []LevelsAreFed
<1>1. Init => FedInv
  BY InitFed
<1>2. FedInv /\ [Next]_vars => FedInv'
  BY NextFed
<1>3. FedInv => LevelsAreFed
  <2> SUFFICES ASSUME FedInv, NEW p \in Open, NEW f \in Levels(pane[p])
               PROVE  f.rows = "list" /\ f.kind \notin Synthetic => KeyOf(f) \in subs
    BY DEF LevelsAreFed
  <2>1. AllFed(pane[p], subs) /\ pane[p].stack \in Seq(Frame)
    BY DEF FedInv, IInv, Grounded, PaneType
  <2>2. DOMAIN pane[p].stack = 1..Len(pane[p].stack)
    BY <2>1, LenProperties
  <2>3. CASE f \in ToSet(pane[p].stack)
    BY <2>1, <2>2, <2>3 DEF ToSet, AllFed, Fed
  <2>4. CASE f = [g \in {"kind", "ns", "ctx", "rows"} |-> pane[p][g]]
    <3>1. f.kind = pane[p].kind /\ f.ns = pane[p].ns /\ f.ctx = pane[p].ctx /\ f.rows = pane[p].rows
      BY <2>4
    <3> QED BY <2>1, <3>1 DEF AllFed, Fed, KeyOf, EffectiveNs
  <2> QED BY <2>3, <2>4 DEF Levels
<1> QED BY <1>1, <1>2, <1>3, PTL DEF Spec

-----------------------------------------------------------------------------
(* The informers of what panes leave.                                      *)

NoneSynthetic == \A k \in subs : k.kind \notin Synthetic

LEMMA WantedKinds ==
  ASSUME NEW p, NEW up PROVE \A k \in Wanted(p, up) : k.kind \notin Synthetic
BY DEF Wanted, KeyOf, Key

LEMMA DrillKinds ==
  ASSUME NEW c, NEW from, NEW k, NEW object
  PROVE  \A key \in DrillKeys(c, from, k, object) : key.kind \notin Synthetic
BY DEF DrillKeys, Key

LEMMA RefreshKinds ==
  ASSUME NEW p PROVE \A key \in RefreshKeys(p) : key.kind \notin Synthetic
BY DrillKinds DEF RefreshKeys

\* No informer is asked for what none serves.
LEMMA NextKinds == ASSUME NoneSynthetic, [Next]_vars PROVE NoneSynthetic'
<1> USE DEF NoneSynthetic
<1>1. CASE UNCHANGED vars
  BY <1>1 DEF vars
<1>2. ASSUME NEW k, NEW ns, Goto(k, ns) PROVE NoneSynthetic'
  BY <1>2, WantedKinds DEF Goto
<1>3. ASSUME NEW k, NEW object, Drill(k, object) PROVE NoneSynthetic'
  BY <1>3, DrillKinds DEF Drill
<1>4. CASE GotoContexts \/ \E p \in Pane : Focus(p)
  BY <1>4 DEF GotoContexts, Focus
<1>5. CASE Escape
  BY <1>5, RefreshKinds DEF Escape
<1>6. CASE Close
  BY <1>6 DEF Close, On
<1>7. CASE ReloadAll
  BY <1>7, WantedKinds DEF ReloadAll
<1>8. ASSUME NEW q, NEW k, Split(q, k) PROVE NoneSynthetic'
  BY <1>8, WantedKinds DEF Split
<1>9. ASSUME NEW q, NEW k, NEW object, SplitDrilled(q, k, object) PROVE NoneSynthetic'
  BY <1>9, WantedKinds, DrillKinds DEF SplitDrilled
<1>10. ASSUME NEW ns, NamespaceSwitch(ns) PROVE NoneSynthetic'
  BY <1>10, WantedKinds DEF NamespaceSwitch
<1>11. ASSUME NEW c, PaneSwitch(c) \/ GroupSwitch(c) PROVE NoneSynthetic'
  BY <1>11 DEF PaneSwitch, GroupSwitch, On
<1>12. ASSUME NEW c, ClusterReady(c) PROVE NoneSynthetic'
  BY <1>12, WantedKinds DEF ClusterReady
<1>13. ASSUME NEW c, DialFailed(c) PROVE NoneSynthetic'
  BY <1>13 DEF DialFailed
<1>14. ASSUME NEW k, ResourceUpdated(k) PROVE NoneSynthetic'
  BY <1>14, RefreshKinds DEF ResourceUpdated
<1> QED
  BY <1>1, <1>2, <1>3, <1>4, <1>5, <1>6, <1>7, <1>8, <1>9, <1>10, <1>11, <1>12, <1>13, <1>14
  DEF Next

\* A pane that still shows its list leaves nothing.
LEMMA StillShown ==
  ASSUME NEW p \in DOMAIN pane', pane'[p].kind = pane[p].kind, pane'[p].ns = pane[p].ns
  PROVE  Released(p)
BY DEF Released, Uses, Shows, KeyOf, Key, EffectiveNs

\* Neither does one that drilled from it.
LEMMA StillBelow ==
  ASSUME FedInv, focus \in DOMAIN pane', NEW k \in Kind, NEW object \in Ns \cup {NoObject},
         pane'[focus] = Pushed(Here, k, object)
  PROVE  Released(focus)
<1> DEFINE f == [kind |-> Here.kind, ns |-> Here.ns, ctx |-> Here.ctx, rows |-> Here.rows, object |-> object]
           s == pane'[focus].stack
<1>1. Here \in PaneType /\ f \in Frame
  BY DEF FedInv, IInv, Here, Grounded, PaneType, Frame
<1>2. s = Append(Here.stack, f)
  BY <1>1 DEF Pushed, SetPlugin, PaneType
<1>3. s \in Seq(Frame) /\ Len(s) = Len(Here.stack) + 1 /\ s[Len(s)] = f /\ Len(Here.stack) \in Nat
  BY <1>1, <1>2, AppendProperties, LenProperties DEF PaneType
<1>4. f \in ToSet(s)
  BY <1>3, LenProperties DEF ToSet
<1>5. f.kind = Here.kind /\ f.ns = Here.ns
  OBVIOUS
<1> HIDE DEF f
<1> QED BY <1>4, <1>5 DEF Released, Uses, HasGVR, Here, KeyOf, Key, EffectiveNs

LEMMA PopulatedShows ==
  ASSUME NEW p \in PaneType, NEW up
  PROVE  Populated(p, up).kind = p.kind /\ Populated(p, up).ns = p.ns /\ Populated(p, up).ctx = p.ctx
BY DEF Populated, PaneType

\* Every step releases what the panes leave.
LEMMA NextReleases ==
  ASSUME FedInv, NoneSynthetic, [Next]_vars, \A c \in Context : ~ClusterReady(c), NEW p \in Open
  PROVE  Released(p)
<1>0. /\ Here \in PaneType /\ focus \in Open /\ pane[p] \in PaneType /\ Here = pane[focus]
      /\ Here.stack \in Seq(Frame)
  BY DEF FedInv, IInv, Here, Grounded, PaneType
<1>1. CASE UNCHANGED vars
  BY <1>1, StillShown DEF vars, Open
<1>2. ASSUME NEW q, p # focus, p \in DOMAIN pane', pane' = [pane EXCEPT ![focus] = q] PROVE Released(p)
  BY <1>2, StillShown
<1>3. ASSUME NEW k \in Kind, NEW ns \in Ns \cup {All}, Goto(k, ns) PROVE Released(p)
  <2> DEFINE r == [SetPlugin(ResetNav(Here), k) EXCEPT !.ns = ns]
             now == [pane EXCEPT ![focus] = Populated(r, live)]
             left == Here.ctx \in live /\ k # Here.kind /\ UnusedAnywhere(now, KeyOf(Here))
  <2>1. r \in PaneType /\ r.kind = k /\ r.ns = ns /\ r.ctx = Here.ctx
    BY <1>0, EmptySeq DEF SetPlugin, ResetNav, PaneType, Rows
  <2>2. /\ pane' = now /\ (k = Here.kind => ns = Here.ns)
        /\ subs' = (subs \cup Wanted(Populated(r, live), live)) \ (IF left THEN {KeyOf(Here)} ELSE {})
    BY <1>3 DEF Goto
  <2>3. Populated(r, live).kind = k /\ Populated(r, live).ns = ns /\ Populated(r, live).ctx = Here.ctx
    BY <2>1, PopulatedShows
  <2> HIDE DEF r
  <2>4. CASE p # focus
    BY <1>2, <2>2, <2>4 DEF Open
  <2>5. CASE p = focus /\ k = Here.kind
    <3>1. focus \in DOMAIN pane' /\ pane'[focus] = Populated(r, live)
      BY <1>0, <2>2 DEF Open
    <3> HIDE DEF now
    <3> QED BY <1>0, <2>2, <2>3, <2>5, <3>1, StillShown
  <2>6. CASE p = focus /\ k # Here.kind /\ Here.ctx \notin live
    <3>1. KeyOf(Here).ctx = Here.ctx
      BY DEF KeyOf, Key
    <3>2. Wanted(Populated(r, live), live) = {}
      BY <2>3, <2>6 DEF Wanted
    <3> QED BY <1>0, <2>2, <2>6, <3>1, <3>2 DEF Released, FedInv
  <2>7. CASE p = focus /\ k # Here.kind /\ Here.ctx \in live
    <3> SUFFICES ASSUME \A q \in DOMAIN pane' : ~Uses(pane'[q], KeyOf(Here).kind, KeyOf(Here).ns)
                 PROVE  KeyOf(Here) \notin subs'
      BY <1>0, <2>7 DEF Released
    <3>1. UnusedAnywhere(now, KeyOf(Here))
      BY <2>2 DEF UnusedAnywhere
    <3> QED BY <2>2, <2>7, <3>1
  <2> QED BY <2>4, <2>5, <2>6, <2>7
<1>4. ASSUME NEW k \in Kind, NEW object \in Ns, Drill(k, object) PROVE Released(p)
  <2>1. pane' = [pane EXCEPT ![focus] = Pushed(Here, k, object)]
    BY <1>4 DEF Drill, Update
  <2> QED BY <1>0, <1>2, <2>1, StillBelow DEF Open
<1>5. CASE GotoContexts
  <2>1. pane' = [pane EXCEPT ![focus] = Pushed(Here, Contexts, NoObject)] /\ Contexts \in Kind
    BY <1>5, NavigationAssumption DEF GotoContexts, Update
  <2> QED BY <1>0, <1>2, <2>1, StillBelow DEF Open
<1>6. CASE Escape
  <2>1. \E q : pane' = [pane EXCEPT ![focus] = q]
    BY <1>6 DEF Escape, Update
  <2>2. Len(Here.stack) > Here.floor /\ Here.floor \in {0, 1}
    BY <1>0, <1>6 DEF Escape, PaneType
  <2>3. InDrillDown(Here)
    BY <2>2, EmptySeq DEF InDrillDown
  <2> QED BY <1>0, <1>2, <2>1, <2>3 DEF Open, Released
<1>7. CASE Close
  <2> DEFINE now == [q \in Open \ {focus} |-> pane[q]]
  <2>1. /\ pane' = now
        /\ UnusedOn(now, KeyOf(Here)) => KeyOf(Here) \notin subs'
    BY <1>7 DEF Close, On
  <2>2. CASE p # focus
    BY <2>1, <2>2, StillShown
  <2>3. CASE p = focus
    <3>1. (\A q \in DOMAIN now : ~Uses(now[q], KeyOf(Here).kind, KeyOf(Here).ns))
             => UnusedOn(now, KeyOf(Here))
      BY DEF UnusedOn
    <3> QED BY <1>0, <2>1, <2>3, <3>1 DEF Released
  <2> QED BY <2>2, <2>3
<1>8. CASE ReloadAll
  <2>1. CASE InDrillDown(pane[p])
    BY <2>1 DEF Released
  <2>2. CASE ~InDrillDown(pane[p])
    <3>1. AtRoot(pane[p]).kind = pane[p].kind /\ AtRoot(pane[p]).ns = pane[p].ns
      BY <1>0, <2>2 DEF AtRoot, ResetNav, PaneType
    <3>2. AtRoot(pane[p]) \in PaneType
      BY AtRootGrounded DEF FedInv, IInv, Grounded
    <3>3. pane'[p] = Populated(AtRoot(pane[p]), live) /\ p \in DOMAIN pane'
      BY <1>8 DEF ReloadAll
    <3> QED BY <3>1, <3>2, <3>3, PopulatedShows, StillShown
  <2> QED BY <2>1, <2>2
<1>9. CASE \E q \in Pane : Focus(q)
  BY <1>9, StillShown DEF Focus, Open
<1>10. ASSUME NEW q, NEW v, q \notin Open, Opened(q, v) PROVE Released(p)
  BY <1>10, StillShown DEF Opened
<1>11. ASSUME NEW q \in Pane, NEW k \in Kind,
              Split(q, k) \/ \E object \in Ns : SplitDrilled(q, k, object)
       PROVE  Released(p)
  BY <1>10, <1>11 DEF Split, SplitDrilled
<1>12. ASSUME NEW ns \in Ns \cup {All}, NamespaceSwitch(ns) PROVE Released(p)
  <2> DEFINE r == [ResetNav(Here) EXCEPT !.ns = ns, !.rows = "none"]
             now == [pane EXCEPT ![focus] = Populated(r, live)]
             old == Key(Here.ctx, Here.kind, Here.ns)
             left == Here.ctx \in live /\ UnusedAnywhere(now, old)
  <2>1. r \in PaneType /\ r.ctx = Here.ctx
    BY <1>0, EmptySeq DEF ResetNav, PaneType, Rows
  <2>2. /\ pane' = now /\ Here.kind \notin ClusterScoped
        /\ subs' = (subs \cup Wanted(Populated(r, live), live)) \ (IF left THEN {old} ELSE {})
    BY <1>12 DEF NamespaceSwitch
  <2>3. Populated(r, live).ctx = Here.ctx
    BY <2>1, PopulatedShows
  <2>4. KeyOf(Here) = old
    BY <2>2 DEF KeyOf, EffectiveNs
  <2> HIDE DEF r
  <2>5. CASE p # focus
    BY <1>2, <2>2, <2>5 DEF Open
  <2>6. CASE p = focus /\ Here.ctx \notin live
    <3>1. old.ctx = Here.ctx
      BY DEF Key
    <3>2. Wanted(Populated(r, live), live) = {}
      BY <2>3, <2>6 DEF Wanted
    <3> QED BY <1>0, <2>2, <2>4, <2>6, <3>1, <3>2 DEF Released, FedInv
  <2>7. CASE p = focus /\ Here.ctx \in live
    <3> SUFFICES ASSUME \A q \in DOMAIN pane' : ~Uses(pane'[q], old.kind, old.ns)
                 PROVE  old \notin subs'
      BY <1>0, <2>4, <2>7 DEF Released
    <3>1. UnusedAnywhere(now, old)
      BY <2>2 DEF UnusedAnywhere
    <3> QED BY <2>2, <2>7, <3>1
  <2> QED BY <2>5, <2>6, <2>7
<1>13. ASSUME NEW c \in Context, PaneSwitch(c) PROVE Released(p)
  <2> DEFINE under == UnderContexts(Here)
             r == IF under.ctx = c /\ c \in live THEN under ELSE Retargeted(under, c)
  <2>1. pane' = [pane EXCEPT ![focus] = r] /\ subs' \subseteq subs
    BY <1>13 DEF PaneSwitch, On
  <2>2. CASE p # focus
    <3> HIDE DEF r
    <3> QED BY <1>2, <2>1, <2>2 DEF Open
  <2>3. CASE p = focus /\ Here.kind = Contexts
    <3>1. KeyOf(Here).kind \in Synthetic
      BY <2>3, NavigationAssumption DEF KeyOf, Key
    <3> QED BY <1>0, <2>1, <2>3, <3>1 DEF Released, NoneSynthetic
  <2>4. CASE p = focus /\ Here.kind # Contexts
    <3>1. under = Here
      BY <2>4 DEF UnderContexts
    <3>2. r.kind = Here.kind /\ r.ns = Here.ns
      BY <1>0, <3>1 DEF Retargeted, ResetNav, PaneType
    <3> HIDE DEF r
    <3> QED BY <1>0, <2>1, <2>4, <3>2, StillShown DEF Open
  <2> QED BY <2>2, <2>3, <2>4
<1>14. ASSUME NEW c \in Context, GroupSwitch(c) PROVE Released(p)
  <2>1. p \in DOMAIN pane' /\ pane'[p] \in {pane[p], Retargeted(pane[p], c)}
    BY <1>14 DEF GroupSwitch
  <2>2. Retargeted(pane[p], c).kind = pane[p].kind /\ Retargeted(pane[p], c).ns = pane[p].ns
    BY <1>0 DEF Retargeted, ResetNav, PaneType
  <2> QED BY <2>1, <2>2, StillShown
<1>15. ASSUME NEW c \in Context, DialFailed(c) PROVE Released(p)
  BY <1>15, StillShown DEF DialFailed, Open
<1>16. ASSUME NEW k \in subs, ResourceUpdated(k) PROVE Released(p)
  <2>1. p \in DOMAIN pane' /\ pane'[p] = Repainted(pane[p], k)
    BY <1>16 DEF ResourceUpdated
  <2>2. Repainted(pane[p], k).kind = pane[p].kind /\ Repainted(pane[p], k).ns = pane[p].ns
    BY <1>0 DEF Repainted, PaneType
  <2> QED BY <2>1, <2>2, StillShown
<1> QED
  BY <1>1, <1>3, <1>4, <1>5, <1>6, <1>7, <1>8, <1>9, <1>11, <1>12, <1>13, <1>14, <1>15, <1>16
  DEF Next

\* A list that a pane leaves from its root loses its informer with the last pane
\* that shows it or came from it, except where a dial that comes back gives the
\* pane another namespace (App.unsubscribeIfUnused, handleNamespaceSwitch,
\* closeFocusedSplit).
THEOREM LeftStaysReleased == Spec => LeftIsReleased
<1>1. Init => FedInv /\ NoneSynthetic
  BY InitFed, WantedKinds DEF Init, NoneSynthetic
<1>2. FedInv /\ NoneSynthetic /\ [Next]_vars => (FedInv /\ NoneSynthetic)'
  BY NextFed, NextKinds
<1>3. FedInv /\ NoneSynthetic /\ [Next]_vars =>
        [(\A c \in Context : ~ClusterReady(c)) => \A p \in Open : Released(p)]_vars
  BY NextReleases
<1> QED BY <1>1, <1>2, <1>3, PTL DEF Spec, LeftIsReleased
=============================================================================
