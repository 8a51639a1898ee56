---------------------------- MODULE Panes_proofs ----------------------------
(***************************************************************************)
(* Proofs about the parts of the screen, for any panes, windows, dialogs,  *)
(* kinds of resources and clusters, and any number of answers on their     *)
(* way.                                                                    *)
(*                                                                         *)
(* The text.  Its functions are loops over a line or a text, and what one  *)
(* computes is shown a step at a time (Induct, Recursion).  A match has a  *)
(* segment on each line it touches, over exactly its columns               *)
(* (SegmentCovers, PositionsCover), so that what is painted is what is     *)
(* matched.  The rows of a wrapped text are in order (Mapped), so that the *)
(* row ToVisual finds is the last that begins at or before a match and is  *)
(* the one that draws it (DrawnSomewhere, ToVisualIs), and as long as what *)
(* it draws (LongestRow): clamped offsets still show it.                   *)
(*                                                                         *)
(* The layout.  Every method takes a layout that is drawn right (Drawn) to *)
(* one that is drawn right: recalcSizes makes the rectangles and sizes     *)
(* those of the layout whatever they were (RecalcDraws), reconcileFocus    *)
(* makes the looks those of the focus whatever they were (ReconcileDraws), *)
(* and each method is shown to leave to them no more than they mend.  What *)
(* a command then is takes a line for each method it calls.                *)
(*                                                                         *)
(* The dialogs.  While nobody changes the pane under a question, there is  *)
(* one question, open or with its answer on the way, and what is pending   *)
(* is what it asks for (Undisturbed).                                      *)
(*                                                                         *)
(* The table.  Whatever scrolls shows the cursor (EnsureShows,             *)
(* ScrollShows), the window being where the cursor is; whatever paints     *)
(* leaves the window painted, whatever was painted before (Repainted); and *)
(* a refresh finds the selected object's row by its name                   *)
(* (SetObjectsRepaints).  Rows in order exist, since no two of them have   *)
(* the same name (OrderExists).                                            *)
(*                                                                         *)
(* The terminal pane.  Whatever a step does to a pane's size, look or      *)
(* focus, recalcSizes puts it in its place and the emulator follows        *)
(* (RecalculatedFits), so that what is drawn is a part of the history and  *)
(* the screen (ViewportIsPart).  That keys differ for the shell comes down *)
(* to the bytes of a key without alt naming it (BodiesDiffer) and to none  *)
(* of them being those of a key with alt (AltDiffers).                     *)
(***************************************************************************)
EXTENDS Panes, FiniteSetTheorems, FunctionTheorems, WellFoundedInduction, TLAPS

-----------------------------------------------------------------------------
(* The composition.                                                        *)

\* Which part runs never changes.
LEMMA PartStays == ASSUME [PanesNext]_panesVars PROVE part' = part
<1>1. CASE UNCHANGED panesVars
  BY <1>1, ZenonT(40) DEF panesVars
<1>2. CASE PanesNext
  BY <1>2 DEF PanesNext, ShellStep, OverlaysStep, TableStep, DetailTextStep, TerminalPaneStep
<1> QED BY <1>1, <1>2

-----------------------------------------------------------------------------
(* The text: loops.                                                        *)

\* Some numbers have a least.
LEMMA LeastNat ==
  ASSUME NEW S, S \subseteq Nat, S # {}
  PROVE  \E m \in S : \A k \in S : m <= k
<1> DEFINE R == {p \in Nat \X Nat : p[1] < p[2]}
<1>1. R = OpToRel(<, Nat)
  BY DEF OpToRel
<1>2. IsWellFoundedOn(OpToRel(<, Nat), Nat)
  BY NatLessThanWellFounded
<1> HIDE DEF R
<1>3. IsWellFoundedOn(R, Nat)
  BY <1>1, <1>2
<1>4. \E x \in S : \A y \in S : ~(<<y, x>> \in R)
  BY <1>3, WFMin, Zenon
<1>5. \A x, y \in Nat : <<y, x>> \in R <=> y < x
  BY DEF R
<1>6. PICK m \in S : \A y \in S : ~(<<y, m>> \in R)
  BY <1>4
<1>7. ASSUME NEW k \in S PROVE m <= k
  <2>1. ~(<<k, m>> \in R)
    BY <1>6
  <2>2. ~(k < m)
    BY <2>1, <1>5
  <2> QED BY <2>2
<1> QED BY <1>7

\* What holds before a loop and is kept by each of its steps.
LEMMA Induct ==
  ASSUME NEW n \in Nat, NEW S, 0 \in S, \A k \in 0 .. (n - 1) : k \in S => k + 1 \in S
  PROVE  \A k \in 0 .. n : k \in S
<1> DEFINE Bad == {k \in 0 .. n : k \notin S}
<1>1. SUFFICES ASSUME Bad # {} PROVE FALSE
  OBVIOUS
<1>7. Bad \subseteq Nat
  OBVIOUS
<1>2. PICK k \in Bad : \A j \in Bad : k <= j
  <2> HIDE DEF Bad
  <2> QED BY <1>1, <1>7, LeastNat
<1>3. k # 0 /\ k - 1 \in 0 .. (n - 1)
  OBVIOUS
<1>4. k - 1 \notin Bad
  BY <1>2
<1>5. k - 1 \in S
  BY <1>3, <1>4
<1>6. (k - 1) + 1 \in S
  BY <1>3, <1>5
<1> QED BY <1>6

\* The function that a loop over 1 .. n computes: from its base, a step at a time.
Loop(f, n, v0, G) == f = [i \in 0 .. n |-> IF i = 0 THEN v0 ELSE G[i][f[i - 1]]]

LEMMA Recursion ==
  ASSUME NEW n \in Nat, NEW V, NEW v0 \in V, NEW G \in [1 .. n -> [V -> V]]
  PROVE  \E f \in [0 .. n -> V] : Loop(f, n, v0, G)
<1> DEFINE Done == {k \in 0 .. n : \E f \in [0 .. k -> V] : Loop(f, k, v0, G)}
<1>1. 0 \in Done
  <2> DEFINE f == [i \in 0 .. 0 |-> v0]
  <2>1. f \in [0 .. 0 -> V]
    OBVIOUS
  <2>2. Loop(f, 0, v0, G)
    BY DEF Loop
  <2> QED BY <2>1, <2>2
<1>2. ASSUME NEW k \in 0 .. (n - 1), k \in Done PROVE k + 1 \in Done
  <2>6. k \in Nat /\ k + 1 \in 1 .. n
    BY <1>2
  <2>1. PICK f \in [0 .. k -> V] : Loop(f, k, v0, G)
    BY <1>2
  <2> DEFINE v == G[k + 1][f[k]]
             h == [i \in 0 .. (k + 1) |-> IF i = k + 1 THEN v ELSE f[i]]
  <2>2. v \in V
    BY <2>6, <2>1
  <2>3. h \in [0 .. (k + 1) -> V]
    BY <2>6, <2>1, <2>2
  <2>4. ASSUME NEW i \in 0 .. (k + 1) PROVE h[i] = IF i = 0 THEN v0 ELSE G[i][h[i - 1]]
    <3>1. CASE i = k + 1
      BY <2>6, <2>4, <3>1
    <3>2. CASE i # k + 1
      <4>1. h[i] = f[i] /\ (i # 0 => h[i - 1] = f[i - 1])
        BY <2>6, <2>4, <3>2
      <4>2. f[i] = IF i = 0 THEN v0 ELSE G[i][f[i - 1]]
        BY <2>6, <2>1, <2>4, <3>2 DEF Loop
      <4> QED BY <4>1, <4>2
    <3> QED BY <3>1, <3>2
  <2>5. Loop(h, k + 1, v0, G)
    BY <2>4 DEF Loop
  <2> QED BY <2>6, <2>3, <2>5
<1>3. n \in Done
  <2> HIDE DEF Done
  <2>1. \A k \in 0 .. (n - 1) : k \in Done => k + 1 \in Done
    BY <1>2
  <2>2. \A k \in 0 .. n : k \in Done
    BY <1>1, <2>1, Induct
  <2> QED BY <2>2
<1> QED BY <1>3

\* A loop, its values one by one.
Goes(f, n, v0, G) == f[0] = v0 /\ \A i \in 1 .. n : f[i] = G[i][f[i - 1]]

LEMMA Iterated ==
  ASSUME NEW n \in Nat, NEW V, NEW v0 \in V, NEW G \in [1 .. n -> [V -> V]]
  PROVE  \E f \in [0 .. n -> V] : Goes(f, n, v0, G)
<1>1. PICK f \in [0 .. n -> V] : Loop(f, n, v0, G)
  BY Recursion
<1>2. \A i \in 0 .. n : f[i] = IF i = 0 THEN v0 ELSE G[i][f[i - 1]]
  BY <1>1 DEF Loop
<1> QED BY <1>2 DEF Goes

-----------------------------------------------------------------------------
(* Columns.                                                                *)

Char == STRING \cup {D!LineEnd}
Line == Seq(Char)

LEMMA CharsHaveWidth == ASSUME NEW c PROVE D!CharWidth(c) \in 1 .. 2
BY DEF D!CharWidth

LEMMA ColumnsAre ==
  ASSUME NEW line \in Line
  PROVE  /\ D!Columns(line, 0) = 0
         /\ \A k \in 0 .. Len(line) : D!Columns(line, k) \in Nat
         /\ \A k \in 1 .. Len(line) :
              D!Columns(line, k) = D!Columns(line, k - 1) + D!CharWidth(line[k])
<1> DEFINE n == Len(line)
           step == [k \in 1 .. n |-> [v \in Nat |-> v + D!CharWidth(line[k])]]
           Is(h) == h = [k \in 0 .. n |-> IF k = 0 THEN 0 ELSE h[k - 1] + D!CharWidth(line[k])]
           w == CHOOSE h : Is(h)
<1>1. n \in Nat
  BY DEF Line
<1>2. \A k : D!Columns(line, k) = w[k]
  BY DEF D!Columns
<1> HIDE DEF n
<1>3. step \in [1 .. n -> [Nat -> Nat]]
  BY CharsHaveWidth
<1>4. PICK g \in [0 .. n -> Nat] : Goes(g, n, 0, step)
  <2> HIDE DEF step
  <2> QED BY <1>1, <1>3, Iterated
<1>5. ASSUME NEW k \in 1 .. n PROVE g[k] = g[k - 1] + D!CharWidth(line[k])
  <2>1. g[k - 1] \in Nat
    BY <1>1, <1>4, <1>5
  <2> QED BY <1>4, <1>5, <2>1 DEF Goes
<1>6. Is(g)
  <2>1. ASSUME NEW k \in 0 .. n
        PROVE  g[k] = IF k = 0 THEN 0 ELSE g[k - 1] + D!CharWidth(line[k])
    BY <1>1, <1>4, <1>5, <2>1 DEF Goes
  <2> QED BY <1>1, <1>4, <2>1
<1>7. Is(w)
  <2> HIDE DEF Is
  <2> QED BY <1>6
<1> HIDE DEF w
<1>8. w[0] = 0 /\ \A k \in 1 .. n : w[k] = w[k - 1] + D!CharWidth(line[k])
  BY <1>1, <1>7
<1> DEFINE Kept == {k \in 0 .. n : w[k] \in Nat}
<1>9. \A k \in 0 .. n : k \in Kept
  <2>1. 0 \in Kept
    BY <1>1, <1>8
  <2>2. ASSUME NEW k \in 0 .. (n - 1), k \in Kept PROVE k + 1 \in Kept
    <3>1. k + 1 \in 1 .. n /\ (k + 1) - 1 = k /\ w[k] \in Nat
      BY <1>1, <2>2
    <3>2. w[k + 1] = w[k] + D!CharWidth(line[k + 1])
      BY <1>8, <3>1
    <3> QED BY <1>1, <3>1, <3>2, CharsHaveWidth
  <2> HIDE DEF Kept
  <2> QED BY <1>1, <2>1, <2>2, Induct
<1> QED BY <1>2, <1>8, <1>9 DEF n

LEMMA ColumnsGrow ==
  ASSUME NEW line \in Line, NEW j \in 0 .. Len(line), NEW k \in 0 .. Len(line), j < k
  PROVE  D!Columns(line, j) < D!Columns(line, k)
<1> DEFINE n == Len(line)
           C(i) == D!Columns(line, i)
<1>1. n \in Nat
  BY DEF Line
<1>2. \A i \in 1 .. n : C(i) = C(i - 1) + D!CharWidth(line[i])
  BY ColumnsAre
<1>3. \A i \in 0 .. n : C(i) \in Nat
  BY ColumnsAre
<1> HIDE DEF n, C
<1> DEFINE Kept == {i \in 0 .. n : j < i => C(j) < C(i)}
<1>4. 0 \in Kept
  BY <1>1 DEF n
<1>5. ASSUME NEW i \in 0 .. (n - 1), i \in Kept PROVE i + 1 \in Kept
  <2>1. i + 1 \in 1 .. n /\ (i + 1) - 1 = i /\ i \in 0 .. n /\ j \in 0 .. n
    BY <1>1, <1>5 DEF n
  <2>2. C(i + 1) = C(i) + D!CharWidth(line[i + 1])
    BY <1>2, <2>1
  <2>3. C(i) < C(i + 1)
    BY <1>3, <2>1, <2>2, CharsHaveWidth
  <2>4. j < i + 1 => j < i \/ j = i
    BY <2>1
  <2>5. C(i) \in Nat /\ C(j) \in Nat /\ C(i + 1) \in Nat
    BY <1>3, <2>1
  <2> QED BY <1>1, <1>5, <2>1, <2>3, <2>4, <2>5
<1>6. \A i \in 0 .. n : i \in Kept
  <2> HIDE DEF Kept
  <2> QED BY <1>1, <1>4, <1>5, Induct
<1> QED BY <1>6 DEF n, C

\* Which of two columns is first is which of the two characters is.
LEMMA ColumnsOrder ==
  ASSUME NEW line \in Line, NEW j \in 0 .. Len(line), NEW k \in 0 .. Len(line)
  PROVE  /\ D!Columns(line, j) < D!Columns(line, k) <=> j < k
         /\ D!Columns(line, j) <= D!Columns(line, k) <=> j <= k
<1>1. Len(line) \in Nat
  BY DEF Line
<1>2. D!Columns(line, j) \in Nat /\ D!Columns(line, k) \in Nat
  BY ColumnsAre
<1>3. CASE j < k
  BY <1>1, <1>2, <1>3, ColumnsGrow
<1>4. CASE k < j
  BY <1>1, <1>2, <1>4, ColumnsGrow
<1>5. CASE j = k
  BY <1>1, <1>2, <1>5
<1> QED BY <1>1, <1>3, <1>4, <1>5

-----------------------------------------------------------------------------
(* Lines, and sequences put one after another.                             *)

LEMMA LineStartsAre ==
  ASSUME NEW t \in Seq(Line)
  PROVE  /\ D!LineStart(t, 0) = 0
         /\ \A k \in 0 .. Len(t) : D!LineStart(t, k) \in Nat
         /\ \A k \in 1 .. Len(t) : D!LineStart(t, k) = D!LineStart(t, k - 1) + Len(t[k]) + 1
<1> DEFINE n == Len(t)
           step == [k \in 1 .. n |-> [v \in Nat |-> v + Len(t[k]) + 1]]
           Is(h) == h = [k \in 0 .. n |-> IF k = 0 THEN 0 ELSE h[k - 1] + Len(t[k]) + 1]
           s == CHOOSE h : Is(h)
<1>1. n \in Nat /\ \A k \in 1 .. n : Len(t[k]) \in Nat
  BY DEF Line
<1>2. \A k : D!LineStart(t, k) = s[k]
  BY DEF D!LineStart
<1> HIDE DEF n
<1>3. step \in [1 .. n -> [Nat -> Nat]]
  BY <1>1
<1>4. PICK g \in [0 .. n -> Nat] : Goes(g, n, 0, step)
  <2> HIDE DEF step
  <2> QED BY <1>1, <1>3, Iterated
<1>5. ASSUME NEW k \in 1 .. n PROVE g[k] = g[k - 1] + Len(t[k]) + 1
  <2>1. g[k - 1] \in Nat
    BY <1>1, <1>4, <1>5
  <2> QED BY <1>4, <1>5, <2>1 DEF Goes
<1>6. Is(g)
  <2>1. ASSUME NEW k \in 0 .. n
        PROVE  g[k] = IF k = 0 THEN 0 ELSE g[k - 1] + Len(t[k]) + 1
    BY <1>1, <1>4, <1>5, <2>1 DEF Goes
  <2> QED BY <1>1, <1>4, <2>1
<1>7. Is(s)
  <2> HIDE DEF Is
  <2> QED BY <1>6
<1> HIDE DEF s
<1>8. s[0] = 0 /\ \A k \in 1 .. n : s[k] = s[k - 1] + Len(t[k]) + 1
  BY <1>1, <1>7
<1> DEFINE Kept == {k \in 0 .. n : s[k] \in Nat}
<1>9. \A k \in 0 .. n : k \in Kept
  <2>1. 0 \in Kept
    BY <1>1, <1>8
  <2>2. ASSUME NEW k \in 0 .. (n - 1), k \in Kept PROVE k + 1 \in Kept
    <3>1. k + 1 \in 1 .. n /\ (k + 1) - 1 = k /\ s[k] \in Nat
      BY <1>1, <2>2
    <3>2. s[k + 1] = s[k] + Len(t[k + 1]) + 1
      BY <1>8, <3>1
    <3> QED BY <1>1, <3>1, <3>2
  <2> HIDE DEF Kept
  <2> QED BY <1>1, <2>1, <2>2, Induct
<1> QED BY <1>2, <1>8, <1>9 DEF n

\* A sequence of sequences put one after another, part by part.
Parts(g, s) ==
    /\ g[0] = << >>
    /\ \A i \in 1 .. Len(s) : g[i] = g[i - 1] \o s[i]
    /\ D!FlattenSeq(s) = g[Len(s)]

LEMMA Flattened ==
  ASSUME NEW V, NEW s \in Seq(Seq(V))
  PROVE  \E g \in [0 .. Len(s) -> Seq(V)] : Parts(g, s)
<1> DEFINE n == Len(s)
           step == [i \in 1 .. n |-> [v \in Seq(V) |-> v \o s[i]]]
           Is(h) == h = [i \in 1 .. n |-> IF i = 1 THEN s[i] ELSE h[i - 1] \o s[i]]
           flat == CHOOSE h : Is(h)
<1>1. n \in Nat /\ \A i \in 1 .. n : s[i] \in Seq(V)
  OBVIOUS
<1>2. D!FlattenSeq(s) = IF n = 0 THEN s ELSE flat[n]
  BY DEF D!FlattenSeq
<1>3. n = 0 => s = << >>
  OBVIOUS
<1> HIDE DEF n
<1>4. step \in [1 .. n -> [Seq(V) -> Seq(V)]]
  BY <1>1
<1>5. << >> \in Seq(V)
  OBVIOUS
<1>6. PICK g \in [0 .. n -> Seq(V)] : Goes(g, n, << >>, step)
  <2> HIDE DEF step
  <2> QED BY <1>1, <1>4, <1>5, Iterated
<1>7. ASSUME NEW i \in 1 .. n PROVE g[i] = g[i - 1] \o s[i]
  <2>1. g[i - 1] \in Seq(V)
    BY <1>1, <1>6, <1>7
  <2> QED BY <1>6, <1>7, <2>1 DEF Goes
<1>8. g[0] = << >>
  BY <1>6 DEF Goes
<1> DEFINE h == [i \in 1 .. n |-> g[i]]
<1>9. Is(h)
  <2>1. ASSUME NEW i \in 1 .. n PROVE h[i] = IF i = 1 THEN s[i] ELSE h[i - 1] \o s[i]
    <3>1. CASE i = 1
      <4>2. g[i] = g[i - 1] \o s[i]
        BY <1>7, <2>1
      <4>3. i - 1 = 0
        BY <3>1
      <4>1. h[i] = << >> \o s[i]
        BY <1>8, <2>1, <4>2, <4>3
      <4> QED BY <1>1, <2>1, <3>1, <4>1
    <3>2. CASE i # 1
      <4>1. i - 1 \in 1 .. n
        BY <1>1, <2>1, <3>2
      <4> QED BY <1>7, <2>1, <3>2, <4>1
    <3> QED BY <3>1, <3>2
  <2> QED BY <2>1
<1>10. Is(flat)
  <2> HIDE DEF Is
  <2> QED BY <1>9
<1> HIDE DEF flat
<1>11. ASSUME NEW i \in 1 .. n PROVE flat[i] = IF i = 1 THEN s[i] ELSE flat[i - 1] \o s[i]
  BY <1>10, <1>11
<1> DEFINE Kept == {i \in 0 .. n : i # 0 => flat[i] = g[i]}
<1>12. \A i \in 0 .. n : i \in Kept
  <2>1. 0 \in Kept
    BY <1>1
  <2>2. ASSUME NEW k \in 0 .. (n - 1), k \in Kept PROVE k + 1 \in Kept
    <3>1. k + 1 \in 1 .. n /\ (k + 1) - 1 = k
      BY <1>1, <2>2
    <3>2. CASE k = 0
      <4>1. flat[k + 1] = s[k + 1]
        BY <1>11, <3>1, <3>2
      <4>2. g[k + 1] = << >> \o s[k + 1]
        BY <1>7, <1>8, <3>1, <3>2
      <4> QED BY <1>1, <3>1, <4>1, <4>2
    <3>3. CASE k # 0
      <4>3. k + 1 # 1
        BY <3>1, <3>3
      <4>1. flat[k + 1] = flat[(k + 1) - 1] \o s[k + 1]
        BY <1>11, <3>1, <4>3
      <4>2. g[k + 1] = g[(k + 1) - 1] \o s[k + 1]
        BY <1>7, <3>1
      <4>4. flat[k] = g[k]
        BY <2>2, <3>3
      <4>5. flat[k + 1] = g[k + 1]
        BY <3>1, <4>1, <4>2, <4>4
      <4> QED BY <1>1, <3>1, <4>5
    <3> QED BY <3>2, <3>3
  <2> HIDE DEF Kept
  <2> QED BY <1>1, <2>1, <2>2, Induct
<1>13. D!FlattenSeq(s) = g[n]
  BY <1>1, <1>2, <1>3, <1>8, <1>12
<1> QED BY <1>6, <1>7, <1>8, <1>13 DEF Parts, n

\* It has what its parts have, and nothing else.
Has(s, x) == \E i \in 1 .. Len(s) : s[i] = x

LEMMA FlattenHas ==
  ASSUME NEW V, NEW s \in Seq(Seq(V))
  PROVE  /\ D!FlattenSeq(s) \in Seq(V)
         /\ \A x : Has(D!FlattenSeq(s), x) <=> \E k \in 1 .. Len(s) : Has(s[k], x)
<1> DEFINE n == Len(s)
<1>1. n \in Nat /\ \A i \in 1 .. n : s[i] \in Seq(V)
  OBVIOUS
<1>2. PICK g \in [0 .. n -> Seq(V)] : Parts(g, s)
  BY Flattened
<1> HIDE DEF n
<1>3. g[0] = << >> /\ (\A i \in 1 .. n : g[i] = g[i - 1] \o s[i]) /\ D!FlattenSeq(s) = g[n]
  BY <1>2 DEF Parts, n
<1>4. ASSUME NEW x PROVE Has(g[n], x) <=> \E k \in 1 .. n : Has(s[k], x)
  <2> DEFINE Kept == {i \in 0 .. n : Has(g[i], x) <=> \E k \in 1 .. i : Has(s[k], x)}
  <2>1. 0 \in Kept
    BY <1>1, <1>3 DEF Has
  <2>2. ASSUME NEW i \in 0 .. (n - 1), i \in Kept PROVE i + 1 \in Kept
    <3>1. i + 1 \in 1 .. n /\ (i + 1) - 1 = i /\ i \in 0 .. n
      BY <1>1, <2>2
    <3>2. g[i + 1] = g[i] \o s[i + 1] /\ g[i] \in Seq(V) /\ s[i + 1] \in Seq(V)
      BY <1>1, <1>2, <1>3, <3>1
    <3>3. Has(g[i + 1], x) <=> Has(g[i], x) \/ Has(s[i + 1], x)
      <4> DEFINE a == g[i]
                 b == s[i + 1]
      <4>1. a \in Seq(V) /\ b \in Seq(V)
        BY <3>2
      <4> HIDE DEF a, b
      <4>2. Has(a \o b, x) => Has(a, x) \/ Has(b, x)
        <5>1. ASSUME NEW l \in 1 .. Len(a \o b), (a \o b)[l] = x PROVE Has(a, x) \/ Has(b, x)
          <6>1. CASE l \in 1 .. Len(a)
            BY <4>1, <5>1, <6>1 DEF Has
          <6>2. CASE l \notin 1 .. Len(a)
            <7>1. l - Len(a) \in 1 .. Len(b) /\ b[l - Len(a)] = x
              BY <4>1, <5>1, <6>2
            <7> QED BY <7>1 DEF Has
          <6> QED BY <6>1, <6>2
        <5> QED BY <5>1 DEF Has
      <4>3. ASSUME NEW l \in 1 .. Len(a), a[l] = x PROVE Has(a \o b, x)
        <5>1. l \in 1 .. Len(a \o b) /\ (a \o b)[l] = x
          BY <4>1, <4>3
        <5> QED BY <5>1 DEF Has
      <4>4. ASSUME NEW l \in 1 .. Len(b), b[l] = x PROVE Has(a \o b, x)
        <5>1. Len(a) + l \in 1 .. Len(a \o b) /\ (a \o b)[Len(a) + l] = x
          BY <4>1, <4>4
        <5> QED BY <5>1 DEF Has
      <4>5. Has(a \o b, x) <=> Has(a, x) \/ Has(b, x)
        BY <4>2, <4>3, <4>4 DEF Has
      <4> QED BY <3>2, <4>5 DEF a, b
    <3>4. \A k : k \in 1 .. (i + 1) <=> k \in 1 .. i \/ k = i + 1
      BY <3>1
    <3> HIDE DEF Has
    <3> QED BY <1>1, <2>2, <3>1, <3>3, <3>4
  <2> HIDE DEF Kept
  <2>3. \A i \in 0 .. n : i \in Kept
    BY <1>1, <2>1, <2>2, Induct
  <2>4. n \in Kept
    BY <1>1, <2>3
  <2> QED BY <2>4 DEF Kept
<1>5. D!FlattenSeq(s) \in Seq(V)
  BY <1>1, <1>2, <1>3
<1> QED BY <1>3, <1>4, <1>5 DEF n

LEMMA ConcatTyped ==
  ASSUME NEW V, NEW a \in Seq(V), NEW b \in Seq(V)
  PROVE  a \o b \in Seq(V) /\ Len(a \o b) = Len(a) + Len(b)
OBVIOUS

\* The lines joined end where the line after the last would begin, less a line end.
LEMMA JoinedLines ==
  ASSUME NEW t \in Seq(Line), t # << >>
  PROVE  D!Join(t) \in Line /\ Len(D!Join(t)) = D!LineStart(t, Len(t)) - 1
<1> DEFINE n == Len(t)
           s == [k \in DOMAIN t |-> IF k = 1 THEN t[k] ELSE << D!LineEnd >> \o t[k]]
<1>1. n \in Nat \ {0} /\ DOMAIN t = 1 .. n /\ \A k \in 1 .. n : t[k] \in Line
  BY DEF Line
<1>2. << D!LineEnd >> \in Line /\ Len(<< D!LineEnd >>) = 1
  BY DEF Char, Line
<1>3. ASSUME NEW k \in 1 .. n
      PROVE  s[k] \in Line /\ Len(s[k]) = IF k = 1 THEN Len(t[k]) ELSE Len(t[k]) + 1
  <2>1. t[k] \in Seq(Char)
    BY <1>1, <1>3 DEF Line
  <2>2. s[k] = IF k = 1 THEN t[k] ELSE << D!LineEnd >> \o t[k]
    BY <1>1, <1>3
  <2> DEFINE e == << D!LineEnd >>
  <2>3. e \in Seq(Char) /\ Len(e) = 1
    BY <1>2 DEF Line
  <2> HIDE DEF e, s
  <2>5. e \o t[k] \in Seq(Char) /\ Len(e \o t[k]) = Len(e) + Len(t[k])
    BY <2>1, <2>3, ConcatTyped
  <2>6. Len(t[k]) \in Nat
    BY <2>1
  <2>4. e \o t[k] \in Seq(Char) /\ Len(e \o t[k]) = Len(t[k]) + 1
    BY <2>3, <2>5, <2>6
  <2> QED BY <2>1, <2>2, <2>4 DEF e, Line
<1>4. s \in Seq(Line) /\ Len(s) = n
  BY <1>1, <1>3
<1>5. D!Join(t) = D!FlattenSeq(s)
  BY DEF D!Join
<1> HIDE DEF s, n
<1>6. s \in Seq(Seq(Char))
  BY <1>4 DEF Line
<1>7. PICK g \in [0 .. Len(s) -> Seq(Char)] : Parts(g, s)
  BY <1>6, Flattened
<1>8. g[0] = << >> /\ (\A i \in 1 .. n : g[i] = g[i - 1] \o s[i]) /\ D!FlattenSeq(s) = g[n]
  BY <1>4, <1>7 DEF Parts
<1>9. /\ D!LineStart(t, 0) = 0
      /\ \A k \in 0 .. n : D!LineStart(t, k) \in Nat
      /\ \A k \in 1 .. n : D!LineStart(t, k) = D!LineStart(t, k - 1) + Len(t[k]) + 1
  BY LineStartsAre DEF n
<1> DEFINE Kept == {i \in 0 .. n : Len(g[i]) = IF i = 0 THEN 0 ELSE D!LineStart(t, i) - 1}
<1>10. 0 \in Kept
  BY <1>1, <1>8
<1>11. ASSUME NEW i \in 0 .. (n - 1), i \in Kept PROVE i + 1 \in Kept
  <2>1. i + 1 \in 1 .. n /\ (i + 1) - 1 = i /\ i \in 0 .. n
    BY <1>1, <1>11
  <2>2. g[i + 1] = g[i] \o s[i + 1] /\ g[i] \in Seq(Char) /\ s[i + 1] \in Seq(Char)
    BY <1>3, <1>4, <1>7, <1>8, <2>1 DEF Line
  <2>3. Len(g[i + 1]) = Len(g[i]) + Len(s[i + 1])
    BY <2>2
  <2>4. Len(s[i + 1]) = IF i = 0 THEN Len(t[i + 1]) ELSE Len(t[i + 1]) + 1
    BY <1>3, <2>1
  <2>5. D!LineStart(t, i + 1) = D!LineStart(t, i) + Len(t[i + 1]) + 1
    BY <1>9, <2>1
  <2>6. D!LineStart(t, i) \in Nat /\ Len(t[i + 1]) \in Nat
    BY <1>1, <1>9, <2>1 DEF Line
  <2>7. CASE i = 0
    <3>1. Len(g[i]) = 0 /\ D!LineStart(t, i) = 0
      BY <1>9, <1>11, <2>7
    <3>2. Len(g[i + 1]) = D!LineStart(t, i + 1) - 1
      BY <2>3, <2>4, <2>5, <2>6, <2>7, <3>1
    <3> QED BY <1>1, <2>1, <3>2
  <2>8. CASE i # 0
    <3>1. Len(g[i]) = D!LineStart(t, i) - 1
      BY <1>11, <2>8
    <3>2. Len(g[i + 1]) = D!LineStart(t, i + 1) - 1
      BY <2>3, <2>4, <2>5, <2>6, <2>8, <3>1
    <3> QED BY <1>1, <2>1, <3>2
  <2> QED BY <2>7, <2>8
<1>12. n \in Kept
  <2> HIDE DEF Kept
  <2> QED BY <1>1, <1>10, <1>11, Induct
<1>13. D!Join(t) \in Line
  BY <1>1, <1>4, <1>5, <1>7, <1>8 DEF Line
<1> QED BY <1>1, <1>5, <1>8, <1>12, <1>13 DEF n

-----------------------------------------------------------------------------
(* What is found, and in which lines.                                      *)

Found(n) == {m \in Nat \X Nat : m[1] < m[2] /\ m[2] <= n}

LEMMA FindAllIn ==
  ASSUME NEW p \in Line, p # << >>, NEW bytes \in Line
  PROVE  D!FindAll(p, bytes) \in Seq(Found(Len(bytes)))
<1> DEFINE n == Len(bytes)
           V == Seq(Found(n))
           Matches(f, i) == /\ i + Len(p) <= n /\ SubSeq(bytes, i + 1, i + Len(p)) = p
                            /\ f = << >> \/ D!Last(f)[2] <= i
           With(f, i) == IF Matches(f, i) THEN Append(f, <<i, i + Len(p)>>) ELSE f
           step == [i \in 1 .. n |-> [v \in V |-> With(v, i - 1)]]
           Is(h) == h = [i \in 0 .. n |-> IF i = 0 THEN << >> ELSE With(h[i - 1], i - 1)]
           before == CHOOSE h : Is(h)
<1>1. n \in Nat /\ Len(p) \in Nat /\ Len(p) > 0
  BY DEF Line
<1>2. D!FindAll(p, bytes) = before[n]
  BY DEF D!FindAll
<1> HIDE DEF n
<1>3. ASSUME NEW i \in 1 .. n, NEW v \in V PROVE With(v, i - 1) \in V
  <2>1. CASE Matches(v, i - 1)
    <3>1. i - 1 \in Nat /\ (i - 1) + Len(p) \in Nat /\ (i - 1) + Len(p) <= n
          /\ i - 1 < (i - 1) + Len(p)
      BY <1>1, <1>3, <2>1
    <3>2. <<i - 1, (i - 1) + Len(p)>> \in Found(n)
      BY <3>1 DEF Found
    <3> QED BY <1>3, <2>1, <3>2
  <2>2. CASE ~Matches(v, i - 1)
    BY <1>3, <2>2
  <2> QED BY <2>1, <2>2
<1>4. << >> \in V
  OBVIOUS
<1> HIDE DEF V, With
<1>5. step \in [1 .. n -> [V -> V]]
  BY <1>3
<1>6. PICK g \in [0 .. n -> V] : Goes(g, n, << >>, step)
  <2> HIDE DEF step
  <2> QED BY <1>1, <1>4, <1>5, Iterated
<1>7. ASSUME NEW i \in 1 .. n PROVE g[i] = With(g[i - 1], i - 1)
  <2>1. g[i - 1] \in V
    BY <1>1, <1>6, <1>7
  <2> QED BY <1>6, <1>7, <2>1 DEF Goes
<1>8. Is(g)
  <2>1. ASSUME NEW i \in 0 .. n PROVE g[i] = IF i = 0 THEN << >> ELSE With(g[i - 1], i - 1)
    BY <1>1, <1>6, <1>7, <2>1 DEF Goes
  <2> QED BY <1>1, <1>6, <2>1
<1>9. Is(before)
  <2> HIDE DEF Is
  <2> QED BY <1>8
<1> HIDE DEF before
<1>10. before[0] = << >>
  BY <1>1, <1>9
<1>11. ASSUME NEW i \in 1 .. n PROVE before[i] = With(before[i - 1], i - 1)
  BY <1>1, <1>9, <1>11
<1> DEFINE Kept == {i \in 0 .. n : before[i] \in V}
<1>12. \A i \in 0 .. n : i \in Kept
  <2>1. 0 \in Kept
    BY <1>1, <1>4, <1>10
  <2>2. ASSUME NEW i \in 0 .. (n - 1), i \in Kept PROVE i + 1 \in Kept
    <3>1. i + 1 \in 1 .. n /\ (i + 1) - 1 = i /\ before[i] \in V
      BY <1>1, <2>2
    <3>2. before[i + 1] \in V
      BY <1>3, <1>11, <3>1
    <3> QED BY <1>1, <3>1, <3>2
  <2> HIDE DEF Kept
  <2> QED BY <1>1, <2>1, <2>2, Induct
<1>13. before[n] \in V
  BY <1>1, <1>12
<1> QED BY <1>2, <1>13 DEF V, n

\* A filter leaves lines, and one at least.
LEMMA FilteredIsText ==
  ASSUME NEW t \in Seq(Line), t # << >>, NEW f
  PROVE  D!Filtered(t, f) \in Seq(Line) /\ D!Filtered(t, f) # << >>
<1> DEFINE n == Len(t)
           V == Seq(Line)
           With(kept, line) == IF D!FindAll(f, line) = << >> THEN kept ELSE Append(kept, line)
           step == [k \in 1 .. n |-> [v \in V |-> With(v, t[k])]]
           Is(h) == h = [k \in 0 .. n |-> IF k = 0 THEN << >> ELSE With(h[k - 1], t[k])]
           kept == CHOOSE h : Is(h)
<1>1. n \in Nat /\ \A k \in 1 .. n : t[k] \in Line
  OBVIOUS
<1>2. D!Matching(t, f) = kept[n]
  BY DEF D!Matching
<1> HIDE DEF n
<1>3. ASSUME NEW k \in 1 .. n, NEW v \in V PROVE With(v, t[k]) \in V
  BY <1>1, <1>3
<1>4. << >> \in V
  OBVIOUS
<1> HIDE DEF V, With
<1>5. step \in [1 .. n -> [V -> V]]
  BY <1>3
<1>6. PICK g \in [0 .. n -> V] : Goes(g, n, << >>, step)
  <2> HIDE DEF step
  <2> QED BY <1>1, <1>4, <1>5, Iterated
<1>7. ASSUME NEW k \in 1 .. n PROVE g[k] = With(g[k - 1], t[k])
  <2>1. g[k - 1] \in V
    BY <1>1, <1>6, <1>7
  <2> QED BY <1>6, <1>7, <2>1 DEF Goes
<1>8. Is(g)
  <2>1. ASSUME NEW k \in 0 .. n PROVE g[k] = IF k = 0 THEN << >> ELSE With(g[k - 1], t[k])
    BY <1>1, <1>6, <1>7, <2>1 DEF Goes
  <2> QED BY <1>1, <1>6, <2>1
<1>9. Is(kept)
  <2> HIDE DEF Is
  <2> QED BY <1>8
<1> HIDE DEF kept
<1>10. kept[0] = << >>
  BY <1>1, <1>9
<1>11. ASSUME NEW k \in 1 .. n PROVE kept[k] = With(kept[k - 1], t[k])
  BY <1>1, <1>9, <1>11
<1> DEFINE Kept == {k \in 0 .. n : kept[k] \in V}
<1>12. \A k \in 0 .. n : k \in Kept
  <2>1. 0 \in Kept
    BY <1>1, <1>4, <1>10
  <2>2. ASSUME NEW k \in 0 .. (n - 1), k \in Kept PROVE k + 1 \in Kept
    <3>1. k + 1 \in 1 .. n /\ (k + 1) - 1 = k /\ kept[k] \in V
      BY <1>1, <2>2
    <3>2. kept[k + 1] \in V
      BY <1>3, <1>11, <3>1
    <3> QED BY <1>1, <3>1, <3>2
  <2> HIDE DEF Kept
  <2> QED BY <1>1, <2>1, <2>2, Induct
<1>13. D!Matching(t, f) \in Seq(Line)
  BY <1>1, <1>2, <1>12 DEF V
<1>14. D!NoText \in Seq(Line) /\ D!NoText # << >>
  BY DEF D!NoText, Line
<1> QED BY <1>13, <1>14 DEF D!Filtered

\* The columns of a match on a line, and the characters that are under it.
TextPosition == [line : Nat, colStart : Nat, colEnd : Nat]

LeastOfTwo(a, b) == IF a <= b THEN a ELSE b

LEMMA MinOfTwo ==
  ASSUME NEW a \in Int, NEW b \in Int
  PROVE  D!Min({a, b}) = LeastOfTwo(a, b)
<1> DEFINE least == LeastOfTwo(a, b)
<1>1. least \in {a, b} /\ \A z \in {a, b} : least <= z
  BY DEF LeastOfTwo
<1>2. \A u \in {a, b} : (\A z \in {a, b} : u <= z) => u = least
  BY DEF LeastOfTwo
<1> QED BY <1>1, <1>2 DEF D!Min

LEMMA SegmentCovers ==
  ASSUME NEW t \in Seq(Line), NEW bytes \in Nat, NEW m \in Found(bytes), NEW n \in D!MatchLines(t, m)
  PROVE  LET seg == D!Segment(t, m, n)
             line == t[n + 1]
         IN  /\ seg \in TextPosition /\ seg.line = n /\ n + 1 \in 1 .. Len(t)
             /\ seg.colEnd <= D!Columns(line, Len(line))
             /\ \A j \in 1 .. Len(line) :
                  (seg.colStart <= D!Columns(line, j - 1) /\ D!Columns(line, j - 1) < seg.colEnd)
                    <=> D!LineStart(t, n) + j - 1 \in m[1] .. (m[2] - 1)
<1> DEFINE start == D!LineStart(t, n)
           line == t[n + 1]
           len == Len(line)
           from == IF m[1] > start THEN m[1] - start ELSE 0
           to == LeastOfTwo(m[2] - start, len)
<1>1. n \in 0 .. (Len(t) - 1) /\ Len(t) \in Nat /\ n + 1 \in 1 .. Len(t) /\ (n + 1) - 1 = n
      /\ n \in 0 .. Len(t)
  BY DEF D!MatchLines
<1>2. line \in Line /\ len \in Nat
  BY <1>1 DEF Line
<1>3. start \in Nat /\ D!LineStart(t, n + 1) = start + len + 1 /\ (n = 0 => start = 0)
  BY <1>1, LineStartsAre
<1>4. m[1] \in Nat /\ m[2] \in Nat /\ m[1] < m[2]
  BY DEF Found
<1>5. m[1] < start + len + 1 /\ (n > 0 => m[2] > start - 1 \/ m[1] >= start)
  BY <1>3 DEF D!MatchLines
<1> HIDE DEF start, len
<1>6. from \in 0 .. len /\ to \in 0 .. len
  <2>1. n > 0 \/ n = 0
    BY <1>1
  <2>2. m[2] - start >= 0
    BY <1>3, <1>4, <1>5, <2>1
  <2>3. from \in 0 .. len
    BY <1>2, <1>3, <1>4, <1>5
  <2>4. to \in 0 .. len
    BY <1>2, <1>3, <1>4, <2>2 DEF LeastOfTwo
  <2> QED BY <2>3, <2>4
<1>7. D!Min({m[2] - start, len}) = to
  BY <1>2, <1>3, <1>4, MinOfTwo
<1>8. D!Segment(t, m, n) = [line |-> n, colStart |-> D!Columns(line, from), colEnd |-> D!Columns(line, to)]
  BY <1>7 DEF D!Segment, start, len
<1>9. D!Columns(line, from) \in Nat /\ D!Columns(line, to) \in Nat
  BY <1>2, <1>6, ColumnsAre DEF len
<1>10. D!Columns(line, to) <= D!Columns(line, len)
  <2>1. to \in 0 .. Len(line) /\ len \in 0 .. Len(line) /\ to <= len
    BY <1>2, <1>6 DEF len
  <2> QED BY <1>2, <2>1, ColumnsOrder
<1>11. ASSUME NEW j \in 1 .. len
       PROVE  (D!Columns(line, from) <= D!Columns(line, j - 1) /\ D!Columns(line, j - 1) < D!Columns(line, to))
                <=> start + j - 1 \in m[1] .. (m[2] - 1)
  <2>1. j - 1 \in 0 .. len /\ j - 1 < len
    BY <1>2, <1>11
  <2>2. /\ D!Columns(line, from) <= D!Columns(line, j - 1) <=> from <= j - 1
        /\ D!Columns(line, j - 1) < D!Columns(line, to) <=> j - 1 < to
    BY <1>2, <1>6, <2>1, ColumnsOrder DEF len
  <2>3. (from <= j - 1 /\ j - 1 < to) <=> (m[1] <= start + j - 1 /\ start + j - 1 < m[2])
    BY <1>2, <1>3, <1>4, <2>1, <1>11 DEF LeastOfTwo
  <2> QED BY <1>3, <1>4, <1>11, <2>2, <2>3
<1> HIDE DEF from, to
<1>12. D!Segment(t, m, n) \in TextPosition /\ D!Segment(t, m, n).line = n
       /\ D!Segment(t, m, n).colStart = D!Columns(line, from)
       /\ D!Segment(t, m, n).colEnd = D!Columns(line, to)
  BY <1>1, <1>8, <1>9 DEF TextPosition
<1> QED BY <1>1, <1>10, <1>11, <1>12 DEF start, len

\* A match has a segment on each line it touches, and on no other.
LEMMA SegmentsAre ==
  ASSUME NEW t \in Seq(Line), NEW bytes \in Nat, NEW m \in Found(bytes)
  PROVE  /\ D!Segments(t, m) \in Seq(TextPosition)
         /\ \A x : Has(D!Segments(t, m), x) <=> \E n \in D!MatchLines(t, m) : x = D!Segment(t, m, n)
<1> DEFINE s == [k \in DOMAIN t |-> IF k - 1 \in D!MatchLines(t, m) THEN << D!Segment(t, m, k - 1) >> ELSE << >>]
<1>1. DOMAIN t = 1 .. Len(t) /\ Len(t) \in Nat
  OBVIOUS
<1>2. ASSUME NEW k \in 1 .. Len(t) PROVE s[k] \in Seq(TextPosition)
  <2>1. CASE k - 1 \in D!MatchLines(t, m)
    <3>1. D!Segment(t, m, k - 1) \in TextPosition
      BY <2>1, SegmentCovers
    <3> QED BY <1>1, <1>2, <2>1, <3>1
  <2>2. CASE k - 1 \notin D!MatchLines(t, m)
    BY <1>1, <1>2, <2>2
  <2> QED BY <2>1, <2>2
<1>3. s \in Seq(Seq(TextPosition)) /\ Len(s) = Len(t)
  BY <1>1, <1>2
<1>4. ASSUME NEW k \in 1 .. Len(t), NEW x
      PROVE  Has(s[k], x) <=> k - 1 \in D!MatchLines(t, m) /\ x = D!Segment(t, m, k - 1)
  <2>1. CASE k - 1 \in D!MatchLines(t, m)
    <3> DEFINE seg == D!Segment(t, m, k - 1)
    <3>1. s[k] = << seg >>
      BY <1>1, <1>4, <2>1
    <3> HIDE DEF s, seg
    <3>2. Len(<< seg >>) = 1 /\ << seg >>[1] = seg
      OBVIOUS
    <3>3. Has(s[k], x) <=> x = seg
      BY <3>1, <3>2 DEF Has
    <3> QED BY <2>1, <3>3 DEF seg
  <2>2. CASE k - 1 \notin D!MatchLines(t, m)
    <3>1. s[k] = << >>
      BY <1>1, <1>4, <2>2
    <3> QED BY <2>2, <3>1 DEF Has
  <2> QED BY <2>1, <2>2
<1>5. D!Segments(t, m) = D!FlattenSeq(s)
  BY DEF D!Segments
<1> HIDE DEF s
<1>6. ASSUME NEW x
      PROVE  (\E k \in 1 .. Len(s) : Has(s[k], x)) <=> \E n \in D!MatchLines(t, m) : x = D!Segment(t, m, n)
  <2>1. ASSUME NEW k \in 1 .. Len(s), Has(s[k], x)
        PROVE  \E n \in D!MatchLines(t, m) : x = D!Segment(t, m, n)
    <3>1. k \in 1 .. Len(t)
      BY <1>3, <2>1
    <3>2. k - 1 \in D!MatchLines(t, m) /\ x = D!Segment(t, m, k - 1)
      BY <1>4, <2>1, <3>1
    <3> QED BY <3>2
  <2>2. ASSUME NEW n \in D!MatchLines(t, m), x = D!Segment(t, m, n)
        PROVE  \E k \in 1 .. Len(s) : Has(s[k], x)
    <3>1. n + 1 \in 1 .. Len(s) /\ (n + 1) - 1 = n
      BY <1>1, <1>3, <2>2 DEF D!MatchLines
    <3>2. Has(s[n + 1], x)
      BY <1>3, <1>4, <2>2, <3>1
    <3> QED BY <3>1, <3>2
  <2> QED BY <2>1, <2>2
<1> QED BY <1>3, <1>5, <1>6, FlattenHas

IsSegment(x, t, found) ==
    \E k \in 1 .. Len(found) : \E n \in D!MatchLines(t, found[k]) : x = D!Segment(t, found[k], n)

LEMMA PositionsAre ==
  ASSUME NEW t \in Seq(Line), NEW bytes \in Nat, NEW found \in Seq(Found(bytes))
  PROVE  /\ D!MatchPositions(t, found) \in Seq(TextPosition)
         /\ \A x : Has(D!MatchPositions(t, found), x) <=> IsSegment(x, t, found)
<1> DEFINE s == [k \in DOMAIN found |-> D!Segments(t, found[k])]
<1>1. DOMAIN found = 1 .. Len(found) /\ Len(found) \in Nat
      /\ \A k \in 1 .. Len(found) : found[k] \in Found(bytes)
  OBVIOUS
<1>2. ASSUME NEW k \in 1 .. Len(found)
      PROVE  /\ s[k] \in Seq(TextPosition)
             /\ \A x : Has(s[k], x) <=> \E n \in D!MatchLines(t, found[k]) : x = D!Segment(t, found[k], n)
  <2>1. s[k] = D!Segments(t, found[k])
    BY <1>1, <1>2
  <2> HIDE DEF s
  <2>2. found[k] \in Found(bytes)
    BY <1>1, <1>2
  <2> QED BY <2>1, <2>2, SegmentsAre
<1>3. s \in Seq(Seq(TextPosition)) /\ Len(s) = Len(found)
  BY <1>1, <1>2
<1>4. D!MatchPositions(t, found) = D!FlattenSeq(s)
  BY DEF D!MatchPositions
<1> HIDE DEF s
<1>5. /\ D!FlattenSeq(s) \in Seq(TextPosition)
      /\ \A x : Has(D!FlattenSeq(s), x) <=> \E k \in 1 .. Len(s) : Has(s[k], x)
  BY <1>3, FlattenHas
<1> HIDE DEF Has
<1> QED BY <1>2, <1>3, <1>4, <1>5 DEF IsSegment

\* A match is on some line.
LEMMA MatchIsOnALine ==
  ASSUME NEW t \in Seq(Line), t # << >>, NEW m \in Found(D!LineStart(t, Len(t)) - 1)
  PROVE  D!MatchLines(t, m) # {}
<1> DEFINE S == {k \in 1 .. Len(t) : m[1] < D!LineStart(t, k)}
<1>1. Len(t) \in Nat \ {0} /\ m[1] \in Nat /\ m[2] \in Nat /\ m[1] < m[2]
      /\ m[2] <= D!LineStart(t, Len(t)) - 1
  BY DEF Found
<1>2. /\ D!LineStart(t, 0) = 0
      /\ \A k \in 0 .. Len(t) : D!LineStart(t, k) \in Nat
  BY LineStartsAre
<1>3. Len(t) \in S
  BY <1>1, <1>2
<1>4. S \subseteq Nat
  OBVIOUS
<1>5. PICK k \in S : \A i \in S : k <= i
  <2> HIDE DEF S
  <2> QED BY <1>3, <1>4, LeastNat
<1>6. k \in 1 .. Len(t) /\ m[1] < D!LineStart(t, k)
  OBVIOUS
<1>7. m[1] >= D!LineStart(t, k - 1)
  <2>1. CASE k = 1
    BY <1>1, <1>2, <2>1
  <2>2. CASE k # 1
    <3>1. k - 1 \in 1 .. Len(t) /\ k - 1 < k
      BY <1>1, <1>6, <2>2
    <3>2. k - 1 \notin S
      BY <1>5, <1>6, <3>1
    <3>3. D!LineStart(t, k - 1) \in Nat
      BY <1>2, <3>1
    <3> QED BY <1>1, <3>1, <3>2, <3>3
  <2> QED BY <2>1, <2>2
<1>8. k - 1 \in 0 .. (Len(t) - 1) /\ (k - 1) + 1 = k
  BY <1>1, <1>6
<1>9. k - 1 \in D!MatchLines(t, m)
  BY <1>6, <1>7, <1>8 DEF D!MatchLines
<1> QED BY <1>9

LEMMA StartsAre ==
  ASSUME NEW t \in Seq(Line), t # << >>,
         NEW found \in Seq(Found(D!LineStart(t, Len(t)) - 1))
  PROVE  D!MatchStarts(t, found) \in Seq(TextPosition)
<1> DEFINE bytes == D!LineStart(t, Len(t)) - 1
           s == [k \in DOMAIN found |-> << Head(D!Segments(t, found[k])) >>]
<1>1. DOMAIN found = 1 .. Len(found) /\ Len(found) \in Nat
      /\ \A k \in 1 .. Len(found) : found[k] \in Found(bytes)
  OBVIOUS
<1>2. bytes \in Nat
  <2>1. Len(D!Join(t)) \in Nat
    BY JoinedLines DEF Line
  <2> QED BY <2>1, JoinedLines
<1> HIDE DEF bytes
<1>3. ASSUME NEW k \in 1 .. Len(found) PROVE s[k] \in Seq(TextPosition)
  <2> DEFINE g == D!Segments(t, found[k])
  <2>1. found[k] \in Found(bytes)
    BY <1>1, <1>3
  <2>2. g \in Seq(TextPosition)
    BY <1>2, <2>1, SegmentsAre
  <2>3. PICK n \in D!MatchLines(t, found[k]) : TRUE
    BY <2>1, MatchIsOnALine DEF bytes
  <2>4. Has(g, D!Segment(t, found[k], n))
    BY <1>2, <2>1, SegmentsAre
  <2>5. s[k] = << Head(g) >>
    BY <1>1, <1>3
  <2> HIDE DEF g, s
  <2>6. g # << >>
    BY <2>2, <2>4 DEF Has
  <2>7. Head(g) \in TextPosition
    BY <2>2, <2>6
  <2> QED BY <2>5, <2>7
<1>4. s \in Seq(Seq(TextPosition))
  BY <1>1, <1>3
<1>5. D!MatchStarts(t, found) = D!FlattenSeq(s)
  BY DEF D!MatchStarts
<1> HIDE DEF s
<1> QED BY <1>4, <1>5, FlattenHas

\* What the positions of matches cover of a line is what is matched there.
PutOver(pos, t, n, j) ==
    /\ pos.line = n - 1
    /\ pos.colStart <= D!Columns(t[n], j - 1)
    /\ D!Columns(t[n], j - 1) < pos.colEnd

LEMMA PositionsCover ==
  ASSUME NEW t \in Seq(Line), NEW bytes \in Nat, NEW found \in Seq(Found(bytes)),
         NEW n \in 1 .. Len(t), NEW j \in 1 .. Len(t[n])
  PROVE  (\E x : Has(D!MatchPositions(t, found), x) /\ PutOver(x, t, n, j)) <=>
           \E k \in 1 .. Len(found) :
             D!LineStart(t, n - 1) + j - 1 \in found[k][1] .. (found[k][2] - 1)
<1>1. Len(t) \in Nat /\ t[n] \in Line /\ Len(t[n]) \in Nat
  BY DEF Line
<1>2. ASSUME NEW x, Has(D!MatchPositions(t, found), x), PutOver(x, t, n, j)
      PROVE  \E k \in 1 .. Len(found) :
               D!LineStart(t, n - 1) + j - 1 \in found[k][1] .. (found[k][2] - 1)
  <2>1. PICK k \in 1 .. Len(found) : \E i \in D!MatchLines(t, found[k]) :
               x = D!Segment(t, found[k], i)
    <3>1. IsSegment(x, t, found)
      BY <1>2, PositionsAre
    <3> QED BY <3>1 DEF IsSegment
  <2>2. PICK i \in D!MatchLines(t, found[k]) : x = D!Segment(t, found[k], i)
    BY <2>1
  <2>3. found[k] \in Found(bytes)
    OBVIOUS
  <2>4. x.line = i /\ x.line = n - 1
    BY <1>2, <2>2, <2>3, SegmentCovers DEF PutOver
  <2>5. i = n - 1 /\ i + 1 = n
    BY <2>4
  <2>6. (x.colStart <= D!Columns(t[n], j - 1) /\ D!Columns(t[n], j - 1) < x.colEnd)
          <=> D!LineStart(t, i) + j - 1 \in found[k][1] .. (found[k][2] - 1)
    BY <2>2, <2>3, <2>5, SegmentCovers
  <2> QED BY <1>2, <2>5, <2>6 DEF PutOver
<1>3. ASSUME NEW k \in 1 .. Len(found),
             D!LineStart(t, n - 1) + j - 1 \in found[k][1] .. (found[k][2] - 1)
      PROVE  \E x : Has(D!MatchPositions(t, found), x) /\ PutOver(x, t, n, j)
  <2> DEFINE m == found[k]
             i == n - 1
             x == D!Segment(t, m, i)
  <2>1. m \in Found(bytes) /\ m[1] \in Nat /\ m[2] \in Nat
    BY <1>3 DEF Found
  <2>2. i \in 0 .. (Len(t) - 1) /\ i + 1 = n
    BY <1>1
  <2>3. D!LineStart(t, i) \in Nat /\ D!LineStart(t, i + 1) = D!LineStart(t, i) + Len(t[n]) + 1
    BY <1>1, <2>2, LineStartsAre
  <2>4. i \in D!MatchLines(t, m)
    <3> DEFINE at == D!LineStart(t, i)
    <3>1. at \in Nat /\ at + j - 1 >= m[1] /\ at + j - 1 <= m[2] - 1
      BY <1>3, <2>1, <2>3
    <3> HIDE DEF at, m, i
    <3>2. Len(t[n]) \in Nat /\ j \in 1 .. Len(t[n])
      BY <1>1
    <3>3. m[1] \in Nat /\ m[2] \in Nat
      BY <2>1
    <3>5. m[1] <= at + j - 1 /\ j <= Len(t[n])
      BY <3>1, <3>2, <3>3
    <3>6. m[1] < at + Len(t[n]) + 1
      BY <3>1, <3>2, <3>3, <3>5
    <3>7. m[2] > at - 1
      BY <3>1, <3>2, <3>3
    <3>4. m[1] < at + Len(t[n]) + 1 /\ m[2] > at - 1
      BY <3>6, <3>7
    <3> QED BY <2>2, <2>3, <3>4 DEF D!MatchLines, at
  <2>5. /\ x.line = i
        /\ (x.colStart <= D!Columns(t[n], j - 1) /\ D!Columns(t[n], j - 1) < x.colEnd)
             <=> D!LineStart(t, i) + j - 1 \in m[1] .. (m[2] - 1)
    <3> HIDE DEF m, i
    <3> QED BY <2>1, <2>2, <2>4, SegmentCovers
  <2>6. PutOver(x, t, n, j)
    BY <1>3, <2>5 DEF PutOver
  <2>7. Has(D!MatchPositions(t, found), x)
    <3>1. IsSegment(x, t, found)
      BY <1>3, <2>4 DEF IsSegment
    <3> QED BY <3>1, PositionsAre
  <2> QED BY <2>6, <2>7
<1> QED BY <1>2, <1>3

-----------------------------------------------------------------------------
(* Wrapping.                                                               *)

TextRow == [line : Nat, offset : Nat]

\* The rows of a line: the first at its begin, each further on than those before it, and
\* none beyond a column.
RowsOf(r, n, c) ==
    /\ r \in Seq(TextRow) /\ Len(r) > 0 /\ r[1].offset = 0
    /\ \A k \in 1 .. Len(r) : r[k].line = n /\ r[k].offset <= c
    /\ \A j, k \in 1 .. Len(r) : j < k => r[j].offset < r[k].offset

LEMMA OneRow ==
  ASSUME NEW n \in Nat, NEW c \in Nat
  PROVE  RowsOf(<< [line |-> n, offset |-> 0] >>, n, c)
<1> DEFINE row == [line |-> n, offset |-> 0]
<1>1. row \in TextRow /\ row.line = n /\ row.offset = 0
  BY DEF TextRow
<1> HIDE DEF row
<1>2. << row >> \in Seq(TextRow) /\ Len(<< row >>) = 1 /\ << row >>[1] = row
  BY <1>1
<1>3. RowsOf(<< row >>, n, c)
  BY <1>1, <1>2 DEF RowsOf
<1> QED BY <1>3 DEF row

LEMMA NextRow ==
  ASSUME NEW n \in Nat, NEW c \in Nat, NEW d \in Nat, c < d, NEW r, RowsOf(r, n, c)
  PROVE  /\ RowsOf(r, n, d)
         /\ r[Len(r)].offset # c => RowsOf(Append(r, [line |-> n, offset |-> c]), n, d)
<1> DEFINE row == [line |-> n, offset |-> c]
<1>1. row \in TextRow /\ row.line = n /\ row.offset = c
  BY DEF TextRow
<1>2. r \in Seq(TextRow) /\ Len(r) \in Nat \ {0} /\ r[1].offset = 0
      /\ (\A k \in 1 .. Len(r) : r[k].line = n /\ r[k].offset <= c)
      /\ (\A j, k \in 1 .. Len(r) : j < k => r[j].offset < r[k].offset)
  BY DEF RowsOf
<1>3. ASSUME NEW k \in 1 .. Len(r) PROVE r[k] \in TextRow /\ r[k].offset \in Nat
  <2>1. r[k] \in TextRow
    BY <1>2, <1>3
  <2> QED BY <2>1 DEF TextRow
<1>4. RowsOf(r, n, d)
  BY <1>2, <1>3 DEF RowsOf
<1>5. ASSUME r[Len(r)].offset # c PROVE RowsOf(Append(r, row), n, d)
  <2> DEFINE u == Append(r, row)
             l == Len(r)
  <2> HIDE DEF row
  <2>1. u \in Seq(TextRow) /\ Len(u) = l + 1 /\ u[l + 1] = row /\ \A k \in 1 .. l : u[k] = r[k]
    BY <1>1, <1>2
  <2>2. r[l].offset < c
    BY <1>2, <1>3, <1>5
  <2>3. \A k \in 1 .. l : r[k].offset < c
    BY <1>2, <1>3, <2>2
  <2>4. l \in Nat \ {0}
    BY <1>2
  <2> HIDE DEF u, l
  <2>5. u[1] = r[1]
    BY <2>1, <2>4
  <2>6. ASSUME NEW k \in 1 .. (l + 1) PROVE u[k].line = n /\ u[k].offset <= d
    <3>1. CASE k \in 1 .. l
      BY <1>2, <1>3, <2>1, <2>6, <3>1 DEF l
    <3>2. CASE k = l + 1
      BY <1>1, <2>1, <3>2
    <3> QED BY <2>4, <2>6, <3>1, <3>2
  <2>7. ASSUME NEW j \in 1 .. (l + 1), NEW k \in 1 .. (l + 1), j < k PROVE u[j].offset < u[k].offset
    <3>1. CASE k \in 1 .. l
      <4>1. j \in 1 .. l
        BY <2>4, <2>7, <3>1
      <4> QED BY <1>2, <2>1, <2>7, <3>1, <4>1 DEF l
    <3>2. CASE k = l + 1
      <4>1. j \in 1 .. l
        BY <2>4, <2>7, <3>2
      <4> QED BY <1>1, <2>1, <2>3, <3>2, <4>1
    <3> QED BY <2>4, <2>7, <3>1, <3>2
  <2>8. RowsOf(u, n, d)
    BY <1>2, <2>1, <2>4, <2>5, <2>6, <2>7 DEF RowsOf
  <2> QED BY <2>8 DEF u
<1> QED BY <1>4, <1>5

LEMMA WrapLineRows ==
  ASSUME NEW n \in Nat, NEW line \in Line, NEW w
  PROVE  RowsOf(D!WrapLine(n, line, w), n, D!Columns(line, Len(line)))
<1> DEFINE len == Len(line)
           Row(k) == [line |-> n, offset |-> D!Columns(line, k)]
           Room(offset) == IF offset = 0 THEN w ELSE D!ContinuationWidth(w)
           Fits(offset, k) == \/ D!Columns(line, k - 1) = offset
                              \/ D!Columns(line, k) - offset <= Room(offset)
           With(v, k) == IF Fits(D!Last(v).offset, k) THEN v ELSE Append(v, Row(k - 1))
           V == Seq(TextRow)
           step == [k \in 1 .. len |-> [v \in V |-> With(v, k)]]
           Is(h) == h = [k \in 0 .. len |-> IF k = 0 THEN << Row(0) >> ELSE With(h[k - 1], k)]
           taken == CHOOSE h : Is(h)
<1>1. len \in Nat
  BY DEF Line
<1>2. D!Columns(line, 0) = 0 /\ \A k \in 0 .. len : D!Columns(line, k) \in Nat
  BY ColumnsAre
<1>3. D!WrapLine(n, line, w) = IF w <= 0 \/ D!Width(line) <= w THEN << Row(0) >> ELSE taken[len]
  BY DEF D!WrapLine
<1>4. Row(0) = [line |-> n, offset |-> 0]
  BY <1>2
<1>5. RowsOf(<< Row(0) >>, n, 0) /\ RowsOf(<< Row(0) >>, n, D!Columns(line, len))
  BY <1>1, <1>2, <1>4, OneRow
<1>6. << Row(0) >> \in V
  BY <1>5 DEF RowsOf
<1>7. \A k \in 0 .. len : Row(k) \in TextRow
  BY <1>2 DEF TextRow
<1> HIDE DEF Row, Fits, len
<1>8. ASSUME NEW k \in 1 .. len, NEW v \in V PROVE With(v, k) \in V
  <2>1. Row(k - 1) \in TextRow
    BY <1>1, <1>7, <1>8
  <2> QED BY <1>8, <2>1
<1>9. ASSUME NEW k \in 1 .. len, NEW v, RowsOf(v, n, D!Columns(line, k - 1))
      PROVE  RowsOf(With(v, k), n, D!Columns(line, k))
  <2> DEFINE c == D!Columns(line, k - 1)
             d == D!Columns(line, k)
  <2>1. k - 1 \in 0 .. Len(line) /\ k \in 0 .. Len(line) /\ k - 1 < k
    BY <1>1, <1>9 DEF len
  <2>2. c \in Nat /\ d \in Nat /\ c < d
    BY <2>1, ColumnsAre, ColumnsGrow
  <2>3. Row(k - 1) = [line |-> n, offset |-> c]
    BY DEF Row
  <2>4. D!Last(v) = v[Len(v)]
    BY DEF D!Last
  <2>5. ~Fits(D!Last(v).offset, k) => v[Len(v)].offset # c
    BY <2>4 DEF Fits
  <2> HIDE DEF c, d
  <2>6. RowsOf(v, n, c)
    BY <1>9 DEF c
  <2>7. RowsOf(v, n, d) /\ (v[Len(v)].offset # c => RowsOf(Append(v, [line |-> n, offset |-> c]), n, d))
    BY <2>2, <2>6, NextRow
  <2>8. RowsOf(With(v, k), n, d)
    BY <2>3, <2>5, <2>7
  <2> QED BY <2>8 DEF d
<1> HIDE DEF V, With
<1>10. step \in [1 .. len -> [V -> V]]
  BY <1>8
<1>11. PICK g \in [0 .. len -> V] : Goes(g, len, << Row(0) >>, step)
  <2> HIDE DEF step
  <2> QED BY <1>1, <1>6, <1>10, Iterated
<1>12. ASSUME NEW k \in 1 .. len PROVE g[k] = With(g[k - 1], k)
  <2>1. g[k - 1] \in V
    BY <1>1, <1>11, <1>12
  <2> QED BY <1>11, <1>12, <2>1 DEF Goes
<1>13. Is(g)
  <2>1. ASSUME NEW k \in 0 .. len PROVE g[k] = IF k = 0 THEN << Row(0) >> ELSE With(g[k - 1], k)
    <3>1. CASE k = 0
      <4>1. g[0] = << Row(0) >>
        BY <1>11 DEF Goes
      <4> QED BY <3>1, <4>1
    <3>2. CASE k # 0
      <4>1. k \in 1 .. len
        BY <1>1, <2>1, <3>2
      <4> QED BY <1>12, <3>2, <4>1
    <3> QED BY <3>1, <3>2
  <2> QED BY <1>1, <1>11, <2>1
<1>14. Is(taken)
  <2> HIDE DEF Is
  <2> QED BY <1>13
<1> HIDE DEF taken
<1>15. taken[0] = << Row(0) >>
  BY <1>1, <1>14
<1>16. ASSUME NEW k \in 1 .. len PROVE taken[k] = With(taken[k - 1], k)
  BY <1>1, <1>14, <1>16
<1> DEFINE Kept == {k \in 0 .. len : RowsOf(taken[k], n, D!Columns(line, k))}
<1>17. \A k \in 0 .. len : k \in Kept
  <2>1. 0 \in Kept
    BY <1>1, <1>2, <1>5, <1>15
  <2>2. ASSUME NEW k \in 0 .. (len - 1), k \in Kept PROVE k + 1 \in Kept
    <3>1. k + 1 \in 1 .. len /\ (k + 1) - 1 = k /\ RowsOf(taken[k], n, D!Columns(line, k))
      BY <1>1, <2>2
    <3>2. RowsOf(taken[k + 1], n, D!Columns(line, k + 1))
      BY <1>9, <1>16, <3>1
    <3> QED BY <1>1, <3>1, <3>2
  <2> HIDE DEF Kept
  <2> QED BY <1>1, <2>1, <2>2, Induct
<1>18. RowsOf(taken[len], n, D!Columns(line, len))
  BY <1>1, <1>17
<1>19. D!Columns(line, len) = D!Columns(line, Len(line))
  BY DEF len
<1> HIDE DEF RowsOf
<1> QED BY <1>3, <1>5, <1>18, <1>19

\* The rows of a text are in order, and each line has one at its begin.
Before(a, b) == a.line < b.line \/ (a.line = b.line /\ a.offset < b.offset)

Mapped(r, n) ==
    /\ r \in Seq(TextRow)
    /\ \A k \in 1 .. Len(r) : r[k].line < n
    /\ \A j, k \in 1 .. Len(r) : j < k => Before(r[j], r[k])
    /\ \A i \in 0 .. (n - 1) : \E k \in 1 .. Len(r) : r[k].line = i /\ r[k].offset = 0

LEMMA MappedMore ==
  ASSUME NEW n \in Nat, NEW r, Mapped(r, n), NEW s, NEW c, RowsOf(s, n, c)
  PROVE  Mapped(r \o s, n + 1)
<1> DEFINE u == r \o s
           l == Len(r)
<1>1. r \in Seq(TextRow) /\ s \in Seq(TextRow)
  BY DEF Mapped, RowsOf
<1>2. u \in Seq(TextRow) /\ Len(u) = l + Len(s) /\ l \in Nat /\ Len(s) \in Nat \ {0}
  BY <1>1 DEF RowsOf
<1>3. ASSUME NEW k \in 1 .. Len(u)
      PROVE  \/ k \in 1 .. l /\ u[k] = r[k]
             \/ k \notin 1 .. l /\ k - l \in 1 .. Len(s) /\ u[k] = s[k - l]
  BY <1>1, <1>2, <1>3
<1>10. \A k \in 1 .. l : k \in 1 .. Len(u) /\ u[k] = r[k]
  BY <1>1, <1>2
<1>4. l + 1 \in 1 .. Len(u) /\ u[l + 1] = s[1]
  BY <1>1, <1>2
<1> HIDE DEF u, l
<1>5. (\A k \in 1 .. l : r[k].line < n) /\ (\A k \in 1 .. Len(s) : s[k].line = n)
      /\ (\A k \in 1 .. l : r[k] \in TextRow) /\ s[1].offset = 0
  BY <1>1 DEF Mapped, RowsOf, l
<1>6. ASSUME NEW k \in 1 .. Len(u) PROVE u[k].line < n + 1
  <2>1. CASE k \in 1 .. l
    <3>1. u[k] = r[k] /\ r[k] \in TextRow /\ r[k].line < n
      BY <1>5, <1>10, <2>1
    <3> QED BY <3>1 DEF TextRow
  <2>2. CASE k \notin 1 .. l
    BY <1>3, <1>5, <1>6, <2>2
  <2> QED BY <2>1, <2>2
<1>7. ASSUME NEW j \in 1 .. Len(u), NEW k \in 1 .. Len(u), j < k PROVE Before(u[j], u[k])
  <2>1. CASE k \in 1 .. l
    <3>1. j \in 1 .. l
      BY <1>2, <1>7, <2>1
    <3>2. u[j] = r[j] /\ u[k] = r[k]
      BY <1>10, <2>1, <3>1
    <3> QED BY <1>7, <2>1, <3>1, <3>2 DEF Mapped, l
  <2>2. CASE k \notin 1 .. l /\ j \in 1 .. l
    <3>1. u[k] = s[k - l] /\ k - l \in 1 .. Len(s) /\ u[j] = r[j]
      BY <1>3, <1>7, <1>10, <2>2
    <3>2. u[k].line = n /\ u[j].line < n
      BY <1>5, <2>2, <3>1
    <3> QED BY <3>2 DEF Before
  <2>3. CASE k \notin 1 .. l /\ j \notin 1 .. l
    <3>1. u[k] = s[k - l] /\ k - l \in 1 .. Len(s) /\ u[j] = s[j - l] /\ j - l \in 1 .. Len(s)
      BY <1>3, <1>7, <2>3
    <3>2. j - l < k - l
      BY <1>2, <1>7
    <3>3. s[j - l].offset < s[k - l].offset /\ s[j - l].line = n /\ s[k - l].line = n
      BY <3>1, <3>2 DEF RowsOf
    <3> QED BY <3>1, <3>3 DEF Before
  <2> QED BY <2>1, <2>2, <2>3
<1>8. ASSUME NEW i \in 0 .. n PROVE \E k \in 1 .. Len(u) : u[k].line = i /\ u[k].offset = 0
  <2>1. CASE i = n
    <3>1. u[l + 1].line = n /\ u[l + 1].offset = 0
      BY <1>2, <1>4, <1>5
    <3> QED BY <1>4, <2>1, <3>1
  <2>2. CASE i # n
    <3>1. i \in 0 .. (n - 1)
      BY <1>8, <2>2
    <3>2. PICK k \in 1 .. l : r[k].line = i /\ r[k].offset = 0
      BY <3>1 DEF Mapped, l
    <3> QED BY <1>10, <3>2
  <2> QED BY <2>1, <2>2
<1>9. Mapped(u, n + 1)
  BY <1>2, <1>6, <1>7, <1>8 DEF Mapped
<1> QED BY <1>9 DEF u

LEMMA WrapLinesMap ==
  ASSUME NEW t \in Seq(Line), NEW w
  PROVE  Mapped(D!WrapLines(t, w), Len(t))
<1> DEFINE n == Len(t)
           s == [k \in DOMAIN t |-> D!WrapLine(k - 1, t[k], w)]
<1>1. n \in Nat /\ DOMAIN t = 1 .. n /\ \A k \in 1 .. n : t[k] \in Line
  OBVIOUS
<1>2. ASSUME NEW k \in 1 .. n
      PROVE  RowsOf(s[k], k - 1, D!Columns(t[k], Len(t[k]))) /\ s[k] \in Seq(TextRow)
  <2>1. s[k] = D!WrapLine(k - 1, t[k], w)
    BY <1>1, <1>2
  <2> HIDE DEF s
  <2>2. k - 1 \in Nat /\ t[k] \in Line
    BY <1>1, <1>2
  <2>3. RowsOf(s[k], k - 1, D!Columns(t[k], Len(t[k])))
    BY <2>1, <2>2, WrapLineRows
  <2> QED BY <2>3 DEF RowsOf
<1>3. s \in Seq(Seq(TextRow)) /\ Len(s) = n
  BY <1>1, <1>2
<1>4. D!WrapLines(t, w) = D!FlattenSeq(s)
  BY DEF D!WrapLines
<1> HIDE DEF s, n
<1>5. PICK g \in [0 .. Len(s) -> Seq(TextRow)] : Parts(g, s)
  BY <1>3, Flattened
<1>6. g[0] = << >> /\ (\A i \in 1 .. n : g[i] = g[i - 1] \o s[i]) /\ D!FlattenSeq(s) = g[n]
  BY <1>3, <1>5 DEF Parts
<1> DEFINE Kept == {i \in 0 .. n : Mapped(g[i], i)}
<1>7. 0 \in Kept
  <2>1. Mapped(<< >>, 0)
    BY DEF Mapped
  <2> QED BY <1>1, <1>6, <2>1
<1>8. ASSUME NEW i \in 0 .. (n - 1), i \in Kept PROVE i + 1 \in Kept
  <2>1. i + 1 \in 1 .. n /\ (i + 1) - 1 = i /\ i \in Nat
    BY <1>1, <1>8
  <2>2. g[i + 1] = g[i] \o s[i + 1]
    BY <1>6, <2>1
  <2>3. RowsOf(s[i + 1], i, D!Columns(t[i + 1], Len(t[i + 1])))
    BY <1>2, <2>1
  <2>4. Mapped(g[i + 1], i + 1)
    BY <1>8, <2>1, <2>2, <2>3, MappedMore
  <2> QED BY <1>1, <2>1, <2>4
<1>9. n \in Kept
  <2> HIDE DEF Kept
  <2> QED BY <1>1, <1>7, <1>8, Induct
<1> QED BY <1>4, <1>6, <1>9 DEF n

\* The row of a text that draws a position is where ToVisual puts it.
LEMMA MinIs ==
  ASSUME NEW S, S \subseteq Int, NEW m \in S, \A k \in S : m <= k
  PROVE  D!Min(S) = m
<1>1. ASSUME NEW u \in S, \A k \in S : u <= k PROVE u = m
  <2>1. u <= m /\ m <= u /\ u \in Int /\ m \in Int
    BY <1>1
  <2> QED BY <2>1
<1> QED BY <1>1 DEF D!Min

LEMMA MaxIs ==
  ASSUME NEW S, S \subseteq Int, NEW m \in S, \A k \in S : k <= m
  PROVE  D!Max(S) = m
<1>1. ASSUME NEW u \in S, \A k \in S : u >= k PROVE u = m
  <2>1. u >= m /\ u <= m /\ u \in Int /\ m \in Int
    BY <1>1
  <2> QED BY <2>1
<1>2. \A k \in S : m >= k
  BY SMT
<1> QED BY <1>1, <1>2 DEF D!Max

\* The greatest of n numbers.
LEMMA GreatestOf ==
  ASSUME NEW n \in Nat \ {0}, NEW f \in [1 .. n -> Int]
  PROVE  LET most == D!Max({f[i] : i \in 1 .. n})
         IN  most \in Int /\ \A k \in 1 .. n : f[k] <= most
<1> DEFINE Greatest(i, m) == m \in 1 .. i /\ \A j \in 1 .. i : f[j] <= f[m]
           Kept == {i \in 0 .. n : i = 0 \/ \E m \in 1 .. i : Greatest(i, m)}
<1>1. 0 \in Kept
  OBVIOUS
<1>2. ASSUME NEW i \in 0 .. (n - 1), i \in Kept PROVE i + 1 \in Kept
  <2>1. i + 1 \in 1 .. n /\ f[i + 1] \in Int /\ i \in Nat
    BY <1>2
  <2>2. CASE i = 0
    <3>1. 1 .. (i + 1) = {i + 1}
      BY <2>2
    <3>2. Greatest(i + 1, i + 1)
      BY <2>1, <3>1
    <3> QED BY <2>1, <3>1, <3>2
  <2>3. CASE i # 0
    <3>1. PICK m \in 1 .. i : Greatest(i, m)
      BY <1>2, <2>3
    <3>2. f[m] \in Int /\ m \in 1 .. n /\ m \in 1 .. (i + 1) /\ i + 1 \in 1 .. (i + 1)
      BY <2>1, <3>1
    <3>3. ASSUME NEW j \in 1 .. (i + 1) PROVE j = i + 1 \/ j \in 1 .. i
      BY <2>1, <3>3
    <3>4. CASE f[i + 1] <= f[m]
      <4>1. Greatest(i + 1, m)
        BY <3>1, <3>2, <3>3, <3>4
      <4> QED BY <2>1, <3>2, <4>1
    <3>5. CASE ~(f[i + 1] <= f[m])
      <4>1. ASSUME NEW j \in 1 .. (i + 1) PROVE f[j] <= f[i + 1]
        <5>1. CASE j = i + 1
          BY <2>1, <5>1
        <5>2. CASE j \in 1 .. i
          <6>1. j \in 1 .. n /\ f[j] \in Int /\ f[j] <= f[m]
            BY <2>1, <3>1, <5>2
          <6> QED BY <2>1, <3>2, <3>5, <6>1
        <5> QED BY <3>3, <4>1, <5>1, <5>2
      <4>2. Greatest(i + 1, i + 1)
        BY <3>2, <4>1
      <4> QED BY <2>1, <3>2, <4>2
    <3> QED BY <3>4, <3>5
  <2> QED BY <2>2, <2>3
<1>3. n \in Kept
  <2>1. n \in Nat /\ n \in 0 .. n
    OBVIOUS
  <2> HIDE DEF Kept
  <2>2. \A i \in 0 .. n : i \in Kept
    BY <1>1, <1>2, <2>1, Induct
  <2> QED BY <2>1, <2>2
<1>4. PICK m \in 1 .. n : \A j \in 1 .. n : f[j] <= f[m]
  BY <1>3
<1>5. D!Max({f[i] : i \in 1 .. n}) = f[m]
  <2> DEFINE S == {f[i] : i \in 1 .. n}
  <2>1. S \subseteq Int /\ f[m] \in S /\ \A k \in S : k <= f[m]
    BY <1>4
  <2> HIDE DEF S
  <2>2. D!Max(S) = f[m]
    BY <2>1, MaxIs
  <2> QED BY <2>2 DEF S
<1> QED BY <1>4, <1>5

\* What of a mapping says where a position is drawn: its row, the last that begins at or
\* before it, and the first of its line.
DrawnAt(r, pos, best, first) ==
    /\ best \in 1 .. Len(r) /\ r[best].line = pos.line /\ r[best].offset <= pos.colStart
    /\ \A k \in 1 .. Len(r) : D!Past(r[k], pos) <=> best < k
    /\ first \in 1 .. best /\ r[first].line = pos.line /\ r[first].offset = 0

\* Rows in order, from the first of a line to the last.
LEMMA DrawnSomewhere ==
  ASSUME NEW n \in Nat, NEW r, Mapped(r, n), NEW pos \in TextPosition, pos.line < n
  PROVE  \E best \in 1 .. Len(r), first \in 1 .. Len(r) : DrawnAt(r, pos, best, first)
<1> DEFINE l == Len(r)
           past == {k \in 1 .. l : D!Past(r[k], pos)}
<1>1. l \in Nat /\ r \in Seq(TextRow) /\ pos.line \in 0 .. (n - 1) /\ pos.colStart \in Nat
  BY DEF Mapped, TextPosition
<1>2. ASSUME NEW k \in 1 .. l PROVE r[k].line \in Nat /\ r[k].offset \in Nat
  <2>1. r[k] \in TextRow
    BY <1>1, <1>2
  <2> QED BY <2>1 DEF TextRow
<1>3. PICK first \in 1 .. l : r[first].line = pos.line /\ r[first].offset = 0
  BY <1>1 DEF Mapped
<1>4. \A j, k \in 1 .. l : j < k => Before(r[j], r[k])
  BY DEF Mapped
<1> HIDE DEF l
<1>5. ASSUME NEW j \in 1 .. l, NEW k \in 1 .. l, j < k, D!Past(r[j], pos) PROVE D!Past(r[k], pos)
  <2>1. Before(r[j], r[k])
    BY <1>4, <1>5
  <2>2. r[j].line \in Nat /\ r[k].line \in Nat /\ r[j].offset \in Nat /\ r[k].offset \in Nat
    BY <1>2, <1>5
  <2> QED BY <1>1, <1>5, <2>1, <2>2 DEF Before, D!Past
<1>6. ~D!Past(r[first], pos)
  BY <1>1, <1>3 DEF D!Past
<1>7. PICK best \in 1 .. l : \A k \in 1 .. l : D!Past(r[k], pos) <=> best < k
  <2>1. CASE past = {}
    <3>1. l \in 1 .. l
      BY <1>1, <1>3
    <3>2. \A k \in 1 .. l : ~D!Past(r[k], pos) /\ ~(l < k)
      BY <1>1, <2>1
    <3> QED BY <3>1, <3>2
  <2>2. CASE past # {}
    <3>1. past \subseteq Nat
      BY <1>1
    <3>2. PICK m \in past : \A k \in past : m <= k
      <4> HIDE DEF past
      <4> QED BY <2>2, <3>1, LeastNat
    <3>3. m \in 1 .. l /\ D!Past(r[m], pos)
      BY <3>2
    <3>4. first < m
      <4>1. CASE m = first
        BY <1>6, <3>3, <4>1
      <4>2. CASE m < first
        BY <1>3, <1>5, <1>6, <3>3, <4>2
      <4> QED BY <1>1, <3>3, <4>1, <4>2
    <3>5. m - 1 \in 1 .. l
      BY <1>1, <3>3, <3>4
    <3>6. ASSUME NEW k \in 1 .. l PROVE D!Past(r[k], pos) <=> m - 1 < k
      <4>1. CASE k = m
        BY <1>1, <3>3, <4>1
      <4>2. CASE m < k
        <5>1. D!Past(r[k], pos)
          BY <1>5, <3>3, <3>6, <4>2
        <5> QED BY <1>1, <3>3, <3>6, <4>2, <5>1
      <4>3. CASE k < m
        <5>1. k \notin past
          BY <1>1, <3>2, <3>3, <4>3
        <5> QED BY <1>1, <3>3, <3>6, <4>3, <5>1
      <4> QED BY <1>1, <3>3, <4>1, <4>2, <4>3
    <3> QED BY <3>5, <3>6
  <2> QED BY <2>1, <2>2
<1>8. first <= best
  BY <1>1, <1>6, <1>7
<1>9. ~D!Past(r[best], pos)
  BY <1>1, <1>7
<1>10. r[best].line = pos.line /\ r[best].offset <= pos.colStart
  <2>1. r[best].line \in Nat /\ r[best].offset \in Nat
    BY <1>2
  <2>2. CASE first = best
    BY <1>1, <1>3, <2>2
  <2>3. CASE first # best
    <3>1. Before(r[first], r[best])
      BY <1>1, <1>4, <1>8, <2>3
    <3> QED BY <1>1, <1>3, <1>9, <2>1, <3>1 DEF Before, D!Past
  <2> QED BY <2>2, <2>3
<1>11. DrawnAt(r, pos, best, first)
  BY <1>1, <1>3, <1>7, <1>8, <1>10 DEF DrawnAt, l
<1> QED BY <1>11 DEF l

\* Indices of a mapping's rows that say the same line as the position and begin at or
\* before it.
LEMMA MineAre ==
  ASSUME NEW n \in Nat, NEW r, Mapped(r, n), NEW pos \in TextPosition,
         NEW best, NEW first, DrawnAt(r, pos, best, first)
  PROVE  LET mine == {k \in DOMAIN r : r[k].line = pos.line /\ r[k].offset <= pos.colStart}
         IN  /\ D!Max(mine) = best
             /\ D!Min(mine) = first
             /\ best = first <=> r[best].offset = 0
<1> DEFINE mine == {k \in DOMAIN r : r[k].line = pos.line /\ r[k].offset <= pos.colStart}
<1>1. DOMAIN r = 1 .. Len(r) /\ Len(r) \in Nat /\ r \in Seq(TextRow) /\ pos.colStart \in Nat
  BY DEF Mapped, TextPosition
<1>2. ASSUME NEW k \in 1 .. Len(r) PROVE r[k].line \in Nat /\ r[k].offset \in Nat
  <2>1. r[k] \in TextRow
    BY <1>1, <1>2
  <2> QED BY <2>1 DEF TextRow
<1>3. /\ best \in 1 .. Len(r) /\ r[best].line = pos.line /\ r[best].offset <= pos.colStart
      /\ first \in 1 .. Len(r) /\ first <= best /\ r[first].line = pos.line /\ r[first].offset = 0
  BY <1>1 DEF DrawnAt
<1>4. \A j, k \in 1 .. Len(r) : j < k => Before(r[j], r[k])
  BY DEF Mapped
<1>5. best \in mine /\ first \in mine /\ mine \subseteq 1 .. Len(r)
  BY <1>1, <1>3
<1>6. ASSUME NEW k \in mine PROVE k <= best
  <2>1. k \in 1 .. Len(r) /\ r[k].line = pos.line /\ r[k].offset <= pos.colStart
    BY <1>1, <1>6
  <2>2. r[k].line \in Nat /\ r[k].offset \in Nat
    BY <1>2, <2>1
  <2>3. ~D!Past(r[k], pos)
    BY <1>1, <2>1, <2>2 DEF D!Past
  <2>4. ~(best < k)
    BY <2>1, <2>3 DEF DrawnAt
  <2> QED BY <1>3, <2>1, <2>4
<1>7. ASSUME NEW k \in mine PROVE first <= k
  <2>1. k \in 1 .. Len(r) /\ r[k].line = pos.line
    BY <1>1, <1>7
  <2>2. r[k].line \in Nat /\ r[k].offset \in Nat
    BY <1>2, <2>1
  <2>3. ~(k < first)
    <3>1. SUFFICES ASSUME k < first PROVE FALSE
      OBVIOUS
    <3>2. Before(r[k], r[first])
      BY <1>3, <1>4, <2>1, <3>1
    <3> QED BY <1>3, <2>1, <2>2, <3>2 DEF Before
  <2> QED BY <1>3, <2>1, <2>3
<1>8. best = first <=> r[best].offset = 0
  <2>1. CASE best = first
    BY <1>3, <2>1
  <2>2. CASE best # first
    <3>1. first < best
      BY <1>3, <2>2
    <3>2. Before(r[first], r[best])
      BY <1>3, <1>4, <3>1
    <3>3. r[best].line \in Nat /\ r[best].offset \in Nat /\ r[first].line \in Nat
      BY <1>2, <1>3
    <3> QED BY <1>3, <2>2, <3>2, <3>3 DEF Before
  <2> QED BY <2>1, <2>2
<1> HIDE DEF mine
<1>9. D!Max(mine) = best
  <2>1. mine \subseteq Int
    BY <1>5
  <2> QED BY <1>5, <1>6, <2>1, MaxIs
<1>10. D!Min(mine) = first
  <2>1. mine \subseteq Int
    BY <1>5
  <2> QED BY <1>5, <1>7, <2>1, MinIs
<1> QED BY <1>8, <1>9, <1>10 DEF mine

\* The columns of a position on the row that draws it.
Shift(offset) == IF offset > 0 THEN D!Indicator - offset ELSE 0

LEMMA ToVisualIs ==
  ASSUME NEW n \in Nat, NEW r, Mapped(r, n), NEW pos \in TextPosition,
         NEW best, NEW first, DrawnAt(r, pos, best, first)
  PROVE  D!ToVisual(r, pos) =
           [line |-> best - 1, colStart |-> pos.colStart + Shift(r[best].offset),
            colEnd |-> pos.colEnd + Shift(r[best].offset)]
<1> DEFINE past == {i \in DOMAIN r : D!Past(r[i], pos)}
           at == (IF past = {} THEN Len(r) + 1 ELSE D!Min(past)) - 1
<1>1. DOMAIN r = 1 .. Len(r) /\ Len(r) \in Nat
  BY DEF Mapped
<1>2. best \in 1 .. Len(r) /\ r[best].line = pos.line
      /\ \A k \in 1 .. Len(r) : D!Past(r[k], pos) <=> best < k
  BY DEF DrawnAt
<1>3. past = (best + 1) .. Len(r)
  BY <1>1, <1>2
<1> HIDE DEF past
<1>4. at = best
  <2>1. CASE best = Len(r)
    <3>1. past = {}
      BY <1>1, <1>3, <2>1
    <3> QED BY <1>1, <2>1, <3>1
  <2>2. CASE best # Len(r)
    <3>1. best + 1 \in past /\ past \subseteq Int /\ \A k \in past : best + 1 <= k
      BY <1>1, <1>2, <1>3, <2>2
    <3>2. D!Min(past) = best + 1
      BY <3>1, MinIs
    <3> QED BY <1>1, <1>2, <3>1, <3>2
  <2> QED BY <2>1, <2>2
<1>5. D!ToVisual(r, pos) =
        LET shift == IF r[at].offset > 0 THEN D!Indicator - r[at].offset ELSE 0
        IN  IF at = 0 \/ r[at].line # pos.line THEN pos
            ELSE [line |-> at - 1, colStart |-> pos.colStart + shift, colEnd |-> pos.colEnd + shift]
  BY DEF D!ToVisual, past
<1> HIDE DEF at
<1> QED BY <1>1, <1>2, <1>4, <1>5 DEF Shift

\* Clamped, an offset is in the text, and a line that is made visible is in the window.
LEMMA RowInWindow ==
  ASSUME NEW count \in Int, NEW h \in Int, NEW line \in 0 .. (count - 1), NEW a \in Int, 0 < h
  PROVE  LET from == D!Between0(a, count - h)
             at == IF line < from \/ line >= from + h THEN D!Between0(line, count - h) ELSE from
         IN  at <= line /\ line < at + h
BY DEF D!Between0

LEMMA ColumnInWindow ==
  ASSUME NEW longest \in Int, NEW w \in Int, NEW start \in Nat, NEW end \in Int, NEW step \in Nat,
         step < w, start < end, start < longest
  PROVE  LET at == IF end <= w THEN 0 ELSE D!Between0(start - step, longest - w)
         IN  at <= start /\ start < at + w
BY DEF D!Between0

LEMMA BetweenInt ==
  ASSUME NEW a \in Int, NEW top \in Int
  PROVE  D!Between0(a, top) \in Int
BY DEF D!Between0

\* A line at most as long as the longest, laid out or not.
LEMMA LongestLine ==
  ASSUME NEW t \in Seq(Line), NEW n \in 1 .. Len(t)
  PROVE  LET most == D!Max({0} \cup {D!Width(line) : line \in D!ToSet(t)})
         IN  most \in Int /\ D!Width(t[n]) <= most
<1> DEFINE l == Len(t)
           f == [k \in 1 .. (l + 1) |-> IF k = l + 1 THEN 0 ELSE D!Width(t[k])]
<1>1. l \in Nat /\ DOMAIN t = 1 .. l /\ n \in 1 .. l /\ l + 1 \in Nat \ {0}
  OBVIOUS
<1>2. ASSUME NEW k \in 1 .. l PROVE D!Width(t[k]) \in Nat
  <2>1. t[k] \in Line
    BY <1>1, <1>2
  <2>2. Len(t[k]) \in 0 .. Len(t[k])
    BY <2>1 DEF Line
  <2> QED BY <2>1, <2>2, ColumnsAre DEF D!Width
<1>3. D!ToSet(t) = {t[i] : i \in 1 .. l}
  BY <1>1 DEF D!ToSet, D!Range
<1> DEFINE W(line) == D!Width(line)
<1> HIDE DEF l, W
<1>4. f \in [1 .. (l + 1) -> Int]
  BY <1>1, <1>2
<1>5. {f[k] : k \in 1 .. (l + 1)} = {0} \cup {D!Width(line) : line \in D!ToSet(t)}
  <2>1. ASSUME NEW k \in 1 .. (l + 1) PROVE f[k] \in {0} \cup {D!Width(line) : line \in D!ToSet(t)}
    <3>1. CASE k = l + 1
      BY <2>1, <3>1
    <3>2. CASE k # l + 1
      <4>1. k \in 1 .. l
        BY <1>1, <2>1, <3>2
      <4>2. t[k] \in D!ToSet(t) /\ f[k] = D!Width(t[k])
        BY <1>3, <2>1, <3>2, <4>1
      <4> QED BY <4>2
    <3> QED BY <3>1, <3>2
  <2>2. f[l + 1] = 0 /\ l + 1 \in 1 .. (l + 1)
    BY <1>1
  <2>3. ASSUME NEW line \in D!ToSet(t) PROVE \E k \in 1 .. (l + 1) : f[k] = D!Width(line)
    <3>1. PICK k \in 1 .. l : t[k] = line
      BY <1>3
    <3>2. k \in 1 .. (l + 1) /\ k # l + 1
      BY <1>1
    <3>3. f[k] = D!Width(line)
      BY <3>1, <3>2
    <3> QED BY <3>2, <3>3
  <2> HIDE DEF f
  <2> QED BY <2>1, <2>2, <2>3
<1>6. f[n] = D!Width(t[n]) /\ n \in 1 .. (l + 1) /\ f[n] \in Int
  BY <1>1, <1>2
<1> HIDE DEF f
<1>7. LET most == D!Max({f[k] : k \in 1 .. (l + 1)}) IN most \in Int /\ f[n] <= most
  BY <1>1, <1>4, <1>6, GreatestOf
<1> QED BY <1>5, <1>6, <1>7

-----------------------------------------------------------------------------
(* The text: what is always so.                                            *)

Sizes ==
    /\ width \in Int /\ height \in Int /\ borderless \in BOOLEAN /\ showHeader \in BOOLEAN

Pats == search \in Searches \cup {None}

Raw == raw \in Seq(Line) /\ raw # << >>

Hits == IF search = None THEN << >> ELSE D!FindAll(search, D!Join(D!Text))

\* The positions are those of the matches, unless the viewport has the highlights.
Fitting ==
    positions = IF search # None /\ ~softWrap /\ ~coloured THEN << >>
                ELSE D!MatchPositions(D!Text, Hits)

Laid ==
    /\ text \in Seq(Line) /\ wrapped \in Seq(TextRow)
    /\ positions \in Seq(TextPosition) /\ index \in Int
    /\ marks \in [at : Seq(TextPosition), index : Int]
    /\ down \in Int

TextInv == Sizes /\ Pats /\ Raw /\ Laid /\ (raw # D!NoText => Fitting)

LEMMA TextsAreLines ==
  /\ Seq(Seq(STRING)) \subseteq Seq(Line)
  /\ Seq(STRING) \subseteq Line
<1>1. ASSUME NEW s \in Seq(STRING) PROVE s \in Line
  <2>1. s \in Seq(Char)
    BY DEF Char
  <2> QED BY <2>1 DEF Line
<1>2. ASSUME NEW t \in Seq(Seq(STRING)) PROVE t \in Seq(Line)
  BY <1>1
<1> QED BY <1>1, <1>2

LEMMA SearchIsLine ==
  ASSUME NEW p \in Searches
  PROVE  p \in Line /\ p # << >>
BY TextsAreLines, TextAssumption

\* What is found in a text, and where.
LEMMA FoundIn ==
  ASSUME NEW t \in Seq(Line), t # << >>, NEW p \in Searches \cup {None}
  PROVE  LET found == IF p = None THEN << >> ELSE D!FindAll(p, D!Join(t))
         IN  /\ D!LineStart(t, Len(t)) - 1 \in Nat
             /\ found \in Seq(Found(D!LineStart(t, Len(t)) - 1))
             /\ D!MatchPositions(t, found) \in Seq(TextPosition)
             /\ D!MatchStarts(t, found) \in Seq(TextPosition)
<1> DEFINE bytes == D!LineStart(t, Len(t)) - 1
           found == IF p = None THEN << >> ELSE D!FindAll(p, D!Join(t))
<1>1. D!Join(t) \in Line /\ Len(D!Join(t)) = bytes
  BY JoinedLines
<1>2. bytes \in Nat
  BY <1>1 DEF Line
<1> HIDE DEF bytes
<1>3. found \in Seq(Found(bytes))
  <2>1. CASE p = None
    BY <2>1
  <2>2. CASE p # None
    <3>1. p \in Line /\ p # << >>
      BY <2>2, SearchIsLine
    <3>2. D!FindAll(p, D!Join(t)) \in Seq(Found(bytes))
      BY <1>1, <3>1, FindAllIn
    <3> QED BY <2>2, <3>2
  <2> QED BY <2>1, <2>2
<1> HIDE DEF found
<1>4. D!MatchPositions(t, found) \in Seq(TextPosition)
  BY <1>2, <1>3, PositionsAre
<1>5. D!MatchStarts(t, found) \in Seq(TextPosition)
  BY <1>3, StartsAre DEF bytes
<1> QED BY <1>2, <1>3, <1>4, <1>5 DEF bytes, found

LEMMA NearestIs ==
  ASSUME NEW at \in Seq(TextPosition), NEW from
  PROVE  /\ D!Nearest(at, from) \in Int
         /\ D!Nearest(at, from) # -1 => D!Nearest(at, from) + 1 \in 1 .. Len(at)
<1> DEFINE near == {k \in DOMAIN at : at[k].line >= from}
<1>1. D!Nearest(at, from) = IF near = {} THEN -1 ELSE D!Min(near) - 1
  BY DEF D!Nearest
<1>2. near \subseteq 1 .. Len(at) /\ Len(at) \in Nat
  OBVIOUS
<1> HIDE DEF near
<1>3. CASE near = {}
  BY <1>1, <1>3
<1>4. CASE near # {}
  <2>1. near \subseteq Nat /\ near \subseteq Int
    BY <1>2
  <2>2. PICK m \in near : \A k \in near : m <= k
    BY <1>4, <2>1, LeastNat
  <2>3. D!Min(near) = m
    BY <2>1, <2>2, MinIs
  <2>4. m \in 1 .. Len(at)
    BY <1>2
  <2> QED BY <1>1, <1>2, <1>4, <2>3, <2>4
<1> QED BY <1>3, <1>4

LEMMA TurnIs ==
  ASSUME NEW k \in Int, NEW by \in Int, NEW n \in Nat \ {0}
  PROVE  D!Turn(k, by, n) \in 0 .. (n - 1)
BY DEF D!Turn

\* The offset of a view of some lines, whatever the lines.
LEMMA OffsetInt ==
  ASSUME text' \in Seq(Line), wrapped' \in Seq(TextRow), D!ViewHeight' \in Int,
         NEW a \in Int, NEW line \in Int
  PROVE  D!ClampY(a) \in Int /\ D!VisibleY(line, a) \in Int
<1>1. D!LineCount' \in Int
  BY DEF D!LineCount
<1>2. \A b \in Int : D!ClampY(b) \in Int
  BY <1>1, BetweenInt DEF D!ClampY
<1> QED BY <1>2 DEF D!VisibleY

LEMMA HeightInt ==
  (Sizes => D!ViewHeight \in Int /\ D!ViewWidth \in Int)
BY DEF Sizes, D!ViewHeight, D!ViewWidth

LEMMA HeightIntNext ==
  (Sizes' => D!ViewHeight' \in Int /\ D!ViewWidth' \in Int)
BY DEF Sizes, D!ViewHeight, D!ViewWidth

LEMMA ShowLays ==
  ASSUME NEW t \in Seq(Line), D!Show(t)
  PROVE  text' \in Seq(Line) /\ wrapped' \in Seq(TextRow)
<1>1. Mapped(D!WrapLines(t, D!ViewWidth'), Len(t))
  BY WrapLinesMap
<1>2. D!WrapLines(t, D!ViewWidth') \in Seq(TextRow)
  BY <1>1 DEF Mapped
<1>3. wrapped' = IF softWrap' THEN D!WrapLines(t, D!ViewWidth') ELSE << >>
  BY DEF D!Show
<1>4. text' = IF t = D!NoText THEN << >> ELSE t
  BY DEF D!Show
<1>5. << >> \in Seq(TextRow) /\ << >> \in Seq(Line)
  OBVIOUS
<1> QED BY <1>2, <1>3, <1>4, <1>5

LEMMA ReapplyLays ==
  ASSUME Raw', Pats', Sizes', NEW y0 \in Int, NEW x0, NEW reset \in BOOLEAN,
         D!Reapply(y0, x0, reset)
  PROVE  Laid' /\ Fitting'
<1> DEFINE t == D!Filtered(raw', filter')
           found == IF search' = None THEN << >> ELSE D!FindAll(search', D!Join(t))
           starts == D!MatchStarts(t, found)
           plain == search' # None /\ ~softWrap' /\ ~coloured'
<1>1. t \in Seq(Line) /\ t # << >>
  BY FilteredIsText DEF Raw
<1>2. D!Text' = t
  BY DEF D!Text
<1>3. search' \in Searches \cup {None}
  BY DEF Pats
<1>4. /\ D!Show(t)
      /\ positions' = IF plain THEN << >> ELSE D!MatchPositions(t, found)
      /\ index' = IF positions' = << >> THEN -1 ELSE 0
      /\ marks' = IF plain /\ t # D!NoText
                  THEN [at |-> starts, index |-> D!Nearest(starts, D!ClampY(y0))]
                  ELSE [at |-> << >>, index |-> -1]
      /\ IF marks'.index = -1 \/ reset
         THEN down' = D!ClampY(y0)
         ELSE down' = D!VisibleY(starts[marks'.index + 1].line, D!ClampY(y0))
  BY DEF D!Reapply
<1> HIDE DEF t
<1>5. D!MatchPositions(t, found) \in Seq(TextPosition) /\ starts \in Seq(TextPosition)
  BY <1>1, <1>3, FoundIn
<1>6. text' \in Seq(Line) /\ wrapped' \in Seq(TextRow)
  BY <1>1, <1>4, ShowLays
<1>7. D!ViewHeight' \in Int
  BY HeightIntNext
<1>8. Fitting'
  BY <1>2, <1>4 DEF Fitting, Hits
<1> HIDE DEF found, starts
<1>9. \A a \in Int : D!ClampY(a) \in Int
  BY <1>6, <1>7, OffsetInt
<1>10. positions' \in Seq(TextPosition) /\ index' \in Int
  BY <1>4, <1>5
<1>11. D!Nearest(starts, D!ClampY(y0)) \in Int
       /\ (D!Nearest(starts, D!ClampY(y0)) # -1 => D!Nearest(starts, D!ClampY(y0)) + 1 \in 1 .. Len(starts))
  BY <1>5, NearestIs
<1>12. marks' \in [at : Seq(TextPosition), index : Int]
  BY <1>4, <1>5, <1>11
<1>13. down' \in Int
  <2>1. CASE marks'.index = -1 \/ reset
    BY <1>4, <1>9, <2>1
  <2>2. CASE ~(marks'.index = -1 \/ reset)
    <3>1. marks'.index + 1 \in 1 .. Len(starts)
      BY <1>4, <1>11, <2>2
    <3>2. starts[marks'.index + 1] \in TextPosition
      BY <1>5, <3>1
    <3>3. starts[marks'.index + 1].line \in Int
      BY <3>2 DEF TextPosition
    <3>4. D!VisibleY(starts[marks'.index + 1].line, D!ClampY(y0)) \in Int
      BY <1>6, <1>7, <1>9, <3>3, OffsetInt
    <3> QED BY <1>4, <2>2, <3>4
  <2> QED BY <2>1, <2>2
<1>14. Laid'
  BY <1>6, <1>10, <1>12, <1>13 DEF Laid
<1> QED BY <1>8, <1>14

\* What is painted is what is matched.
LEMMA PaintedExact == ASSUME TextInv PROVE D!MatchesAreExact
<1>1. SUFFICES ASSUME raw # D!NoText, search # None, softWrap \/ coloured
               PROVE  D!Painted = D!Matched
  BY DEF D!MatchesAreExact
<1> DEFINE t == D!Text
           found == D!FindAll(search, D!Join(t))
           bytes == D!LineStart(t, Len(t)) - 1
<1>2. t \in Seq(Line) /\ t # << >>
  BY FilteredIsText DEF TextInv, Raw, D!Text
<1>3. search \in Searches
  BY <1>1 DEF TextInv, Pats
<1>4. bytes \in Nat /\ found \in Seq(Found(bytes)) /\ D!MatchPositions(t, found) \in Seq(TextPosition)
  <2> HIDE DEF t
  <2> QED BY <1>1, <1>2, <1>3, FoundIn
<1>5. positions = D!MatchPositions(t, found)
  BY <1>1 DEF TextInv, Fitting, Hits
<1>6. D!Matched = {c \in D!Characters : \E k \in DOMAIN found :
                     D!LineStart(t, c[1] - 1) + c[2] - 1 \in found[k][1] .. (found[k][2] - 1)}
  BY DEF D!Matched
<1>7. D!Painted = {c \in D!Characters : \E k \in DOMAIN positions :
                     /\ positions[k].line = c[1] - 1
                     /\ positions[k].colStart <= D!Columns(t[c[1]], c[2] - 1)
                     /\ D!Columns(t[c[1]], c[2] - 1) < positions[k].colEnd}
  BY DEF D!Painted, D!Column
<1>8. D!Characters = UNION {{<<n, j>> : j \in DOMAIN t[n]} : n \in DOMAIN t}
  BY DEF D!Characters
<1> HIDE DEF t, found, bytes
<1>9. ASSUME NEW c \in D!Characters PROVE c[1] \in 1 .. Len(t) /\ c[2] \in 1 .. Len(t[c[1]])
  <2>1. PICK n \in DOMAIN t : c \in {<<n, j>> : j \in DOMAIN t[n]}
    BY <1>8, <1>9
  <2>2. PICK j \in DOMAIN t[n] : c = <<n, j>>
    BY <2>1
  <2>3. t[n] \in Line /\ n \in 1 .. Len(t)
    BY <1>2, <2>1
  <2>4. j \in 1 .. Len(t[n])
    BY <2>2, <2>3 DEF Line
  <2> QED BY <2>2, <2>3, <2>4
<1>10. ASSUME NEW c \in D!Characters
       PROVE  (\E k \in DOMAIN positions :
                 /\ positions[k].line = c[1] - 1
                 /\ positions[k].colStart <= D!Columns(t[c[1]], c[2] - 1)
                 /\ D!Columns(t[c[1]], c[2] - 1) < positions[k].colEnd)
              <=> \E k \in DOMAIN found :
                     D!LineStart(t, c[1] - 1) + c[2] - 1 \in found[k][1] .. (found[k][2] - 1)
  <2>1. c[1] \in 1 .. Len(t) /\ c[2] \in 1 .. Len(t[c[1]])
    BY <1>9, <1>10
  <2>2. (\E x : Has(positions, x) /\ PutOver(x, t, c[1], c[2])) <=>
          \E k \in 1 .. Len(found) :
            D!LineStart(t, c[1] - 1) + c[2] - 1 \in found[k][1] .. (found[k][2] - 1)
    BY <1>2, <1>4, <1>5, <2>1, PositionsCover
  <2>3. DOMAIN positions = 1 .. Len(positions) /\ DOMAIN found = 1 .. Len(found)
    BY <1>4, <1>5
  <2>4. (\E x : Has(positions, x) /\ PutOver(x, t, c[1], c[2])) <=>
          \E k \in DOMAIN positions : PutOver(positions[k], t, c[1], c[2])
    BY <2>3 DEF Has
  <2>5. (\E k \in DOMAIN positions : PutOver(positions[k], t, c[1], c[2])) <=>
          \E k \in DOMAIN positions :
                 /\ positions[k].line = c[1] - 1
                 /\ positions[k].colStart <= D!Columns(t[c[1]], c[2] - 1)
                 /\ D!Columns(t[c[1]], c[2] - 1) < positions[k].colEnd
    BY DEF PutOver
  <2> QED BY <2>2, <2>3, <2>4, <2>5
<1> QED BY <1>6, <1>7, <1>10

\* The positions are on lines of the text, and end on them.
OnLine(pos, t) ==
    pos \in TextPosition /\ pos.line < Len(t) /\ pos.colEnd <= D!Width(t[pos.line + 1])

LEMMA PositionsOnLines ==
  ASSUME TextInv, raw # D!NoText, NEW k \in 1 .. Len(positions)
  PROVE  /\ D!Text \in Seq(Line) /\ D!Text # << >> /\ D!Text # D!NoText
         /\ OnLine(positions[k], D!Text)
<1> DEFINE t == D!Text
           found == Hits
           bytes == D!LineStart(t, Len(t)) - 1
<1>1. t \in Seq(Line) /\ t # << >>
  BY FilteredIsText DEF TextInv, Raw, D!Text
<1>2. search \in Searches \cup {None}
  BY DEF TextInv, Pats
<1>3. found = IF search = None THEN << >> ELSE D!FindAll(search, D!Join(t))
  BY DEF Hits
<1>4. positions \in Seq(TextPosition)
  BY DEF TextInv, Laid
<1>5. positions # << >>
  BY <1>4
<1>6. positions = D!MatchPositions(t, found)
  BY <1>5 DEF TextInv, Fitting
<1> HIDE DEF t, found
<1>7. bytes \in Nat /\ found \in Seq(Found(bytes)) /\ D!MatchPositions(t, found) \in Seq(TextPosition)
  BY <1>1, <1>2, <1>3, FoundIn
<1> HIDE DEF bytes
<1>8. Has(D!MatchPositions(t, found), positions[k])
  BY <1>6 DEF Has
<1>9. IsSegment(positions[k], t, found)
  BY <1>1, <1>7, <1>8, PositionsAre
<1>10. PICK i \in 1 .. Len(found) : \E n \in D!MatchLines(t, found[i]) : positions[k] = D!Segment(t, found[i], n)
  BY <1>9 DEF IsSegment
<1>11. PICK n \in D!MatchLines(t, found[i]) : positions[k] = D!Segment(t, found[i], n)
  BY <1>10
<1>12. found[i] \in Found(bytes)
  BY <1>7
<1>13. /\ positions[k] \in TextPosition /\ positions[k].line = n /\ n + 1 \in 1 .. Len(t)
       /\ positions[k].colEnd <= D!Columns(t[n + 1], Len(t[n + 1]))
  BY <1>1, <1>7, <1>11, <1>12, SegmentCovers
<1>14. n \in Nat /\ Len(t) \in Nat
  BY <1>1, <1>13 DEF TextPosition
<1>15. OnLine(positions[k], t)
  BY <1>13, <1>14 DEF OnLine, D!Width
<1>16. t # D!NoText
  <2>1. SUFFICES ASSUME t = D!NoText PROVE FALSE
    OBVIOUS
  <2>2. Len(t) = 1 /\ Len(t[1]) = 0
    BY <2>1 DEF D!NoText
  <2>3. D!LineStart(t, 0) = 0 /\ D!LineStart(t, 1) = D!LineStart(t, 1 - 1) + Len(t[1]) + 1
    <3>1. 1 \in 1 .. Len(t)
      BY <2>2
    <3> QED BY <1>1, <3>1, LineStartsAre
  <2>4. 1 - 1 = 0
    OBVIOUS
  <2>5. bytes = 0
    BY <2>2, <2>3, <2>4 DEF bytes
  <2>6. found[i][1] \in Nat /\ found[i][2] \in Nat /\ found[i][1] < found[i][2] /\ found[i][2] <= 0
    BY <1>12, <2>5 DEF Found
  <2> QED BY <2>6
<1> QED BY <1>1, <1>15, <1>16 DEF t

\* A row of a text is as long as what it draws, its indicator included.
LEMMA LongestRow ==
  ASSUME NEW t \in Seq(Line), t # << >>, t # D!NoText, D!Show(t), softWrap',
         NEW pos, OnLine(pos, t), pos.colStart < pos.colEnd,
         NEW best, NEW first, DrawnAt(wrapped', pos, best, first)
  PROVE  D!Longest' \in Int /\ pos.colStart + Shift(wrapped'[best].offset) < D!Longest'
<1> DEFINE r == wrapped'
           end(k) == IF k < Len(r) /\ r[k + 1].line = r[k].line
                     THEN r[k + 1].offset ELSE D!Width(t[r[k].line + 1])
           size(k) == end(k) - r[k].offset + (IF r[k].offset > 0 THEN D!Indicator ELSE 0)
           f == [k \in 1 .. Len(r) |-> size(k)]
<1>1. text' = t /\ error' = FALSE /\ r = D!WrapLines(t, D!ViewWidth')
  BY DEF D!Show
<1>2. Mapped(r, Len(t))
  BY <1>1, WrapLinesMap
<1>3. r \in Seq(TextRow) /\ Len(r) \in Nat /\ DOMAIN r = 1 .. Len(r)
      /\ \A k \in 1 .. Len(r) : r[k].line < Len(t)
  BY <1>2 DEF Mapped
<1>4. /\ best \in 1 .. Len(r) /\ r[best].line = pos.line
      /\ \A k \in 1 .. Len(r) : D!Past(r[k], pos) <=> best < k
  BY DEF DrawnAt
<1>5. D!Wrapped'
  BY <1>1 DEF D!Wrapped
<1>6. D!Longest' = D!Max({size(k) : k \in DOMAIN r})
  BY <1>1, <1>5 DEF D!Longest, D!RowWidth
<1> HIDE DEF r
<1>7. ASSUME NEW k \in 1 .. Len(r) PROVE r[k].line \in Nat /\ r[k].offset \in Nat /\ r[k].line < Len(t)
  <2>1. r[k] \in TextRow
    BY <1>3, <1>7
  <2> QED BY <1>3, <1>7, <2>1 DEF TextRow
<1>8. ASSUME NEW k \in 1 .. Len(r) PROVE size(k) \in Int
  <2>1. r[k].line + 1 \in 1 .. Len(t)
    BY <1>7, <1>8
  <2>2. t[r[k].line + 1] \in Line
    BY <2>1
  <2>3. D!Width(t[r[k].line + 1]) \in Nat
    <3>1. Len(t[r[k].line + 1]) \in 0 .. Len(t[r[k].line + 1])
      BY <2>2 DEF Line
    <3> QED BY <2>2, <3>1, ColumnsAre DEF D!Width
  <2>4. end(k) \in Int
    <3>1. CASE k < Len(r) /\ r[k + 1].line = r[k].line
      <4>1. k + 1 \in 1 .. Len(r)
        BY <1>3, <1>8, <3>1
      <4>2. r[k + 1].offset \in Nat
        BY <1>7, <4>1
      <4> QED BY <3>1, <4>2
    <3>2. CASE ~(k < Len(r) /\ r[k + 1].line = r[k].line)
      BY <2>3, <3>2
    <3> QED BY <3>1, <3>2
  <2>5. r[k].offset \in Int
    BY <1>7, <1>8
  <2> HIDE DEF end
  <2> QED BY <2>4, <2>5 DEF D!Indicator
<1>9. pos.line \in Nat /\ pos.colStart \in Nat /\ pos.colEnd \in Nat /\ pos.line < Len(t)
      /\ pos.colEnd <= D!Width(t[pos.line + 1])
  BY DEF OnLine, TextPosition
<1>10. pos.colStart < end(best)
  <2>1. CASE best < Len(r) /\ r[best + 1].line = r[best].line
    <3>1. best + 1 \in 1 .. Len(r) /\ best < best + 1
      BY <1>3, <1>4, <2>1
    <3>2. D!Past(r[best + 1], pos)
      BY <1>4, <3>1
    <3>3. r[best + 1].offset > pos.colStart
      BY <1>4, <2>1, <3>2 DEF D!Past
    <3>4. r[best + 1].offset \in Nat
      BY <1>7, <3>1
    <3> QED BY <1>9, <2>1, <3>3, <3>4
  <2>2. CASE ~(best < Len(r) /\ r[best + 1].line = r[best].line)
    <3>1. t[pos.line + 1] \in Line
      BY <1>9
    <3>2. D!Width(t[pos.line + 1]) \in Nat
      <4>1. Len(t[pos.line + 1]) \in 0 .. Len(t[pos.line + 1])
        BY <3>1 DEF Line
      <4> QED BY <3>1, <4>1, ColumnsAre DEF D!Width
    <3>3. end(best) = D!Width(t[pos.line + 1])
      BY <1>4, <2>2
    <3> HIDE DEF end
    <3> QED BY <1>9, <3>2, <3>3
  <2> QED BY <2>1, <2>2
<1>11. size(best) = end(best) - r[best].offset + (IF r[best].offset > 0 THEN D!Indicator ELSE 0)
  OBVIOUS
<1>12. end(best) \in Int
  <2>1. size(best) \in Int /\ r[best].offset \in Nat
    BY <1>4, <1>7, <1>8
  <2>2. CASE best < Len(r) /\ r[best + 1].line = r[best].line
    <3>1. best + 1 \in 1 .. Len(r)
      BY <1>3, <1>4, <2>2
    <3> QED BY <1>7, <2>2, <3>1
  <2>3. CASE ~(best < Len(r) /\ r[best + 1].line = r[best].line)
    <3>1. r[best].line + 1 \in 1 .. Len(t)
      BY <1>4, <1>7
    <3>2. t[r[best].line + 1] \in Line
      BY <3>1
    <3>3. Len(t[r[best].line + 1]) \in 0 .. Len(t[r[best].line + 1])
      BY <3>2 DEF Line
    <3>4. D!Width(t[r[best].line + 1]) \in Nat
      BY <3>2, <3>3, ColumnsAre DEF D!Width
    <3> QED BY <2>3, <3>4
  <2> QED BY <2>2, <2>3
<1>13. f \in [1 .. Len(r) -> Int] /\ Len(r) \in Nat \ {0}
  <2>1. Len(r) \in Nat \ {0}
    BY <1>3, <1>4
  <2> HIDE DEF size
  <2>2. f \in [1 .. Len(r) -> Int]
    BY <1>8
  <2> QED BY <2>1, <2>2
<1> HIDE DEF size, end
<1>14. {f[k] : k \in 1 .. Len(r)} = {size(k) : k \in DOMAIN r} /\ f[best] = size(best)
  BY <1>3, <1>4
<1> HIDE DEF f
<1>15. D!Longest' \in Int /\ f[best] <= D!Longest'
  BY <1>4, <1>6, <1>13, <1>14, GreatestOf
<1>16. r[best].offset \in Nat
  BY <1>4, <1>7
<1>17. pos.colStart + Shift(r[best].offset) < size(best) /\ size(best) \in Int
  BY <1>9, <1>10, <1>11, <1>12, <1>16 DEF Shift, D!Indicator
<1>18. Shift(r[best].offset) \in Int
  BY <1>16 DEF Shift, D!Indicator
<1>19. pos.colStart + Shift(r[best].offset) < D!Longest'
  BY <1>9, <1>14, <1>15, <1>17, <1>18
<1> QED BY <1>15, <1>19 DEF r

\* Made visible, a position is in the window.
LEMMA VisibleRow ==
  ASSUME D!ViewHeight' \in Int, D!LineCount' \in Int, NEW line \in 0 .. (D!LineCount' - 1),
         NEW a \in Int, 0 < D!ViewHeight'
  PROVE  LET at == D!VisibleY(line, D!ClampY(a)) IN at <= line /\ line < at + D!ViewHeight'
BY RowInWindow DEF D!VisibleY, D!ClampY

LEMMA VisibleColumn ==
  ASSUME D!ViewWidth' \in Int, D!Longest' \in Int, ViewStep \in Nat, ViewStep < D!ViewWidth',
         NEW pos, pos.colStart \in Nat, pos.colEnd \in Int,
         pos.colStart < pos.colEnd, pos.colStart < D!Longest'
  PROVE  D!VisibleX(pos) <= pos.colStart /\ pos.colStart < D!VisibleX(pos) + D!ViewWidth'
BY ColumnInWindow DEF D!VisibleX, D!ClampX

\* n and N lead to a match that is then in the window.
LEMMA GoesThere ==
  ASSUME TextInv, raw # D!NoText, NEW k \in 0 .. (Len(positions) - 1), D!GoTo(k)
  PROVE  D!InWindow(positions[index + 1])'
<1> DEFINE p == positions[k + 1]
           t == D!Text
           pos == D!Place(p)
<1>1. positions \in Seq(TextPosition) /\ k + 1 \in 1 .. Len(positions) /\ down \in Int
  BY DEF TextInv, Laid
<1>2. t \in Seq(Line) /\ t # << >> /\ t # D!NoText /\ OnLine(p, t)
  BY <1>1, PositionsOnLines
<1>3. /\ positions' = positions /\ index' = k /\ softWrap' = softWrap
      /\ D!Show(t)
      /\ down' = D!VisibleY(pos.line, D!ClampY(down))
      /\ right' = D!VisibleX(pos)
  BY DEF D!GoTo, D!Text
<1>4. D!ViewHeight' \in Int /\ D!ViewWidth' \in Int
  <2>1. Sizes'
    BY DEF D!GoTo, D!size, TextInv, Sizes
  <2> QED BY <2>1, HeightIntNext
<1>5. text' = t /\ error' = FALSE /\ (softWrap => wrapped' = D!WrapLines(t, D!ViewWidth'))
  BY <1>2, <1>3 DEF D!Show
<1>6. pos = IF softWrap THEN D!ToVisual(wrapped', p) ELSE p
  BY DEF D!Place
<1>7. D!InWindow(positions[index + 1])' =
        LET at == D!Drawn(p)'
        IN  /\ 0 < D!ViewHeight' => down' <= at.row /\ at.row < down' + D!ViewHeight'
            /\ ViewStep < D!ViewWidth' /\ p.colStart < p.colEnd
                 => right' <= at.col /\ at.col < right' + D!ViewWidth'
  BY <1>3 DEF D!InWindow
<1>8. D!Drawn(p)' =
        LET mine == {i \in DOMAIN wrapped' : wrapped'[i].line = p.line /\ wrapped'[i].offset <= p.colStart}
            best == D!Max(mine)
        IN  IF ~softWrap' THEN [row |-> p.line, col |-> p.colStart]
            ELSE [row |-> best - 1,
                  col |-> p.colStart - wrapped'[best].offset
                            + (IF best = D!Min(mine) THEN 0 ELSE D!Indicator)]
  BY <1>3 DEF D!Drawn
<1>9. p \in TextPosition /\ p.line \in Nat /\ p.colStart \in Nat /\ p.colEnd \in Nat
      /\ p.line < Len(t) /\ p.colEnd <= D!Width(t[p.line + 1]) /\ Len(t) \in Nat
  BY <1>2 DEF OnLine, TextPosition
<1>10. ViewStep \in Nat
  BY TextAssumption
<1> HIDE DEF p, t, pos
\* It is enough that the position gone to is the one drawn.
<1>11. SUFFICES /\ D!LineCount' \in Int /\ pos.line \in 0 .. (D!LineCount' - 1)
                /\ pos.colStart \in Nat /\ pos.colEnd \in Int
                /\ p.colStart < p.colEnd
                     => /\ D!Longest' \in Int
                        /\ pos.colStart < D!Longest' /\ pos.colStart < pos.colEnd
                /\ D!Drawn(p)' = [row |-> pos.line, col |-> pos.colStart]
  <2>1. ASSUME 0 < D!ViewHeight' PROVE down' <= pos.line /\ pos.line < down' + D!ViewHeight'
    BY <1>1, <1>3, <1>4, <1>11, <2>1, VisibleRow
  <2>2. ASSUME ViewStep < D!ViewWidth', p.colStart < p.colEnd
        PROVE  right' <= pos.colStart /\ pos.colStart < right' + D!ViewWidth'
    BY <1>3, <1>4, <1>10, <1>11, <2>2, VisibleColumn
  <2>3. D!Drawn(p)'.row = pos.line /\ D!Drawn(p)'.col = pos.colStart
    BY <1>11
  <2> QED BY <1>7, <2>1, <2>2, <2>3
<1>12. CASE ~softWrap
  <2>1. pos = p
    BY <1>6, <1>12
  <2>2. ~D!Wrapped'
    BY <1>3, <1>12 DEF D!Wrapped
  <2>3. D!LineCount' = Len(t)
    BY <1>5, <2>2 DEF D!LineCount
  <2>4. D!Longest' = D!Max({0} \cup {D!Width(line) : line \in D!ToSet(t)})
    BY <1>5, <2>2 DEF D!Longest
  <2>5. p.line + 1 \in 1 .. Len(t)
    BY <1>9
  <2>6. D!Longest' \in Int /\ D!Width(t[p.line + 1]) <= D!Longest'
    BY <1>2, <2>4, <2>5, LongestLine
  <2>7. D!Width(t[p.line + 1]) \in Nat
    <3>1. t[p.line + 1] \in Line
      BY <1>2, <2>5
    <3>2. Len(t[p.line + 1]) \in 0 .. Len(t[p.line + 1])
      BY <3>1 DEF Line
    <3> QED BY <3>1, <3>2, ColumnsAre DEF D!Width
  <2>8. p.colStart < p.colEnd => p.colStart < D!Longest'
    BY <1>9, <2>6, <2>7
  <2>9. D!Drawn(p)' = [row |-> p.line, col |-> p.colStart]
    BY <1>3, <1>8, <1>12
  <2>10. p.line \in 0 .. (D!LineCount' - 1) /\ D!LineCount' \in Int
    BY <1>9, <2>3
  <2> QED BY <1>9, <2>1, <2>6, <2>8, <2>9, <2>10
<1>13. CASE softWrap
  <2> DEFINE r == wrapped'
  <2>1. Mapped(r, Len(t))
    BY <1>2, <1>5, <1>13, WrapLinesMap
  <2>2. PICK best \in 1 .. Len(r), first \in 1 .. Len(r) : DrawnAt(r, p, best, first)
    BY <1>9, <2>1, DrawnSomewhere
  <2>3. pos = [line |-> best - 1, colStart |-> p.colStart + Shift(r[best].offset),
               colEnd |-> p.colEnd + Shift(r[best].offset)]
    <3>1. pos = D!ToVisual(r, p)
      BY <1>6, <1>13
    <3> QED BY <1>9, <2>1, <2>2, <3>1, ToVisualIs
  <2>4. r \in Seq(TextRow) /\ r[best].offset <= p.colStart
    BY <2>1, <2>2 DEF Mapped, DrawnAt
  <2>5. r[best].offset \in Nat
    <3>1. r[best] \in TextRow
      BY <2>2, <2>4
    <3> QED BY <3>1 DEF TextRow
  <2>6. D!Wrapped' /\ D!LineCount' = Len(r)
    BY <1>2, <1>3, <1>5, <1>13 DEF D!Wrapped, D!LineCount
  <2>7. ASSUME p.colStart < p.colEnd
        PROVE  D!Longest' \in Int /\ p.colStart + Shift(r[best].offset) < D!Longest'
    BY <1>2, <1>3, <1>13, <2>2, <2>7, LongestRow
  <2> DEFINE mine == {i \in DOMAIN r : r[i].line = p.line /\ r[i].offset <= p.colStart}
  <2>8. D!Max(mine) = best /\ D!Min(mine) = first /\ (best = first <=> r[best].offset = 0)
    BY <1>9, <2>1, <2>2, MineAre
  <2>9. D!Drawn(p)' = [row |-> best - 1,
                       col |-> p.colStart - r[best].offset + (IF best = first THEN 0 ELSE D!Indicator)]
    BY <1>3, <1>8, <1>13, <2>8
  <2> HIDE DEF r, mine
  <2>10. p.colStart - r[best].offset + (IF best = first THEN 0 ELSE D!Indicator)
            = p.colStart + Shift(r[best].offset)
    <3>1. CASE best = first
      <4>1. r[best].offset = 0
        BY <2>8, <3>1
      <4>2. Shift(r[best].offset) = 0
        BY <4>1 DEF Shift
      <4> QED BY <1>9, <3>1, <4>1, <4>2
    <3>2. CASE best # first
      <4>1. r[best].offset > 0 /\ r[best].offset \in Nat
        BY <2>5, <2>8, <3>2
      <4> DEFINE o == r[best].offset
                 c == p.colStart
      <4>2. Shift(o) = 2 - o /\ o \in Nat /\ c \in Nat
        BY <1>9, <4>1 DEF Shift, D!Indicator
      <4> HIDE DEF o, c
      <4>3. c - o + 2 = c + Shift(o)
        BY <4>2
      <4> QED BY <3>2, <4>3 DEF o, c, D!Indicator
    <3> QED BY <3>1, <3>2
  <2>11. Shift(r[best].offset) \in Int /\ p.colStart + Shift(r[best].offset) \in Nat
    <3> DEFINE o == r[best].offset
    <3>1. o \in Nat /\ o <= p.colStart /\ p.colStart \in Nat
      BY <1>9, <2>4, <2>5
    <3> HIDE DEF o
    <3>2. Shift(o) \in Int /\ p.colStart + Shift(o) \in Nat
      <4>1. CASE o > 0
        <5>1. Shift(o) = 2 - o
          BY <4>1 DEF Shift, D!Indicator
        <5> QED BY <3>1, <5>1
      <4>2. CASE ~(o > 0)
        <5>1. Shift(o) = 0
          BY <4>2 DEF Shift
        <5> QED BY <3>1, <5>1
      <4> QED BY <4>1, <4>2
    <3> QED BY <3>2 DEF o
  <2>12. pos.line = best - 1 /\ pos.colStart = p.colStart + Shift(r[best].offset)
         /\ pos.colEnd = p.colEnd + Shift(r[best].offset)
    BY <2>3
  <2>13. Len(r) \in Nat /\ best \in 1 .. Len(r)
    BY <2>2, <2>4
  <2>14. D!LineCount' \in Int /\ pos.line \in 0 .. (D!LineCount' - 1)
    BY <2>6, <2>12, <2>13
  <2>15. pos.colStart \in Nat /\ pos.colEnd \in Int
    BY <1>9, <2>11, <2>12
  <2>16. p.colStart < p.colEnd => pos.colStart < pos.colEnd
    BY <1>9, <2>11, <2>12
  <2>17. D!Drawn(p)' = [row |-> pos.line, col |-> pos.colStart]
    BY <2>9, <2>10, <2>12
  <2>18. p.colStart < p.colEnd => D!Longest' \in Int /\ pos.colStart < D!Longest'
    BY <2>7, <2>12
  <2> QED BY <2>14, <2>15, <2>16, <2>17, <2>18
<1> QED BY <1>12, <1>13

LEMMA StepShows == ASSUME TextInv, NEW by \in {-1, 1}, D!SearchStep(by), raw # D!NoText, positions # << >>
                   PROVE  D!InWindow(positions[index + 1])'
<1>1. positions \in Seq(TextPosition) /\ index \in Int
  BY DEF TextInv, Laid
<1>2. Len(positions) \in Nat \ {0}
  BY <1>1
<1>3. D!Turn(index, by, Len(positions)) \in 0 .. (Len(positions) - 1)
  <2>1. by \in Int
    OBVIOUS
  <2> QED BY <1>1, <1>2, <2>1, TurnIs
<1>4. D!GoTo(D!Turn(index, by, Len(positions)))
  BY DEF D!SearchStep
<1> QED BY <1>3, <1>4, GoesThere

-----------------------------------------------------------------------------
(* The text: its steps.                                                    *)

LEMMA NoTextIsRaw == D!NoText \in Seq(Line) /\ D!NoText # << >>
BY DEF D!NoText, Line

LEMMA NoMarks == [at |-> << >>, index |-> -1] \in [at : Seq(TextPosition), index : Int]
OBVIOUS

\* What changes no text, pattern nor laying out, keeps the rest.
LEMMA Untouched ==
  ASSUME TextInv,
         UNCHANGED <<raw, coloured, text, filter, search, positions, index, softWrap, wrapped,
                     width, height, borderless, showHeader>>,
         marks' \in [at : Seq(TextPosition), index : Int], down' \in Int
  PROVE  TextInv'
BY DEF TextInv, Sizes, Pats, Raw, Laid, Fitting, Hits, D!Text

\* The marks of the viewport, after it scrolls.
LEMMA MarksKept ==
  ASSUME TextInv, NEW k \in Int
  PROVE  [marks EXCEPT !.index = k] \in [at : Seq(TextPosition), index : Int]
BY DEF TextInv, Laid

LEMMA TextInitInv == ASSUME D!Init PROVE TextInv
<1>1. raw = D!NoText /\ search = None /\ positions = << >> /\ index = 0
      /\ text = << >> /\ wrapped = << >> /\ down = 0 /\ borderless = FALSE /\ showHeader = TRUE
      /\ width \in PanelWidths /\ height \in PanelHeights
      /\ marks = [at |-> << >>, index |-> -1]
  BY DEF D!Init
<1>2. Sizes /\ Pats
  BY <1>1, TextAssumption DEF Sizes, Pats
<1>3. Raw
  BY <1>1, NoTextIsRaw DEF Raw
<1>4. Laid
  BY <1>1, NoMarks DEF Laid
<1> QED BY <1>1, <1>2, <1>3, <1>4 DEF TextInv

LEMMA SetModeKeeps == ASSUME TextInv, D!SetMode PROVE TextInv'
<1>1. raw' = D!NoText /\ search' = None /\ positions' = << >> /\ index' = -1
      /\ text' = << >> /\ wrapped' = wrapped /\ down' = 0
      /\ marks' = [at |-> << >>, index |-> -1]
  BY DEF D!SetMode, D!Blank
<1>2. Sizes' /\ Pats'
  BY <1>1 DEF D!SetMode, D!size, TextInv, Sizes, Pats
<1>3. Raw'
  BY <1>1, NoTextIsRaw DEF Raw
<1>4. Laid'
  BY <1>1, NoMarks DEF TextInv, Laid
<1> QED BY <1>1, <1>2, <1>3, <1>4 DEF TextInv

LEMMA SetLoadErrorKeeps == ASSUME TextInv, D!SetLoadError PROVE TextInv'
<1>1. /\ UNCHANGED <<raw, coloured, filter, search, positions, index, softWrap, wrapped,
                     width, height, borderless, showHeader>>
      /\ text' = << << >> >> /\ down' = 0 /\ marks' = [at |-> << >>, index |-> -1]
  BY DEF D!SetLoadError, D!content, D!patterns, D!matches, D!size
<1>2. << << >> >> \in Seq(Line)
  BY DEF Line
<1>3. Sizes' /\ Pats' /\ Raw'
  BY <1>1 DEF TextInv, Sizes, Pats, Raw
<1>4. Laid'
  BY <1>1, <1>2, NoMarks DEF TextInv, Laid
<1>5. raw' # D!NoText => Fitting'
  BY <1>1 DEF TextInv, Fitting, Hits, D!Text
<1> QED BY <1>3, <1>4, <1>5 DEF TextInv

LEMMA ClearContentKeeps == ASSUME TextInv, D!ClearContent PROVE TextInv'
<1>1. /\ UNCHANGED <<filter, search, positions, index, softWrap,
                     width, height, borderless, showHeader>>
      /\ raw' = D!NoText /\ text' = << >> /\ wrapped' = << >> /\ down' = 0
      /\ marks' = [at |-> << >>, index |-> -1]
  BY DEF D!ClearContent, D!Blank, D!patterns, D!matches, D!size
<1>2. Sizes' /\ Pats'
  BY <1>1 DEF TextInv, Sizes, Pats
<1>3. Raw'
  BY <1>1, NoTextIsRaw DEF Raw
<1>4. Laid'
  BY <1>1, NoMarks DEF TextInv, Laid
<1> QED BY <1>1, <1>2, <1>3, <1>4 DEF TextInv

\* Whatever applies the search again lays out all of it.
LEMMA ReapplyKeeps ==
  ASSUME Raw', Pats', Sizes', NEW y0 \in Int, NEW x0, NEW reset \in BOOLEAN,
         D!Reapply(y0, x0, reset)
  PROVE  TextInv'
BY ReapplyLays DEF TextInv

LEMMA SetContentKeeps ==
  ASSUME TextInv, NEW c \in Contents, NEW refresh \in BOOLEAN, D!SetContent(c, refresh)
  PROVE  TextInv'
<1>1. raw' = c.text
      /\ UNCHANGED <<filter, search, softWrap, width, height, borderless, showHeader>>
      /\ IF refresh THEN D!Reapply(0, 0, FALSE) ELSE D!Reapply(down, right, TRUE)
  BY DEF D!SetContent, D!patterns, D!size
<1>2. Sizes' /\ Pats'
  BY <1>1 DEF TextInv, Sizes, Pats
<1>3. Raw'
  <2>1. c.text \in Seq(Seq(STRING)) /\ c.text # << >>
    BY TextAssumption
  <2> QED BY <1>1, <2>1, TextsAreLines DEF Raw
<1>4. down \in Int
  BY DEF TextInv, Laid
<1>5. CASE refresh
  <2>1. D!Reapply(0, 0, FALSE)
    BY <1>1, <1>5
  <2>2. 0 \in Int /\ FALSE \in BOOLEAN
    OBVIOUS
  <2> QED BY <1>2, <1>3, <2>1, <2>2, ReapplyKeeps, Zenon
<1>6. CASE ~refresh
  <2>1. D!Reapply(down, right, TRUE)
    BY <1>1, <1>6
  <2> QED BY <1>2, <1>3, <1>4, <2>1, ReapplyKeeps
<1> QED BY <1>5, <1>6

LEMMA ApplySearchKeeps ==
  ASSUME TextInv, NEW p \in Searches \cup {None}, D!ApplySearch(p)
  PROVE  TextInv'
<1>1. search' = p /\ UNCHANGED <<raw, filter, softWrap, width, height, borderless, showHeader>>
      /\ D!Reapply(down, right, FALSE)
  BY DEF D!ApplySearch, D!content, D!size
<1>2. Sizes' /\ Pats' /\ Raw'
  BY <1>1 DEF TextInv, Sizes, Pats, Raw
<1>3. down \in Int
  BY DEF TextInv, Laid
<1> QED BY <1>1, <1>2, <1>3, ReapplyKeeps

LEMMA ApplyFilterKeeps == ASSUME TextInv, NEW p, D!ApplyFilter(p) PROVE TextInv'
<1>1. UNCHANGED <<raw, search, softWrap, width, height, borderless, showHeader>>
      /\ D!Reapply(down, right, FALSE)
  BY DEF D!ApplyFilter, D!content, D!size
<1>2. Sizes' /\ Pats' /\ Raw'
  BY <1>1 DEF TextInv, Sizes, Pats, Raw
<1>3. down \in Int
  BY DEF TextInv, Laid
<1> QED BY <1>1, <1>2, <1>3, ReapplyKeeps

LEMMA SearchTurnKeeps == ASSUME TextInv, NEW by \in {-1, 1}, D!SearchStep(by) PROVE TextInv'
<1>1. /\ positions \in Seq(TextPosition) /\ index \in Int /\ down \in Int /\ by \in Int
      /\ marks \in [at : Seq(TextPosition), index : Int]
  BY DEF TextInv, Laid
<1>2. ASSUME NEW k \in 0 .. (Len(positions) - 1), D!GoTo(k) PROVE TextInv'
  <2> DEFINE pos == D!Place(positions[k + 1])
             t == D!Text
  <2>1. /\ UNCHANGED <<raw, coloured, filter, search, positions, softWrap,
                       width, height, borderless, showHeader>>
        /\ index' = k /\ D!Show(t)
        /\ down' = D!VisibleY(pos.line, D!ClampY(down))
        /\ marks' = [at |-> << >>, index |-> -1]
    BY <1>2 DEF D!GoTo, D!content, D!patterns, D!size, D!Text
  <2>2. t \in Seq(Line)
    BY FilteredIsText DEF TextInv, Raw, D!Text
  <2>3. text' \in Seq(Line) /\ wrapped' \in Seq(TextRow)
    <3> HIDE DEF t
    <3> QED BY <2>1, <2>2, ShowLays
  <2>4. Sizes' /\ Pats' /\ Raw'
    BY <2>1 DEF TextInv, Sizes, Pats, Raw
  <2>5. D!ViewHeight' \in Int
    BY <2>4, HeightIntNext
  <2>6. positions[k + 1] \in TextPosition
    <3>1. k + 1 \in 1 .. Len(positions)
      BY <1>1, <1>2
    <3> QED BY <1>1, <3>1
  <2>7. pos.line \in Int
    <3> DEFINE p == positions[k + 1]
               r == wrapped'
               past == {i \in DOMAIN r : D!Past(r[i], p)}
               best == (IF past = {} THEN Len(r) + 1 ELSE D!Min(past)) - 1
    <3>1. p.line \in Int
      BY <2>6 DEF TextPosition
    <3>2. best \in Int
      <4>1. DOMAIN r = 1 .. Len(r) /\ Len(r) \in Nat
        BY <2>3
      <4>2. past \subseteq Nat /\ past \subseteq Int
        BY <4>1
      <4>3. CASE past # {}
        <5> HIDE DEF past
        <5>1. PICK m \in past : \A i \in past : m <= i
          BY <4>2, <4>3, LeastNat
        <5>2. D!Min(past) = m
          BY <4>2, <5>1, MinIs
        <5> QED BY <4>2, <4>3, <5>1, <5>2
      <4>4. CASE past = {}
        BY <4>1, <4>4
      <4> QED BY <4>3, <4>4
    <3>3. pos.line = p.line \/ pos.line = best - 1
      BY DEF D!Place, D!ToVisual
    <3> HIDE DEF p, best, pos
    <3> QED BY <3>1, <3>2, <3>3
  <2>8. down' \in Int
    <3>1. D!ClampY(down) \in Int
      BY <1>1, <2>3, <2>5, OffsetInt
    <3> HIDE DEF pos
    <3> QED BY <2>1, <2>3, <2>5, <2>7, <3>1, OffsetInt
  <2>9. Laid'
    BY <1>1, <1>2, <2>1, <2>3, <2>8, NoMarks DEF Laid
  <2>10. raw' # D!NoText => Fitting'
    BY <2>1 DEF TextInv, Fitting, Hits, D!Text
  <2> QED BY <2>4, <2>9, <2>10 DEF TextInv
<1>3. ASSUME NEW k \in 0 .. (Len(marks.at) - 1), D!GoToMark(k) PROVE TextInv'
  <2>1. /\ UNCHANGED <<raw, coloured, text, filter, search, positions, index, softWrap, wrapped,
                       width, height, borderless, showHeader>>
        /\ marks' = [marks EXCEPT !.index = k]
        /\ down' = D!VisibleY(marks.at[k + 1].line, down)
    BY <1>3 DEF D!GoToMark, D!content, D!patterns, D!matches, D!size
  <2>2. marks.at[k + 1].line \in Int
    <3>1. marks.at \in Seq(TextPosition)
      BY <1>1
    <3>2. k + 1 \in 1 .. Len(marks.at)
      BY <1>3, <3>1
    <3>3. marks.at[k + 1] \in TextPosition
      BY <3>1, <3>2
    <3> QED BY <3>3 DEF TextPosition
  <2>3. text' \in Seq(Line) /\ wrapped' \in Seq(TextRow) /\ Sizes'
    BY <2>1 DEF TextInv, Laid, Sizes
  <2>4. D!ViewHeight' \in Int
    BY <2>3, HeightIntNext
  <2>5. down' \in Int
    BY <1>1, <2>1, <2>2, <2>3, <2>4, OffsetInt
  <2>6. marks' \in [at : Seq(TextPosition), index : Int]
    BY <1>3, <2>1, MarksKept
  <2> QED BY <2>1, <2>5, <2>6, Untouched
<1>4. CASE positions # << >> /\ D!GoTo(D!Turn(index, by, Len(positions)))
  <2>1. Len(positions) \in Nat \ {0}
    BY <1>1, <1>4
  <2>2. D!Turn(index, by, Len(positions)) \in 0 .. (Len(positions) - 1)
    BY <1>1, <2>1, TurnIs
  <2> QED BY <1>2, <1>4, <2>2
<1>5. CASE marks.at # << >> /\ D!GoToMark(D!Turn(marks.index, by, Len(marks.at)))
  <2>1. Len(marks.at) \in Nat \ {0} /\ marks.index \in Int
    BY <1>1, <1>5
  <2>2. D!Turn(marks.index, by, Len(marks.at)) \in 0 .. (Len(marks.at) - 1)
    BY <1>1, <2>1, TurnIs
  <2> QED BY <1>3, <1>5, <2>2
<1> QED BY <1>4, <1>5 DEF D!SearchStep

LEMMA ScrollToKeeps == ASSUME TextInv, NEW a \in Int, D!ScrollTo(a) PROVE TextInv'
<1>1. /\ UNCHANGED <<raw, coloured, text, filter, search, positions, index, softWrap, wrapped,
                     width, height, borderless, showHeader>>
      /\ down' = D!ClampY(a)
      /\ marks' = [marks EXCEPT !.index = D!Nearest(marks.at, down')]
  BY DEF D!ScrollTo, D!Scrolled, D!content, D!patterns, D!matches, D!size
<1>2. text' \in Seq(Line) /\ wrapped' \in Seq(TextRow) /\ Sizes'
  BY <1>1 DEF TextInv, Laid, Sizes
<1>3. D!ViewHeight' \in Int
  BY <1>2, HeightIntNext
<1>4. down' \in Int
  BY <1>1, <1>2, <1>3, OffsetInt
<1>5. marks.at \in Seq(TextPosition)
  BY DEF TextInv, Laid
<1>6. marks' \in [at : Seq(TextPosition), index : Int]
  BY <1>1, <1>5, NearestIs, MarksKept
<1> QED BY <1>1, <1>4, <1>6, Untouched

LEMMA ScrollXKeeps == ASSUME TextInv, NEW a, D!ScrollX(a) PROVE TextInv'
<1>1. UNCHANGED <<raw, coloured, text, filter, search, positions, index, softWrap, wrapped,
                  width, height, borderless, showHeader, down, marks>>
  BY DEF D!ScrollX, D!Scrolled, D!content, D!patterns, D!matches, D!size
<1>2. down' \in Int /\ marks' \in [at : Seq(TextPosition), index : Int]
  BY <1>1 DEF TextInv, Laid
<1> QED BY <1>1, <1>2, Untouched

LEMMA ToggleWrapKeeps == ASSUME TextInv, D!ToggleWrap PROVE TextInv'
<1>1. UNCHANGED <<raw, filter, search, width, height, borderless, showHeader>>
      /\ D!Reapply(down, IF softWrap' THEN 0 ELSE right, FALSE)
  BY DEF D!ToggleWrap, D!content, D!patterns, D!size
<1>2. Sizes' /\ Pats' /\ Raw'
  BY <1>1 DEF TextInv, Sizes, Pats, Raw
<1>3. down \in Int
  BY DEF TextInv, Laid
<1> QED BY <1>1, <1>2, <1>3, ReapplyKeeps

LEMMA ResizeTextKeeps ==
  ASSUME TextInv, NEW w \in Int, NEW h \in Int, NEW b \in BOOLEAN, NEW header \in BOOLEAN,
         D!Resize(w, h, b, header)
  PROVE  TextInv'
<1>1. /\ width' = w /\ height' = h /\ borderless' = b /\ showHeader' = header
      /\ UNCHANGED <<raw, coloured, filter, search, softWrap>>
      /\ IF softWrap THEN D!Reapply(down, right, FALSE)
         ELSE UNCHANGED <<text, error, positions, index, wrapped, marks, down, right>>
  BY DEF D!Resize, D!content, D!patterns, D!matches
<1>2. Sizes' /\ Pats' /\ Raw'
  BY <1>1 DEF TextInv, Sizes, Pats, Raw
<1>3. down \in Int
  BY DEF TextInv, Laid
<1>4. CASE softWrap
  BY <1>1, <1>2, <1>3, <1>4, ReapplyKeeps
<1>5. CASE ~softWrap
  <2>1. UNCHANGED <<text, positions, index, wrapped, marks, down>>
    BY <1>1, <1>5
  <2>2. Laid'
    BY <2>1 DEF TextInv, Laid
  <2>3. raw' # D!NoText => Fitting'
    BY <1>1, <2>1 DEF TextInv, Fitting, Hits, D!Text
  <2> QED BY <1>2, <2>2, <2>3 DEF TextInv
<1> QED BY <1>4, <1>5

TextSteps ==
    \/ D!SetMode
    \/ D!SetLoadError
    \/ \E c \in Contents, refresh \in BOOLEAN : D!SetContent(c, refresh)
    \/ D!ClearContent
    \/ \E p \in Searches : D!ApplySearch(p)
    \/ \E p \in Searches : D!ApplyFilter(p)
    \/ D!ClearSearch
    \/ D!ClearFilter
    \/ \E by \in {-1, 1} : D!SearchStep(by)
    \/ \E by \in {-D!ViewHeight, -1, 1, D!ViewHeight} : D!ScrollTo(down + by)
    \/ D!ScrollTo(0)
    \/ D!ScrollTo(D!LineCount)
    \/ \E by \in {-Step, Step, -right} : D!ScrollX(right + by)
    \/ D!ScrollEnd
    \/ D!ToggleWrap
    \/ \E w \in PanelWidths, h \in PanelHeights, b \in BOOLEAN : D!SetSize(w, h, b)
    \/ D!ToggleHeader

LEMMA TextKeepsInv == ASSUME TextInv, [TextSteps]_textVars PROVE TextInv'
<1>1. CASE UNCHANGED textVars
  <2>1. marks \in [at : Seq(TextPosition), index : Int] /\ down \in Int
    BY DEF TextInv, Laid
  <2>2. UNCHANGED <<raw, coloured, text, filter, search, positions, index, softWrap, wrapped,
                    width, height, borderless, showHeader>> /\ marks' = marks /\ down' = down
    BY <1>1 DEF textVars
  <2> QED BY <2>1, <2>2, Untouched
<1>2. CASE \/ D!SetMode \/ D!SetLoadError \/ D!ClearContent \/ D!ToggleWrap
  BY <1>2, SetModeKeeps, SetLoadErrorKeeps, ClearContentKeeps, ToggleWrapKeeps
<1>3. ASSUME NEW c \in Contents, NEW refresh \in BOOLEAN, D!SetContent(c, refresh) PROVE TextInv'
  BY <1>3, SetContentKeeps
<1>4. ASSUME NEW p \in Searches, D!ApplySearch(p) \/ D!ApplyFilter(p) PROVE TextInv'
  BY <1>4, ApplySearchKeeps, ApplyFilterKeeps
<1>5. CASE D!ClearSearch \/ D!ClearFilter
  <2>1. CASE D!ClearSearch
    BY <2>1, ApplySearchKeeps DEF D!ClearSearch
  <2>2. CASE D!ClearFilter
    BY <2>2, ApplyFilterKeeps DEF D!ClearFilter
  <2> QED BY <1>5, <2>1, <2>2
<1>6. ASSUME NEW by \in {-1, 1}, D!SearchStep(by) PROVE TextInv'
  BY <1>6, SearchTurnKeeps
<1>7. down \in Int /\ D!ViewHeight \in Int
  BY HeightInt DEF TextInv, Laid
<1>8. ASSUME NEW by \in {-D!ViewHeight, -1, 1, D!ViewHeight}, D!ScrollTo(down + by) PROVE TextInv'
  <2>1. down + by \in Int
    BY <1>7, <1>8
  <2> QED BY <1>8, <2>1, ScrollToKeeps
<1>9. CASE D!ScrollTo(0) \/ D!ScrollTo(D!LineCount)
  <2>1. D!LineCount \in Int /\ 0 \in Int
    BY DEF TextInv, Laid, D!LineCount
  <2> QED BY <1>9, <2>1, ScrollToKeeps
<1>10. ASSUME NEW by, D!ScrollX(right + by) PROVE TextInv'
  BY <1>10, ScrollXKeeps
<1>11. CASE D!ScrollEnd
  BY <1>11, ScrollXKeeps DEF D!ScrollEnd
<1>12. ASSUME NEW w \in PanelWidths, NEW h \in PanelHeights, NEW b \in BOOLEAN, D!SetSize(w, h, b)
       PROVE  TextInv'
  <2>1. w \in Int /\ h \in Int /\ showHeader \in BOOLEAN
    BY <1>12, TextAssumption DEF TextInv, Sizes
  <2> QED BY <1>12, <2>1, ResizeTextKeeps DEF D!SetSize
<1>13. CASE D!ToggleHeader
  <2>1. width \in Int /\ height \in Int /\ borderless \in BOOLEAN /\ showHeader \in BOOLEAN
    BY DEF TextInv, Sizes
  <2>2. (~showHeader) \in BOOLEAN
    BY <2>1
  <2>3. D!Resize(width, height, borderless, ~showHeader)
    BY <1>13 DEF D!ToggleHeader
  <2> QED BY <2>1, <2>2, <2>3, ResizeTextKeeps
<1> QED BY <1>1, <1>2, <1>3, <1>4, <1>5, <1>6, <1>8, <1>9, <1>10, <1>11, <1>12, <1>13 DEF TextSteps

LEMMA StepOfText ==
  ASSUME [PanesNext]_panesVars, part = "text"
  PROVE  [TextSteps]_textVars /\ part' = part
<1>1. CASE UNCHANGED panesVars
  BY <1>1, ZenonT(40) DEF panesVars
<1>2. CASE PanesNext
  BY <1>2 DEF PanesNext, ShellStep, OverlaysStep, TableStep, DetailTextStep, TerminalPaneStep,
              TextSteps
<1> QED BY <1>1, <1>2

TextPart == part = "text" => TextInv

LEMMA TextPartInv == PanesSpec => []TextPart
<1>1. PanesInit => TextPart
  BY TextInitInv DEF PanesInit, TextPart
<1>2. TextPart /\ [PanesNext]_panesVars => TextPart'
  BY StepOfText, PartStays, TextKeepsInv DEF TextPart
<1> QED BY <1>1, <1>2, PTL DEF PanesSpec

\* Whatever is shown, filtered, searched, wrapped or resized, the characters painted are
\* those of the matches, and n and N lead to a match that is then in the window.
THEOREM TextStaysShown == PanesSpec => TextMatchesAreShown
<1>1. TextPart => (part = "text" => D!MatchesAreExact)
  BY PaintedExact DEF TextPart
<1>2. TextPart /\ [PanesNext]_panesVars => (part = "text" => D!GoToStep)
  <2>1. ASSUME TextInv PROVE D!GoToStep
    BY <2>1, StepShows DEF D!GoToStep
  <2> QED BY <2>1 DEF TextPart
<1> QED BY <1>1, <1>2, TextPartInv, PTL DEF PanesSpec, TextMatchesAreShown

-----------------------------------------------------------------------------
(* Lists of lines.                                                         *)

LEMMA SameLines ==
  ASSUME NEW s \in Seq(Int), NEW t \in Seq(Int), Len(s) = Len(t),
         \A i \in 1 .. Len(s) : s[i] = t[i]
  PROVE  s = t
OBVIOUS

LEMMA PartTyped ==
  ASSUME NEW s \in Seq(Int), NEW a \in Nat, NEW n \in Nat, a + n <= Len(s)
  PROVE  SubSeq(s, a + 1, a + n) \in Seq(Int) /\ Len(SubSeq(s, a + 1, a + n)) = n
OBVIOUS

LEMMA PartAt ==
  ASSUME NEW s \in Seq(Int), NEW a \in Nat, NEW n \in Nat, a + n <= Len(s), NEW i \in 1 .. n
  PROVE  SubSeq(s, a + 1, a + n)[i] = s[a + i]
OBVIOUS

LEMMA Counted ==
  ASSUME NEW n \in Nat, NEW f, f = [i \in 1 .. n |-> f[i]], \A i \in 1 .. n : f[i] \in Int
  PROVE  f \in Seq(Int) /\ Len(f) = n
OBVIOUS

LEMMA JoinedLen ==
  ASSUME NEW s \in Seq(Int), NEW t \in Seq(Int)
  PROVE  s \o t \in Seq(Int) /\ Len(s \o t) = Len(s) + Len(t)
OBVIOUS

\* A place in two lists put together is one of the first or one of the second.
LEMMA JoinedAt ==
  ASSUME NEW s \in Seq(Int), NEW t \in Seq(Int), NEW i \in 1 .. Len(s) + Len(t)
  PROVE  (s \o t)[i] = IF i <= Len(s) THEN s[i] ELSE t[i - Len(s)]
OBVIOUS

\* A part of two lists put together that is as long as the second.
LEMMA JoinedTyped ==
  ASSUME NEW s \in Seq(Int), NEW t \in Seq(Int), NEW a \in Nat, a <= Len(s),
         NEW n \in Nat, n = Len(t)
  PROVE  /\ SubSeq(s \o t, a + 1, a + n) \in Seq(Int)
         /\ Len(SubSeq(s \o t, a + 1, a + n)) = n
<1> DEFINE all == s \o t
<1>1. all \in Seq(Int) /\ a + n <= Len(all)
  BY JoinedLen
<1> HIDE DEF all
<1>2. SubSeq(all, a + 1, a + n) \in Seq(Int) /\ Len(SubSeq(all, a + 1, a + n)) = n
  BY <1>1, PartTyped
<1> QED BY <1>2 DEF all

LEMMA JoinedPart ==
  ASSUME NEW s \in Seq(Int), NEW t \in Seq(Int), NEW a \in Nat, a <= Len(s),
         NEW n \in Nat, n = Len(t), NEW i \in 1 .. n
  PROVE  SubSeq(s \o t, a + 1, a + n)[i] = IF a + i <= Len(s) THEN s[a + i] ELSE t[a + i - Len(s)]
<1> DEFINE all == s \o t
<1>1. all \in Seq(Int) /\ a + n <= Len(all)
  BY JoinedLen
<1>2. a + i \in 1 .. Len(s) + Len(t)
  OBVIOUS
<1>3. all[a + i] = IF a + i <= Len(s) THEN s[a + i] ELSE t[a + i - Len(s)]
  BY <1>2, JoinedAt
<1> HIDE DEF all
<1>4. SubSeq(all, a + 1, a + n)[i] = all[a + i]
  BY <1>1, PartAt
<1> QED BY <1>3, <1>4 DEF all

-----------------------------------------------------------------------------
(* The bytes of a key.                                                     *)

SpecialNames ==
    {"up", "down", "right", "left", "home", "end", "delete", "pgup", "pgdown", "enter", "tab",
     "backspace", "escape", "f1", "f2", "f3", "f4", "f5", "f6", "f7", "f8", "f9", "f10", "f11",
     "f12"}

\* The special key that is sent with these bytes.
NameOfShort(b) ==
    CASE b[1] = 13 -> "enter" [] b[1] = 9 -> "tab" [] b[1] = 127 -> "backspace" [] OTHER -> "escape"
NameOfArrow(b) ==
    CASE b[3] = 65 -> "up" [] b[3] = 66 -> "down" [] b[3] = 67 -> "right"
      [] b[3] = 68 -> "left" [] b[3] = 72 -> "home" [] b[3] = 70 -> "end"
      [] b[3] = 80 -> "f1" [] b[3] = 81 -> "f2" [] b[3] = 82 -> "f3" [] OTHER -> "f4"
NameOfPage(b) == CASE b[3] = 51 -> "delete" [] b[3] = 53 -> "pgup" [] OTHER -> "pgdown"
NameOfHigh(b) ==
    IF b[3] = 49 THEN CASE b[4] = 53 -> "f5" [] b[4] = 55 -> "f6" [] b[4] = 56 -> "f7" [] OTHER -> "f8"
                 ELSE CASE b[4] = 48 -> "f9" [] b[4] = 49 -> "f10" [] b[4] = 51 -> "f11" [] OTHER -> "f12"
NameOfBytes(b) ==
    CASE Len(b) = 1 -> NameOfShort(b) [] Len(b) = 3 -> NameOfArrow(b)
      [] Len(b) = 4 -> NameOfPage(b) [] OTHER -> NameOfHigh(b)

LEMMA ThoseAreSpecial == DOMAIN E!SpecialBytes = SpecialNames
BY DEF E!SpecialBytes, SpecialNames

LEMMA ShortSpecials ==
  /\ E!SpecialBytes["enter"] = << 13 >> /\ E!SpecialBytes["tab"] = << 9 >>
  /\ E!SpecialBytes["backspace"] = << 127 >> /\ E!SpecialBytes["escape"] = << 27 >>
BY DEF E!SpecialBytes

\* What follows the escape of a longer one.
LEMMA LongSpecials ==
  ASSUME NEW s \in SpecialNames \ {"enter", "tab", "backspace", "escape"}
  PROVE  LET b == E!SpecialBytes[s]
         IN  Len(b) \in {3, 4, 5} /\ b[1] = 27 /\ b[2] \in {79, 91}
BY DEF E!SpecialBytes, SpecialNames

LEMMA SpecialsHaveNames ==
  ASSUME NEW s \in SpecialNames PROVE NameOfBytes(E!SpecialBytes[s]) = s
<1>1. CASE s \in {"enter", "tab", "backspace", "escape"}
  BY <1>1, ShortSpecials DEF NameOfBytes, NameOfShort
<1>2. CASE s \in {"up", "down", "right", "left", "home", "end"}
  <2> DEFINE b == E!SpecialBytes[s]
  <2>1. /\ Len(b) = 3
        /\ <<s, b[3]>> \in {<<"up", 65>>, <<"down", 66>>, <<"right", 67>>, <<"left", 68>>,
                            <<"home", 72>>, <<"end", 70>>}
    BY <1>2 DEF E!SpecialBytes
  <2> HIDE DEF b
  <2>2. NameOfBytes(b) = NameOfArrow(b)
    BY <2>1 DEF NameOfBytes
  <2> QED BY <2>1, <2>2 DEF NameOfArrow, b
<1>3. CASE s \in {"f1", "f2", "f3", "f4"}
  <2> DEFINE b == E!SpecialBytes[s]
  <2>1. /\ Len(b) = 3
        /\ <<s, b[3]>> \in {<<"f1", 80>>, <<"f2", 81>>, <<"f3", 82>>, <<"f4", 83>>}
    BY <1>3 DEF E!SpecialBytes
  <2> HIDE DEF b
  <2>2. NameOfBytes(b) = NameOfArrow(b)
    BY <2>1 DEF NameOfBytes
  <2> QED BY <2>1, <2>2 DEF NameOfArrow, b
<1>4. CASE s \in {"delete", "pgup", "pgdown"}
  BY <1>4 DEF E!SpecialBytes, NameOfBytes, NameOfPage
<1>5. CASE s \in {"f5", "f6", "f7", "f8"}
  <2> DEFINE b == E!SpecialBytes[s]
  <2>1. /\ Len(b) = 5 /\ b[3] = 49
        /\ <<s, b[4]>> \in {<<"f5", 53>>, <<"f6", 55>>, <<"f7", 56>>, <<"f8", 57>>}
    BY <1>5 DEF E!SpecialBytes
  <2> HIDE DEF b
  <2>2. NameOfBytes(b) = NameOfHigh(b)
    BY <2>1 DEF NameOfBytes
  <2> QED BY <2>1, <2>2 DEF NameOfHigh, b
<1>6. CASE s \in {"f9", "f10", "f11", "f12"}
  <2> DEFINE b == E!SpecialBytes[s]
  <2>1. /\ Len(b) = 5 /\ b[3] = 50
        /\ <<s, b[4]>> \in {<<"f9", 48>>, <<"f10", 49>>, <<"f11", 51>>, <<"f12", 52>>}
    BY <1>6 DEF E!SpecialBytes
  <2> HIDE DEF b
  <2>2. NameOfBytes(b) = NameOfHigh(b)
    BY <2>1 DEF NameOfBytes
  <2> QED BY <2>1, <2>2 DEF NameOfHigh, b
<1> QED BY <1>1, <1>2, <1>3, <1>4, <1>5, <1>6 DEF SpecialNames

\* The bytes of a key without alt.
Body(k) == E!PlainBytes(IF k.alt THEN E!WithoutAlt(k) ELSE k)

KeyRecord ==
    [rune : Nat, special : STRING, shift : BOOLEAN, ctrl : BOOLEAN, alt : BOOLEAN, text : Seq(Nat)]
KeyTyped(k) == k \in KeyRecord /\ (Character(k) \/ ControlKey(k) \/ Special(k))

LEMMA EncodedIsBody ==
  ASSUME NEW k \in KeyRecord
  PROVE  E!encodeKey(k) = IF k.alt /\ Body(k) # <<>> THEN << 27 >> \o Body(k) ELSE Body(k)
BY DEF E!encodeKey, Body

\* Taking alt off may give a character its text, and leaves the rest.
LEMMA WithoutAltKeeps ==
  ASSUME NEW k \in KeyRecord
  PROVE  LET j == E!WithoutAlt(k)
         IN  /\ j.rune = k.rune /\ j.special = k.special /\ j.ctrl = k.ctrl
             /\ j.text = k.text \/ (k.text = <<>> /\ ~k.ctrl /\ k.rune \in 32 .. 126 /\ j.text = <<k.rune>>)
BY DEF E!WithoutAlt, KeyRecord

LEMMA NoneIsNotSpecial == "none" \notin DOMAIN E!SpecialBytes
BY ThoseAreSpecial DEF SpecialNames

\* The code of a character that is sent is its own.
LEMMA CharacterBody ==
  ASSUME NEW k \in KeyRecord, Character(k), Body(k) # <<>>
  PROVE  \E c \in 32 .. 126 : E!Meaning(k) = E!Coded(<<c>>) /\ Body(k) = <<c>>
<1> DEFINE j == IF k.alt THEN E!WithoutAlt(k) ELSE k
<1>1. /\ j.special = "none" /\ ~j.ctrl /\ j.rune = k.rune
      /\ j.text = k.text \/ (k.text = <<>> /\ j.text = <<k.rune>>)
  BY WithoutAltKeeps DEF Character
<1>2. Body(k) = E!PlainBytes(j)
  BY DEF Body
<1> HIDE DEF j
<1>3. Body(k) = IF k.rune = 32 THEN <<32>> ELSE j.text
  BY <1>1, <1>2, NoneIsNotSpecial DEF E!PlainBytes
<1>4. E!Meaning(k) = E!Coded(IF k.text = <<>> THEN <<k.rune>> ELSE k.text)
  BY DEF E!Meaning, Character
<1>5. k.rune \in 32 .. 126 /\ (k.text = <<>> \/ \E c \in 32 .. 126 : k.text = <<c>>)
  BY DEF Character
<1>6. CASE k.rune = 32
  <2>1. k.text \in {<<>>, <<32>>}
    BY <1>6 DEF Character
  <2> QED BY <1>3, <1>4, <1>6, <2>1
<1>7. CASE k.rune # 32 /\ k.text = <<>>
  <2>1. j.text = <<k.rune>>
    BY <1>1, <1>3, <1>7
  <2> QED BY <1>3, <1>4, <1>5, <1>7, <2>1
<1>8. CASE k.rune # 32 /\ k.text # <<>>
  <2>1. j.text = k.text
    BY <1>1, <1>8
  <2> QED BY <1>3, <1>4, <1>5, <1>8, <2>1
<1> QED BY <1>6, <1>7, <1>8

\* Control codes are no printable characters, and escape is not among them.
LEMMA ControlCodes ==
  ASSUME NEW r \in 32 .. 126, E!ControlCode(r) # <<>>
  PROVE  \E c \in 0 .. 31 \ {27} : E!ControlCode(r) = <<c>>
<1>1. CASE r \in 97 .. 122
  <2> DEFINE c == r - 96
  <2>1. r \notin 65 .. 90 /\ r \notin {32, 64} /\ r \notin 92 .. 95 /\ c \in 0 .. 31 \ {27}
    BY <1>1
  <2>2. E!ControlCode(r) = <<c>>
    BY <1>1, <2>1 DEF E!ControlCode
  <2> QED BY <2>1, <2>2
<1>2. CASE r \in 65 .. 90
  <2> DEFINE c == r - 64
  <2>1. r \notin 97 .. 122 /\ r \notin {32, 64} /\ r \notin 92 .. 95 /\ c \in 0 .. 31 \ {27}
    BY <1>2
  <2>2. E!ControlCode(r) = <<c>>
    BY <1>2, <2>1 DEF E!ControlCode
  <2> QED BY <2>1, <2>2
<1>3. CASE r \in {32, 64}
  <2>1. r \notin 97 .. 122 /\ r \notin 65 .. 90 /\ r \notin 92 .. 95
    BY <1>3
  <2>2. E!ControlCode(r) = << 0 >>
    BY <1>3, <2>1 DEF E!ControlCode
  <2> QED BY <2>2
<1>4. CASE r \in 92 .. 95
  <2> DEFINE c == r - 64
  <2>1. r \notin 97 .. 122 /\ r \notin 65 .. 90 /\ r \notin {32, 64} /\ c \in 0 .. 31 \ {27}
    BY <1>4
  <2>2. E!ControlCode(r) = <<c>>
    BY <1>4, <2>1 DEF E!ControlCode
  <2> QED BY <2>1, <2>2
<1>5. CASE r \notin 97 .. 122 /\ r \notin 65 .. 90 /\ r \notin {32, 64} /\ r \notin 92 .. 95
  BY <1>5 DEF E!ControlCode
<1> QED BY <1>1, <1>2, <1>3, <1>4, <1>5

\* A key with ctrl is sent as its control code or not at all.
LEMMA ControlBody ==
  ASSUME NEW k \in KeyRecord, ControlKey(k), Body(k) # <<>>
  PROVE  \/ E!Meaning(k) = E!Named("tab") /\ Body(k) = << 9 >>
         \/ E!Meaning(k) = E!Named("enter") /\ Body(k) = << 13 >>
         \/ \E c \in 0 .. 31 \ {9, 13, 27} : E!Meaning(k) = E!Coded(<<c>>) /\ Body(k) = <<c>>
<1> DEFINE j == IF k.alt THEN E!WithoutAlt(k) ELSE k
           code == E!ControlCode(k.rune)
<1>1. j.special = "none" /\ j.ctrl /\ j.rune = k.rune /\ j.text = <<>>
  BY WithoutAltKeeps DEF ControlKey
<1>2. Body(k) = E!PlainBytes(j)
  BY DEF Body
<1>3. k.rune \in 32 .. 126 /\ k.special = "none" /\ k.ctrl
  BY DEF ControlKey
<1> HIDE DEF j
<1>4. code # <<>>
  <2>1. ASSUME code = <<>> PROVE k.rune # 32
    BY <2>1 DEF E!ControlCode
  <2> QED BY <1>1, <1>2, <2>1, NoneIsNotSpecial DEF E!PlainBytes
<1>5. Body(k) = code
  BY <1>1, <1>2, <1>4 DEF E!PlainBytes
<1>6. PICK c \in 0 .. 31 \ {27} : code = <<c>>
  BY <1>3, <1>4, ControlCodes
<1>7. E!Meaning(k) = IF code = << 9 >> THEN E!Named("tab")
                     ELSE IF code = << 13 >> THEN E!Named("enter") ELSE E!Coded(code)
  BY <1>3 DEF E!Meaning
<1> HIDE DEF code
<1>8. (code = << 9 >>) = (c = 9) /\ (code = << 13 >>) = (c = 13)
  BY <1>6
<1> QED BY <1>5, <1>6, <1>7, <1>8

LEMMA SpecialBody ==
  ASSUME NEW k \in KeyRecord, Special(k)
  PROVE  /\ k.special \in SpecialNames /\ E!Meaning(k) = E!Named(k.special)
         /\ Body(k) = E!SpecialBytes[k.special]
<1> DEFINE j == IF k.alt THEN E!WithoutAlt(k) ELSE k
<1>1. j.special = k.special /\ j.rune = 0
  BY WithoutAltKeeps DEF Special
<1>2. Body(k) = E!PlainBytes(j)
  BY DEF Body
<1>3. k.special \in SpecialNames
  BY ThoseAreSpecial DEF Special
<1>4. k.special # "none"
  BY <1>3 DEF SpecialNames
<1> HIDE DEF j
<1>5. E!ControlCode(j.rune) = <<>>
  BY <1>1 DEF E!ControlCode
<1> QED BY <1>1, <1>2, <1>3, <1>4, <1>5, ThoseAreSpecial DEF E!PlainBytes, E!Meaning

-----------------------------------------------------------------------------
LEMMA EscapedTyped ==
  ASSUME NEW b \in Seq(Nat)
  PROVE  << 27 >> \o b \in Seq(Nat) /\ Len(<< 27 >> \o b) = Len(b) + 1
OBVIOUS

LEMMA EscapedAt ==
  ASSUME NEW b \in Seq(Nat), NEW i \in 1 .. Len(b) PROVE (<< 27 >> \o b)[i + 1] = b[i]
OBVIOUS

LEMMA EscapedSame ==
  ASSUME NEW b \in Seq(Nat), NEW c \in Seq(Nat), << 27 >> \o b = << 27 >> \o c PROVE b = c
<1> DEFINE x == << 27 >> \o b
           y == << 27 >> \o c
<1>1. Len(b) = Len(c)
  BY EscapedTyped
<1>2. ASSUME NEW i \in 1 .. Len(b) PROVE b[i] = c[i]
  <2>1. x[i + 1] = b[i]
    BY EscapedAt
  <2>2. y[i + 1] = c[i]
    BY <1>1, EscapedAt
  <2> HIDE DEF x, y
  <2>3. x = y
    BY DEF x, y
  <2> QED BY <2>1, <2>2, <2>3
<1> QED BY <1>1, <1>2

\* What is sent for a key with a name, and for one with a code of its own.
Short == {9, 13, 27, 127}
Lengthy(b) == Len(b) >= 3 /\ b[1] = 27 /\ b[2] \in {79, 91}
OfName(m, b) == \E s \in SpecialNames : m = E!Named(s) /\ b = E!SpecialBytes[s]
OfCode(m, b) == \E c \in 0 .. 126 \ Short : m = E!Coded(<<c>>) /\ b = <<c>>

LEMMA Bytes1 == ASSUME NEW a \in Nat PROVE <<a>> \in Seq(Nat)
OBVIOUS
LEMMA Bytes3 ==
  ASSUME NEW a \in Nat, NEW b \in Nat, NEW c \in Nat PROVE <<a, b, c>> \in Seq(Nat)
OBVIOUS
LEMMA Bytes4 ==
  ASSUME NEW a \in Nat, NEW b \in Nat, NEW c \in Nat, NEW d \in Nat PROVE <<a, b, c, d>> \in Seq(Nat)
OBVIOUS
LEMMA Bytes5 ==
  ASSUME NEW a \in Nat, NEW b \in Nat, NEW c \in Nat, NEW d \in Nat, NEW e \in Nat
  PROVE  <<a, b, c, d, e>> \in Seq(Nat)
OBVIOUS

LEMMA SpecialsTyped == ASSUME NEW s \in SpecialNames PROVE E!SpecialBytes[s] \in Seq(Nat)
<1>1. CASE s \in {"enter", "tab", "backspace", "escape"}
  <2>1. PICK a \in {13, 9, 127, 27} : E!SpecialBytes[s] = <<a>>
    BY <1>1, ShortSpecials
  <2>2. <<a>> \in Seq(Nat)
    BY Bytes1
  <2> QED BY <2>1, <2>2
<1>2. CASE s \in {"up", "down", "right", "left", "home", "end", "f1", "f2", "f3", "f4"}
  <2>1. PICK b \in {79, 91}, c \in 65 .. 83 : E!SpecialBytes[s] = <<27, b, c>>
    BY <1>2 DEF E!SpecialBytes
  <2>2. <<27, b, c>> \in Seq(Nat)
    BY Bytes3
  <2> QED BY <2>1, <2>2
<1>3. CASE s \in {"delete", "pgup", "pgdown"}
  <2>1. PICK c \in 51 .. 54 : E!SpecialBytes[s] = <<27, 91, c, 126>>
    BY <1>3 DEF E!SpecialBytes
  <2>2. <<27, 91, c, 126>> \in Seq(Nat)
    BY Bytes4
  <2> QED BY <2>1, <2>2
<1>4. CASE s \in {"f5", "f6", "f7", "f8", "f9", "f10", "f11", "f12"}
  <2>1. PICK c \in {49, 50}, d \in 48 .. 57 : E!SpecialBytes[s] = <<27, 91, c, d, 126>>
    BY <1>4 DEF E!SpecialBytes
  <2>2. <<27, 91, c, d, 126>> \in Seq(Nat)
    BY Bytes5
  <2> QED BY <2>1, <2>2
<1> QED BY <1>1, <1>2, <1>3, <1>4 DEF SpecialNames

LEMMA NameBytes ==
  ASSUME NEW s \in SpecialNames
  PROVE  LET b == E!SpecialBytes[s]
         IN  b \in Seq(Nat) /\ ((Len(b) = 1 /\ b[1] \in Short) \/ Lengthy(b))
<1> DEFINE b == E!SpecialBytes[s]
<1>1. b \in Seq(Nat)
  BY SpecialsTyped
<1>2. CASE s \in {"enter", "tab", "backspace", "escape"}
  <2>1. PICK a \in Short : b = <<a>>
    BY <1>2, ShortSpecials DEF Short
  <2> HIDE DEF b
  <2>2. Len(b) = 1 /\ b[1] = a
    BY <2>1
  <2> QED BY <1>1, <2>2 DEF b
<1>3. CASE s \notin {"enter", "tab", "backspace", "escape"}
  <2> DEFINE n == Len(b)
  <2>1. n \in {3, 4, 5} /\ b[1] = 27 /\ b[2] \in {79, 91}
    BY <1>3, LongSpecials
  <2> HIDE DEF n
  <2>2. n >= 3
    BY <2>1
  <2>3. Lengthy(b)
    BY <2>1, <2>2 DEF Lengthy, n
  <2> QED BY <1>1, <2>3
<1> QED BY <1>2, <1>3

LEMMA CodeBytes ==
  ASSUME NEW c \in 0 .. 126 \ Short
  PROVE  <<c>> \in Seq(Nat) /\ Len(<<c>>) = 1 /\ <<c>>[1] = c
<1>1. c \in Nat
  OBVIOUS
<1> QED BY <1>1, Bytes1

\* A key that is sent at all is sent as one of the two.
LEMMA Kinds ==
  ASSUME NEW k, KeyTyped(k), Body(k) # <<>>
  PROVE  OfName(E!Meaning(k), Body(k)) \/ OfCode(E!Meaning(k), Body(k))
<1>1. k \in KeyRecord
  BY DEF KeyTyped
<1>2. CASE Character(k)
  <2>1. PICK c \in 32 .. 126 : E!Meaning(k) = E!Coded(<<c>>) /\ Body(k) = <<c>>
    BY <1>1, <1>2, CharacterBody
  <2>2. c \in 0 .. 126 \ Short
    BY DEF Short
  <2> QED BY <2>1, <2>2 DEF OfCode
<1>3. CASE ControlKey(k)
  <2>1. CASE E!Meaning(k) = E!Named("tab") /\ Body(k) = << 9 >>
    BY <2>1, ShortSpecials DEF OfName, SpecialNames
  <2>2. CASE E!Meaning(k) = E!Named("enter") /\ Body(k) = << 13 >>
    BY <2>2, ShortSpecials DEF OfName, SpecialNames
  <2>3. CASE \E c \in 0 .. 31 \ {9, 13, 27} : E!Meaning(k) = E!Coded(<<c>>) /\ Body(k) = <<c>>
    <3>1. PICK c \in 0 .. 31 \ {9, 13, 27} : E!Meaning(k) = E!Coded(<<c>>) /\ Body(k) = <<c>>
      BY <2>3
    <3>2. c \in 0 .. 126 \ Short
      BY DEF Short
    <3> QED BY <3>1, <3>2 DEF OfCode
  <2> QED BY <1>1, <1>3, <2>1, <2>2, <2>3, ControlBody
<1>4. CASE Special(k)
  BY <1>1, <1>4, SpecialBody DEF OfName
<1> QED BY <1>2, <1>3, <1>4 DEF KeyTyped

LEMMA BodyTyped ==
  ASSUME NEW k, KeyTyped(k), Body(k) # <<>>
  PROVE  /\ Body(k) \in Seq(Nat) /\ Len(Body(k)) \in Nat \ {0}
         /\ Len(Body(k)) = 1 \/ Lengthy(Body(k))
<1> DEFINE b == Body(k)
<1>1. OfName(E!Meaning(k), b) \/ OfCode(E!Meaning(k), b)
  BY Kinds
<1> HIDE DEF b
<1>2. ASSUME OfName(E!Meaning(k), b) PROVE b \in Seq(Nat) /\ (Len(b) = 1 \/ Lengthy(b))
  <2>1. PICK s \in SpecialNames : b = E!SpecialBytes[s]
    BY <1>2 DEF OfName
  <2> QED BY <2>1, NameBytes
<1>3. ASSUME OfCode(E!Meaning(k), b) PROVE b \in Seq(Nat) /\ (Len(b) = 1 \/ Lengthy(b))
  <2>1. PICK c \in 0 .. 126 \ Short : b = <<c>>
    BY <1>3 DEF OfCode
  <2> QED BY <2>1, CodeBytes
<1>4. b \in Seq(Nat) /\ (Len(b) = 1 \/ Lengthy(b))
  BY <1>1, <1>2, <1>3
<1>5. Len(b) \in Nat \ {0}
  <2> DEFINE n == Len(b)
  <2>1. n \in Nat /\ (n = 1 \/ n >= 3)
    BY <1>4 DEF Lengthy
  <2> HIDE DEF n
  <2>2. n \in Nat \ {0}
    BY <2>1
  <2> QED BY <2>2 DEF n
<1> QED BY <1>4, <1>5 DEF b

\* Without alt, keys sent as the same bytes mean the same.
LEMMA BodiesDiffer ==
  ASSUME NEW j, NEW k, KeyTyped(j), KeyTyped(k), Body(j) = Body(k), Body(j) # <<>>
  PROVE  E!Meaning(j) = E!Meaning(k)
<1> DEFINE b == Body(j)
           m == E!Meaning(j)
           n == E!Meaning(k)
<1>1. (OfName(m, b) \/ OfCode(m, b)) /\ (OfName(n, b) \/ OfCode(n, b))
  BY Kinds
<1> HIDE DEF b, m, n
<1>2. ASSUME NEW x, NEW y, OfName(x, b), OfCode(y, b) PROVE FALSE
  <2>1. PICK s \in SpecialNames : b = E!SpecialBytes[s]
    BY <1>2 DEF OfName
  <2>2. PICK c \in 0 .. 126 \ Short : b = <<c>>
    BY <1>2 DEF OfCode
  <2>3. Len(b) = 1 /\ b[1] = c
    BY <2>2, CodeBytes
  <2>4. b[1] \in Short
    BY <2>1, <2>3, NameBytes DEF Lengthy
  <2> QED BY <2>3, <2>4
<1>3. ASSUME OfName(m, b), OfName(n, b) PROVE m = n
  <2>1. PICK s \in SpecialNames : m = E!Named(s) /\ b = E!SpecialBytes[s]
    BY <1>3 DEF OfName
  <2>2. PICK t \in SpecialNames : n = E!Named(t) /\ b = E!SpecialBytes[t]
    BY <1>3 DEF OfName
  <2>3. s = t
    BY <2>1, <2>2, SpecialsHaveNames
  <2> QED BY <2>1, <2>2, <2>3
<1>4. ASSUME OfCode(m, b), OfCode(n, b) PROVE m = n
  <2>1. PICK c \in 0 .. 126 \ Short : m = E!Coded(<<c>>) /\ b = <<c>>
    BY <1>4 DEF OfCode
  <2>2. PICK d \in 0 .. 126 \ Short : n = E!Coded(<<d>>) /\ b = <<d>>
    BY <1>4 DEF OfCode
  <2> QED BY <2>1, <2>2
<1>5. m = n
  BY <1>1, <1>2, <1>3, <1>4
<1> QED BY <1>5 DEF m, n

\* The escape of alt is taken for no other key's.
LEMMA AltDiffers ==
  ASSUME NEW j, NEW k, KeyTyped(j), KeyTyped(k), Body(j) # <<>>, Body(k) # <<>>
  PROVE  << 27 >> \o Body(j) # Body(k)
<1> DEFINE b == Body(j)
           c == Body(k)
           x == << 27 >> \o b
<1>1. b \in Seq(Nat) /\ Len(b) \in Nat \ {0} /\ (Len(b) = 1 \/ Lengthy(b))
  BY BodyTyped
<1>5. Len(c) = 1 \/ Lengthy(c)
  BY BodyTyped
<1> HIDE DEF b, c
<1>2. Len(x) = Len(b) + 1
  BY <1>1, EscapedTyped
<1>3. x[2] = b[1]
  BY <1>1, EscapedAt
<1> HIDE DEF x
<1>4. ASSUME x = c PROVE FALSE
  <2>1. Lengthy(c) /\ Len(b) >= 2
    BY <1>1, <1>2, <1>4, <1>5 DEF Lengthy
  <2>2. b[1] = 27
    <3> DEFINE n == Len(b)
    <3>1. n \in Nat /\ n >= 2 /\ (n = 1 \/ Lengthy(b))
      BY <1>1, <2>1
    <3> HIDE DEF n
    <3>2. n # 1
      BY <3>1
    <3> QED BY <3>1, <3>2 DEF Lengthy
  <2>3. b[1] \in {79, 91}
    BY <1>3, <1>4, <2>1 DEF Lengthy
  <2> QED BY <2>2, <2>3
<1> QED BY <1>4 DEF x, b, c

\* Keys sent as the same bytes mean the same to the shell, with alt or without.
LEMMA KeysDiffer ==
  ASSUME NEW j, NEW k, KeyTyped(j), KeyTyped(k), E!encodeKey(j) = E!encodeKey(k),
         E!encodeKey(k) # <<>>
  PROVE  E!Meant(j) = E!Meant(k)
<1>1. ASSUME NEW q, KeyTyped(q), E!encodeKey(q) # <<>>
      PROVE  /\ q.alt \in BOOLEAN /\ Body(q) # <<>> /\ Body(q) \in Seq(Nat)
             /\ E!encodeKey(q) = IF q.alt THEN << 27 >> \o Body(q) ELSE Body(q)
  <2>1. q \in KeyRecord
    BY <1>1 DEF KeyTyped
  <2>2. Body(q) # <<>>
    BY <1>1, <2>1, EncodedIsBody
  <2> QED BY <1>1, <2>1, <2>2, EncodedIsBody, BodyTyped DEF KeyRecord
<1>2. CASE j.alt = TRUE /\ k.alt = TRUE
  <2>1. Body(j) = Body(k)
    BY <1>1, <1>2, EscapedSame
  <2> QED BY <1>1, <1>2, <2>1, BodiesDiffer DEF E!Meant
<1>3. CASE j.alt = FALSE /\ k.alt = FALSE
  <2>1. Body(j) = Body(k)
    BY <1>1, <1>3
  <2> QED BY <1>1, <1>3, <2>1, BodiesDiffer DEF E!Meant
<1>4. CASE j.alt # k.alt
  BY <1>1, <1>4, AltDiffers
<1> QED BY <1>1, <1>2, <1>3, <1>4

-----------------------------------------------------------------------------
USE PaneAssumption, WindowAssumption

(* Strips.                                                                 *)

LEMMA Times == ASSUME NEW d \in Nat, NEW i \in Nat PROVE d * i \in Nat
OBVIOUS

LEMMA TimesNext ==
  ASSUME NEW d \in Nat, NEW i \in Nat, NEW j \in Nat, i < j
  PROVE  d * i + d <= d * j
OBVIOUS

LEMMA Quotient ==
  ASSUME NEW total \in Nat, NEW n \in Nat \ {0}
  PROVE  total \div n \in Nat /\ (total \div n) * n <= total
OBVIOUS

\* Where strips begin and how long they are, without a division.
LEMMA StripsTyped ==
  ASSUME NEW total \in Nat, NEW n \in Nat \ {0}, NEW i \in 1 .. n
  PROVE  StripAt(i, n, total) \in Nat /\ StripLen(i, n, total) \in Nat
<1> DEFINE d == total \div n
<1>1. d \in Nat /\ d * n <= total
  BY Quotient
<1> HIDE DEF d
<1>2. d * (i - 1) \in Nat /\ d * (n - 1) \in Nat /\ d * (n - 1) <= d * n
  BY <1>1, Times, TimesNext
<1>3. StripAt(i, n, total) = d * (i - 1)
  BY DEF StripAt, d
<1>4. StripLen(i, n, total) = IF i = n THEN total - d * (n - 1) ELSE d
  BY DEF StripLen, d
<1> QED BY <1>1, <1>2, <1>3, <1>4

\* A strip ends where the next begins, and the last where the whole does.
LEMMA StripsFollow ==
  ASSUME NEW total \in Nat, NEW n \in Nat \ {0}, NEW i \in 1 .. n, NEW j \in 1 .. n, i < j
  PROVE  StripAt(i, n, total) + StripLen(i, n, total) <= StripAt(j, n, total)
<1> DEFINE d == total \div n
<1>1. d \in Nat
  BY Quotient
<1> HIDE DEF d
<1>2. d * (i - 1) + d <= d * (j - 1)
  BY <1>1, TimesNext
<1>3. StripAt(i, n, total) = d * (i - 1) /\ StripAt(j, n, total) = d * (j - 1)
  BY DEF StripAt, d
<1>4. StripLen(i, n, total) = d
  BY DEF StripLen, d
<1> QED BY <1>2, <1>3, <1>4

InStrip(x, i, n, total) ==
    x \in StripAt(i, n, total) .. (StripAt(i, n, total) + StripLen(i, n, total) - 1)

\* Every point is in exactly one strip, however unevenly they divide.
LEMMA OneStrip ==
  ASSUME NEW total \in Nat, NEW n \in Nat \ {0}, NEW x \in 0 .. (total - 1)
  PROVE  \E i \in 1 .. n : \A j \in 1 .. n : InStrip(x, j, n, total) <=> j = i
<1> DEFINE d == total \div n
<1>1. d \in Nat /\ d * n <= total
  BY Quotient
<1>2. \A i \in 1 .. n : StripAt(i, n, total) = d * (i - 1)
  BY DEF StripAt
<1>3. \A i \in 1 .. n : StripLen(i, n, total) = IF i = n THEN total - d * (n - 1) ELSE d
  BY DEF StripLen
<1> HIDE DEF d
<1>4. d * (n - 1) \in Nat /\ d * (n - 1) <= total
  BY <1>1, Times, TimesNext
<1>5. \E i \in 1 .. n : InStrip(x, i, n, total)
  <2>1. CASE x >= d * (n - 1)
    <3>1. InStrip(x, n, n, total)
      BY <1>2, <1>3, <1>4, <2>1 DEF InStrip
    <3> QED BY <3>1
  <2>2. CASE x < d * (n - 1)
    <3> DEFINE q == x \div d
    <3>1. d \in Nat \ {0}
      <4>1. ASSUME d = 0 PROVE FALSE
        BY <4>1, <2>2, <1>4
      <4> QED BY <4>1, <1>1
    <3>2. q \in Nat /\ d * q <= x /\ x < d * q + d
      BY <3>1
    <3> HIDE DEF q
    <3>3. q + 1 < n
      <4>1. ASSUME n - 1 <= q PROVE FALSE
        <5>1. d * (n - 1) <= d * q
          BY <4>1, <3>1, <3>2, TimesNext
        <5> QED BY <5>1, <3>2, <2>2, <1>4, <3>1, Times
      <4> QED BY <4>1, <3>2
    <3>4. InStrip(x, q + 1, n, total)
      <4>1. StripAt(q + 1, n, total) = d * q /\ StripLen(q + 1, n, total) = d
        BY <1>2, <1>3, <3>2, <3>3
      <4> QED BY <4>1, <3>1, <3>2, Times DEF InStrip
    <3> QED BY <3>2, <3>3, <3>4
  <2> QED BY <2>1, <2>2, <1>4
<1>6. ASSUME NEW i \in 1 .. n, NEW j \in 1 .. n, i < j,
             InStrip(x, i, n, total), InStrip(x, j, n, total)
      PROVE  FALSE
  BY <1>6, StripsTyped, StripsFollow DEF InStrip
<1>7. PICK i \in 1 .. n : InStrip(x, i, n, total)
  BY <1>5
<1>8. ASSUME NEW j \in 1 .. n, InStrip(x, j, n, total), j # i PROVE FALSE
  <2>1. i < j \/ j < i
    BY <1>8
  <2> QED BY <2>1, <1>6, <1>7, <1>8
<1>9. \A j \in 1 .. n : InStrip(x, j, n, total) <=> j = i
  BY <1>7, <1>8
<1> QED BY <1>9

-----------------------------------------------------------------------------
(* What a layout is when it is drawn right.                                *)

LayoutRecord ==
    [splits : Seq(Pane), focus : Nat, onPanel : BOOLEAN, shown : BOOLEAN, log : BOOLEAN,
     splitZoom : BOOLEAN, panelZoom : BOOLEAN, horizontal : BOOLEAN,
     w : Nat \ {0}, h : Nat \ {0}, look : [Pane -> {"focus", "dim", "blur"}],
     bare : SUBSET Pane, size : [Pane -> [w : Int, h : Int]],
     panelFocus : SUBSET Panel, panelBare : SUBSET Panel,
     panelSize : [Panel -> [w : Int, h : Int]],
     rects : SUBSET [x : Int, y : Int, w : Int, h : Int, at : Nat]]

\* No pane is in the layout twice, one of them is focused, and the panel can be
\* focused or zoomed only while it is there.
WellFormed(l) ==
    /\ l \in LayoutRecord
    /\ IsInjective(l.splits) /\ l.focus \in DOMAIN l.splits
    /\ l.onPanel => l.shown
    /\ l.panelZoom => l.shown

\* Only the focused pane is lit.
Lit(l) ==
    \A p \in Panes(l) :
        l.look[p] = CASE p # Focused(l) -> "blur"
                      [] p = Focused(l) /\ ~l.onPanel -> "focus"
                      [] p = Focused(l) /\ l.onPanel /\ p \in Lists -> "dim"
                      [] OTHER -> "blur"

\* Only the zoomed pane has no border.
Bare(l) == l.bare \cap Panes(l) = IF l.splitZoom THEN {Focused(l)} ELSE {}

\* The cached rectangles and the sizes the panes were given are those of now.
Boxed(l) == l.rects = PaneRects(l)
Sized(l) == \A i \in DOMAIN l.splits : l.size[l.splits[i]] = PaneSize(l, i)

Drawn(l) == WellFormed(l) /\ Lit(l) /\ Bare(l) /\ Boxed(l) /\ Sized(l)

\* A layout as the panes know it before they are given their sizes.
Arranged(l) == WellFormed(l) /\ Lit(l) /\ Bare(l)

-----------------------------------------------------------------------------
(* The size of things.                                                     *)

LEMMA PanelSizesTyped ==
  ASSUME NEW l \in LayoutRecord
  PROVE  PanelSizes(l) = <<PanelSizes(l)[1], PanelSizes(l)[2]>>
         /\ PanelSizes(l)[1] \in Int /\ PanelSizes(l)[2] \in Int
  BY DEF PanelSizes, LayoutRecord

LEMMA RectsTyped ==
  ASSUME NEW l \in LayoutRecord, NEW i \in DOMAIN l.splits
  PROVE  /\ SplitRect(l, i) \in [x : Int, y : Int, w : Int, h : Int, at : Nat]
         /\ SplitRect(l, i).at = i
         /\ PanelRect(l) \in [x : Int, y : Int, w : Int, h : Int, at : Nat]
         /\ PanelRect(l).at = 0
<1>1. l.splits \in Seq(Pane) /\ Len(l.splits) \in Nat \ {0} /\ i \in 1..Len(l.splits)
  BY DEF LayoutRecord
<1>2. l.w \in Nat /\ l.h \in Nat
  BY DEF LayoutRecord
<1> DEFINE n == Len(l.splits)
<1>3. n \in Nat \ {0} /\ i \in 1 .. n
  BY <1>1
<1>4. /\ StripAt(i, n, l.w) \in Nat /\ StripLen(i, n, l.w) \in Nat
      /\ StripAt(i, n, l.h) \in Nat /\ StripLen(i, n, l.h) \in Nat
  <2> HIDE DEF n
  <2> QED BY <1>2, <1>3, StripsTyped
<1>5. i \in Nat /\ PanelSizes(l)[1] \in Int /\ PanelSizes(l)[2] \in Int
  BY <1>3, PanelSizesTyped
<1> QED BY <1>2, <1>4, <1>5 DEF SplitRect, PanelRect

LEMMA PaneSizeTyped ==
  ASSUME NEW l \in LayoutRecord, NEW i \in DOMAIN l.splits
  PROVE  PaneSize(l, i) \in [w : Int, h : Int]
<1>1. l.w \in Nat /\ l.h \in Nat
  BY DEF LayoutRecord
<1> QED BY <1>1, RectsTyped DEF PaneSize, Size, Nothing

\* What the geometry reads of a layout: the focus only if a split is zoomed.
Geometry(l) == <<l.splits, l.shown, l.splitZoom, l.panelZoom, l.horizontal, l.w, l.h,
                 IF l.splitZoom THEN l.focus ELSE 0>>

LEMMA SameGeometry ==
  ASSUME NEW k \in LayoutRecord, NEW l \in LayoutRecord, Geometry(k) = Geometry(l)
  PROVE  /\ \A i \in DOMAIN k.splits : PaneSize(k, i) = PaneSize(l, i)
         /\ PaneRects(k) = PaneRects(l)
         /\ k.splits = l.splits /\ Panes(k) = Panes(l)
<1>1. /\ k.splits = l.splits /\ k.shown = l.shown /\ (l.splitZoom => k.focus = l.focus)
      /\ k.splitZoom = l.splitZoom /\ k.panelZoom = l.panelZoom
      /\ k.horizontal = l.horizontal /\ k.w = l.w /\ k.h = l.h
  BY DEF Geometry
<1>2. EffectiveZoom(k) = EffectiveZoom(l)
  BY <1>1 DEF EffectiveZoom
<1>3. PanelSizes(k) = PanelSizes(l)
  BY <1>1 DEF PanelSizes
<1>4. \A i : SplitRect(k, i) = SplitRect(l, i)
  BY <1>1, <1>3 DEF SplitRect
<1>5. PanelRect(k) = PanelRect(l) /\ \A i : WholeRect(k, i) = WholeRect(l, i)
  BY <1>1, <1>3 DEF PanelRect, WholeRect
<1>6. \A i : PaneSize(k, i) = PaneSize(l, i)
  BY <1>1, <1>2, <1>4 DEF PaneSize, EffectiveZoom
<1>7. PaneRects(k) = PaneRects(l)
  <2>1. {SplitRect(k, i) : i \in DOMAIN k.splits} = {SplitRect(l, i) : i \in DOMAIN l.splits}
    BY <1>1, <1>4
  <2>2. {k.w, k.h, l.w, l.h} \subseteq Nat \ {0}
    BY <1>1 DEF LayoutRecord
  <2>3. CASE EffectiveZoom(l) = "panel"
    BY <2>2, <2>3, <1>2, <1>5 DEF PaneRects
  <2>4. CASE EffectiveZoom(l) = "split"
    BY <2>2, <2>4, <1>1, <1>2, <1>5 DEF PaneRects, EffectiveZoom
  <2>5. CASE EffectiveZoom(l) \notin {"panel", "split"}
    <3> DEFINE A == {SplitRect(k, i) : i \in DOMAIN k.splits}
               B == {SplitRect(l, i) : i \in DOMAIN l.splits}
    <3>1. PaneRects(k) = A \cup (IF k.shown THEN {PanelRect(k)} ELSE {})
      BY <2>2, <2>5, <1>2 DEF PaneRects
    <3>2. PaneRects(l) = B \cup (IF l.shown THEN {PanelRect(l)} ELSE {})
      BY <2>2, <2>5 DEF PaneRects
    <3>3. A = B
      BY <2>1
    <3> HIDE DEF A, B
    <3> QED BY <1>1, <1>5, <3>1, <3>2, <3>3
  <2> QED BY <2>3, <2>4, <2>5
<1> QED BY <1>1, <1>6, <1>7 DEF Panes


-----------------------------------------------------------------------------
(* The two ends of every method.                                           *)

LEMMA PanesAreKnown == ASSUME NEW l \in LayoutRecord PROVE Panes(l) \subseteq Pane
<1>1. l.splits \in Seq(Pane)
  BY DEF LayoutRecord
<1>2. \A i \in DOMAIN l.splits : l.splits[i] \in Pane
  BY <1>1
<1> QED BY <1>2 DEF Panes, ToSet

LEMMA IndexFound ==
  ASSUME NEW l \in LayoutRecord, NEW p \in Panes(l)
  PROVE  IndexOf(l, p) \in DOMAIN l.splits /\ l.splits[IndexOf(l, p)] = p
<1>1. \E i \in DOMAIN l.splits : l.splits[i] = p
  BY DEF Panes, ToSet
<1> QED BY <1>1 DEF IndexOf

LEMMA IndexIs ==
  ASSUME NEW l, WellFormed(l), NEW i \in DOMAIN l.splits
  PROVE  l.splits[i] \in Panes(l) /\ l.splits[i] \in Pane /\ IndexOf(l, l.splits[i]) = i
<1>1. l \in LayoutRecord /\ IsInjective(l.splits)
  BY DEF WellFormed
<1>2. l.splits[i] \in Panes(l)
  BY DEF Panes, ToSet
<1>3. l.splits[i] \in Pane
  BY <1>1 DEF LayoutRecord
<1>4. /\ IndexOf(l, l.splits[i]) \in DOMAIN l.splits
      /\ l.splits[IndexOf(l, l.splits[i])] = l.splits[i]
  BY <1>1, <1>2, IndexFound
<1> QED BY <1>1, <1>2, <1>3, <1>4 DEF IsInjective

LEMMA FocusedIsThere ==
  ASSUME NEW l, WellFormed(l)
  PROVE  Focused(l) \in Panes(l) /\ Focused(l) \in Pane
BY IndexIs DEF WellFormed, Focused

LEMMA SizedPanelTyped ==
  ASSUME NEW l \in LayoutRecord
  PROVE  SizedPanel(l) \in [Panel -> [w : Int, h : Int]]
<1>1. l.panelSize \in [Panel -> [w : Int, h : Int]] /\ ActivePanel(l) \in Panel
  BY DEF LayoutRecord, ActivePanel, Panel
<1>2. Size(l.w, l.h + 1) \in [w : Int, h : Int]
  BY DEF LayoutRecord, Size
<1>3. Size(PanelRect(l).w, PanelRect(l).h) \in [w : Int, h : Int]
  <2>1. PanelSizes(l)[2] \in Int /\ l.w \in Nat /\ l.h \in Nat
    BY PanelSizesTyped DEF LayoutRecord
  <2> QED BY <2>1 DEF PanelRect, Size
<1> QED BY <1>1, <1>2, <1>3 DEF SizedPanel

\* What a method leaves alone when it only gives out sizes.
Arrangement(l) ==
    <<l.splits, l.focus, l.onPanel, l.shown, l.log, l.splitZoom, l.panelZoom, l.horizontal,
      l.w, l.h, l.look, l.bare, l.panelFocus, l.panelBare>>

LEMMA ArrangementKeeps ==
  ASSUME NEW k \in LayoutRecord, NEW l, WellFormed(l), Arrangement(k) = Arrangement(l)
  PROVE  /\ WellFormed(k) /\ Geometry(k) = Geometry(l)
         /\ Lit(l) => Lit(k)
         /\ Bare(l) => Bare(k)
BY DEF Arrangement, Geometry, WellFormed, Lit, Bare, Panes, Focused

\* recalcSizes gives every pane the size of its rectangle.
LEMMA RecalcDraws ==
  ASSUME NEW l, Arranged(l)
  PROVE  Drawn(RecalcSizes(l)) /\ Arrangement(RecalcSizes(l)) = Arrangement(l)
<1> DEFINE given == [p \in Pane |-> IF p \in Panes(l) THEN PaneSize(l, IndexOf(l, p))
                                    ELSE l.size[p]]
           m == [l EXCEPT !.size = given, !.panelSize = SizedPanel(l)]
           r == RecalcSizes(l)
<1>1. l \in LayoutRecord /\ WellFormed(l) /\ Lit(l) /\ Bare(l)
  BY DEF Arranged, WellFormed
<1>2. given \in [Pane -> [w : Int, h : Int]]
  <2>1. ASSUME NEW p \in Pane
        PROVE  (IF p \in Panes(l) THEN PaneSize(l, IndexOf(l, p)) ELSE l.size[p])
                 \in [w : Int, h : Int]
    BY <1>1, IndexFound, PaneSizeTyped DEF LayoutRecord
  <2> QED BY <2>1
<1>3. SizedPanel(l) \in [Panel -> [w : Int, h : Int]]
  BY <1>1, SizedPanelTyped
<1>4. r = [m EXCEPT !.rects = PaneRects(m)]
  BY DEF RecalcSizes, RebuildPaneRects
<1> HIDE DEF given
<1>5. m \in LayoutRecord /\ Arrangement(m) = Arrangement(l) /\ m.size = given
  BY <1>1, <1>2, <1>3 DEF LayoutRecord, Arrangement
<1> HIDE DEF m, r
<1>6. Geometry(m) = Geometry(l)
  BY <1>1, <1>5, ArrangementKeeps
<1>7. PaneRects(m) \subseteq [x : Int, y : Int, w : Int, h : Int, at : Nat]
  <2>1. \A i \in DOMAIN m.splits :
          SplitRect(m, i) \in [x : Int, y : Int, w : Int, h : Int, at : Nat]
    BY <1>5, RectsTyped
  <2>2. m.focus \in DOMAIN m.splits /\ m.splits \in Seq(Pane)
    BY <1>1, <1>5 DEF WellFormed, Arrangement, LayoutRecord
  <2>3. PanelRect(m) \in [x : Int, y : Int, w : Int, h : Int, at : Nat]
    BY <1>5, <2>2, RectsTyped
  <2>4. WholeRect(m, 0) \in [x : Int, y : Int, w : Int, h : Int, at : Nat]
        /\ WholeRect(m, m.focus) \in [x : Int, y : Int, w : Int, h : Int, at : Nat]
    BY <1>5, <2>2 DEF WholeRect, LayoutRecord
  <2> QED BY <2>1, <2>3, <2>4 DEF PaneRects
<1>8. r \in LayoutRecord /\ Arrangement(r) = Arrangement(l) /\ r.size = given
      /\ r.rects = PaneRects(m)
  BY <1>4, <1>5, <1>7 DEF LayoutRecord, Arrangement
<1>9. /\ WellFormed(r) /\ Lit(r) /\ Bare(r)
      /\ Geometry(r) = Geometry(l)
  BY <1>1, <1>8, ArrangementKeeps
<1>10. Boxed(r)
  BY <1>5, <1>6, <1>8, <1>9, SameGeometry DEF Boxed
<1>11. Sized(r)
  <2>1. ASSUME NEW i \in DOMAIN r.splits
        PROVE  r.size[r.splits[i]] = PaneSize(r, i)
    <3>1. r.splits = l.splits /\ PaneSize(r, i) = PaneSize(l, i)
      BY <1>1, <1>8, <1>9, SameGeometry
    <3>2. /\ l.splits[i] \in Panes(l) /\ l.splits[i] \in Pane
          /\ IndexOf(l, l.splits[i]) = i
      BY <1>1, <2>1, <3>1, IndexIs
    <3> QED BY <1>8, <3>1, <3>2 DEF given
  <2> QED BY <2>1 DEF Sized
<1>12. Drawn(r)
  BY <1>9, <1>10, <1>11 DEF Drawn
<1> QED BY <1>8, <1>12 DEF r


\* What reconcileFocus leaves alone.
Unlit(l) ==
    <<l.splits, l.focus, l.onPanel, l.shown, l.log, l.splitZoom, l.panelZoom, l.horizontal,
      l.w, l.h, l.bare, l.size, l.panelBare, l.panelSize, l.rects>>

LEMMA UnlitKeeps ==
  ASSUME NEW k \in LayoutRecord, NEW l, WellFormed(l), Unlit(k) = Unlit(l)
  PROVE  /\ WellFormed(k) /\ Focused(k) = Focused(l) /\ Panes(k) = Panes(l)
         /\ Bare(l) => Bare(k)
         /\ Boxed(l) => Boxed(k)
         /\ Sized(l) => Sized(k)
<1>1. WellFormed(k) /\ (Bare(l) => Bare(k)) /\ Geometry(k) = Geometry(l)
      /\ k.rects = l.rects /\ k.size = l.size /\ k.splits = l.splits
      /\ Focused(k) = Focused(l) /\ Panes(k) = Panes(l)
  BY DEF Unlit, Geometry, WellFormed, Bare, Panes, Focused
<1>2. l \in LayoutRecord
  BY DEF WellFormed
<1>3. /\ \A i \in DOMAIN k.splits : PaneSize(k, i) = PaneSize(l, i)
      /\ PaneRects(k) = PaneRects(l)
  BY <1>1, <1>2, SameGeometry
<1> QED BY <1>1, <1>3 DEF Boxed, Sized

\* reconcileFocus lights the focused pane and no other.
LEMMA ReconcileLights ==
  ASSUME NEW l, WellFormed(l)
  PROVE  /\ ReconcileFocus(l) \in LayoutRecord
         /\ Unlit(ReconcileFocus(l)) = Unlit(l)
         /\ WellFormed(ReconcileFocus(l)) /\ Lit(ReconcileFocus(l))
<1> DEFINE toPanel == l.onPanel /\ l.shown
           lit == CASE ~toPanel -> "focus"
                    [] toPanel /\ OnList(l) -> "dim"
                    [] OTHER -> "blur"
           look == [p \in Pane |-> CASE p = Focused(l) -> lit
                                     [] p # Focused(l) /\ p \in Panes(l) -> "blur"
                                     [] OTHER -> l.look[p]]
           told == IF toPanel THEN l.panelFocus \cup {ActivePanel(l)}
                   ELSE l.panelFocus \ {ActivePanel(l)}
           r == ReconcileFocus(l)
<1>1. l \in LayoutRecord /\ (l.onPanel => l.shown)
  BY DEF WellFormed
<1>2. look \in [Pane -> {"focus", "dim", "blur"}]
  BY <1>1 DEF LayoutRecord
<1>3. told \in SUBSET Panel
  BY <1>1 DEF ActivePanel, Panel, LayoutRecord
<1>4. r = [l EXCEPT !.look = look, !.panelFocus = told]
  BY DEF ReconcileFocus
<1>5. r \in LayoutRecord /\ Unlit(r) = Unlit(l) /\ r.look = look
  <2> HIDE DEF look, told, r
  <2> QED BY <1>1, <1>2, <1>3, <1>4 DEF LayoutRecord, Unlit
<1> HIDE DEF r
<1>6. WellFormed(r) /\ Focused(r) = Focused(l) /\ Panes(r) = Panes(l)
  BY <1>5, UnlitKeeps
<1>7. Lit(r)
  <2>1. r.onPanel = l.onPanel /\ l.onPanel \in BOOLEAN /\ toPanel = l.onPanel
    BY <1>1, <1>5 DEF Unlit, LayoutRecord
  <2>2. \A p \in Panes(r) : p \in Pane
    BY <1>5, PanesAreKnown
  <2>3. ASSUME NEW p \in Panes(r)
        PROVE  r.look[p] = CASE p # Focused(r) -> "blur"
                             [] p = Focused(r) /\ ~r.onPanel -> "focus"
                             [] p = Focused(r) /\ r.onPanel /\ p \in Lists -> "dim"
                             [] OTHER -> "blur"
    BY <1>5, <1>6, <2>1, <2>2, <2>3 DEF OnList
  <2> QED BY <2>3 DEF Lit
<1> QED BY <1>5, <1>6, <1>7 DEF r

\* It keeps what else is drawn right.
LEMMA ReconcileDraws ==
  ASSUME NEW l, WellFormed(l)
  PROVE  /\ Bare(l) => Arranged(ReconcileFocus(l))
         /\ Bare(l) /\ Boxed(l) /\ Sized(l) => Drawn(ReconcileFocus(l))
  BY ReconcileLights, UnlitKeeps DEF Arranged, Drawn

-----------------------------------------------------------------------------
(* A pane put in, taken out, or changing places with another.              *)

\* The second of two lists put together.
LEMMA ConcatSecond ==
  ASSUME NEW S, NEW s \in Seq(S), NEW t \in Seq(S), NEW m \in 1 .. Len(t)
  PROVE  (s \o t)[Len(s) + m] = t[m]
OBVIOUS

\* The part of a list from a on.
LEMMA PartFrom ==
  ASSUME NEW S, NEW s \in Seq(S), NEW a \in 1 .. (Len(s) + 1)
  PROVE  /\ SubSeq(s, a, Len(s)) \in Seq(S) /\ Len(SubSeq(s, a, Len(s))) = Len(s) - a + 1
         /\ \A k \in 1 .. (Len(s) - a + 1) : SubSeq(s, a, Len(s))[k] = s[a + k - 1]
OBVIOUS

LEMMA PutIn ==
  ASSUME NEW S, NEW s \in Seq(S), IsInjective(s), NEW p \in S, p \notin ToSet(s),
         NEW i \in 1 .. (Len(s) + 1)
  PROVE  /\ InsertAt(s, i, p) \in Seq(S) /\ IsInjective(InsertAt(s, i, p))
         /\ Len(InsertAt(s, i, p)) = Len(s) + 1
         /\ InsertAt(s, i, p)[i] = p
         /\ ToSet(InsertAt(s, i, p)) = ToSet(s) \cup {p}
<1> DEFINE n == Len(s)
           r == InsertAt(s, i, p)
<1>1. n \in Nat /\ DOMAIN s = 1 .. n /\ \A k \in 1 .. n : s[k] \in S
  OBVIOUS
<1> DEFINE A == SubSeq(s, 1, i - 1)
           B == SubSeq(s, i, n)
<1>2. /\ r = A \o <<p>> \o B
  BY DEF InsertAt
<1>3. /\ A \in Seq(S) /\ Len(A) = i - 1 /\ B \in Seq(S) /\ Len(B) = n - i + 1
      /\ \A k \in 1 .. (i - 1) : A[k] = s[k]
      /\ \A k \in 1 .. (n - i + 1) : B[k] = s[i + k - 1]
  BY <1>1
<1> HIDE DEF A, B, r, n
<1>a. i \in 1 .. (n + 1)
  BY DEF n
<1>b. <<p>> \in Seq(S) /\ Len(<<p>>) = 1 /\ <<p>>[1] = p
  OBVIOUS
<1>c. /\ A \o <<p>> \in Seq(S) /\ Len(A \o <<p>>) = i
      /\ \A k \in 1 .. i : (A \o <<p>>)[k] = IF k < i THEN s[k] ELSE p
  <2>1. A \in Seq(S) /\ Len(A) = i - 1 /\ i \in Nat \ {0}
    BY <1>1, <1>3, <1>a
  <2>2. A \o <<p>> \in Seq(S) /\ Len(A \o <<p>>) = i
    BY <1>b, <2>1
  <2>3. ASSUME NEW k \in 1 .. i PROVE (A \o <<p>>)[k] = IF k < i THEN s[k] ELSE p
    <3>1. CASE k < i
      <4>1. k \in 1 .. Len(A)
        BY <2>1, <3>1
      <4>2. (A \o <<p>>)[k] = A[k]
        BY <1>b, <2>1, <4>1
      <4> QED BY <1>3, <2>1, <3>1, <4>1, <4>2
    <3>2. CASE ~(k < i)
      <4>1. k = Len(A) + 1
        BY <2>1, <3>2
      <4>2. (A \o <<p>>)[k] = <<p>>[1]
        BY <1>b, <2>1, <4>1
      <4> QED BY <1>b, <3>2, <4>2
    <3> QED BY <3>1, <3>2
  <2> QED BY <2>2, <2>3
<1>4. r \in Seq(S) /\ Len(r) = n + 1 /\ DOMAIN r = 1 .. (n + 1)
  <2> DEFINE G == A \o <<p>>
  <2>1. G \in Seq(S) /\ Len(G) = i /\ B \in Seq(S) /\ Len(B) = n - i + 1 /\ r = G \o B
    BY <1>2, <1>3, <1>c
  <2> HIDE DEF G
  <2>2. r \in Seq(S) /\ Len(r) = Len(G) + Len(B)
    <3>1. G \in Seq(S) /\ B \in Seq(S)
      BY <2>1
    <3>2. (G \o B) \in Seq(S) /\ Len(G \o B) = Len(G) + Len(B)
      BY <3>1
    <3>3. r = G \o B
      BY <2>1
    <3> HIDE DEF r
    <3> QED BY <3>2, <3>3
  <2>3. Len(r) = n + 1
    BY <1>1, <1>a, <2>1, <2>2
  <2> QED BY <2>2, <2>3
<1>5. \A k \in 1 .. (n + 1) : r[k] = IF k < i THEN s[k] ELSE IF k = i THEN p ELSE s[k - 1]
  <2>1. ASSUME NEW k \in 1 .. i PROVE r[k] = IF k < i THEN s[k] ELSE p
    BY <1>1, <1>2, <1>3, <1>a, <1>c
  <2>2. ASSUME NEW k \in (i + 1) .. (n + 1) PROVE r[k] = s[k - 1]
    <3> DEFINE G == A \o <<p>>
               m == k - i
    <3>1. G \in Seq(S) /\ Len(G) = i /\ B \in Seq(S) /\ Len(B) = n - i + 1
      BY <1>3, <1>c
    <3>2. r = G \o B
      BY <1>2
    <3>3. m \in 1 .. Len(B) /\ k = Len(G) + m /\ i + m - 1 = k - 1
      BY <1>1, <1>a, <3>1
    <3> HIDE DEF G, m
    <3>4. (G \o B)[Len(G) + m] = B[m]
      BY <3>1, <3>3, ConcatSecond
    <3>5. r[k] = B[m]
      BY <3>2, <3>3, <3>4, Zenon
    <3> QED BY <1>3, <3>1, <3>3, <3>5
  <2> QED BY <2>1, <2>2, <1>1, <1>a
<1>6. \A k \in 1 .. n : s[k] # p
  BY <1>1 DEF ToSet
<1>7. \A a, b \in 1 .. n : s[a] = s[b] => a = b
  BY <1>1 DEF IsInjective
<1>8. ASSUME NEW a \in 1 .. (n + 1), NEW b \in 1 .. (n + 1), r[a] = r[b]
      PROVE  a = b
  BY <1>1, <1>5, <1>6, <1>7, <1>8
<1>9. IsInjective(r)
  BY <1>4, <1>8 DEF IsInjective
<1>10. r[i] = p
  BY <1>1, <1>5 DEF n
<1>11. ASSUME NEW k \in 1 .. (n + 1) PROVE r[k] \in ToSet(s) \cup {p}
  <2>1. k < i \/ k = i \/ (k > i /\ k - 1 \in 1 .. n)
    BY <1>1, <1>a
  <2>2. r[k] = p \/ \E m \in 1 .. n : r[k] = s[m]
    BY <1>1, <1>5, <1>a, <2>1
  <2> QED BY <1>1, <2>2 DEF ToSet
<1>12. ASSUME NEW k \in 1 .. n PROVE s[k] \in ToSet(r)
  <2>1. CASE k < i
    <3>1. k \in 1 .. (n + 1) /\ r[k] = s[k]
      BY <1>1, <1>5, <1>a, <2>1
    <3> QED BY <1>4, <3>1 DEF ToSet
  <2>2. CASE ~(k < i)
    <3>1. k + 1 \in 1 .. (n + 1) /\ r[k + 1] = s[k]
      BY <1>1, <1>5, <2>2
    <3> QED BY <1>4, <3>1 DEF ToSet
  <2> QED BY <2>1, <2>2
<1>13. p \in ToSet(r)
  BY <1>4, <1>10 DEF ToSet, n
<1>14. ToSet(r) = ToSet(s) \cup {p}
  <2>1. ToSet(r) \subseteq ToSet(s) \cup {p}
    BY <1>4, <1>11 DEF ToSet
  <2>2. ToSet(s) \subseteq ToSet(r)
    BY <1>1, <1>12 DEF ToSet
  <2> QED BY <2>1, <2>2, <1>13
<1> QED BY <1>4, <1>9, <1>10, <1>14 DEF r, n

LEMMA TakenOut ==
  ASSUME NEW S, NEW s \in Seq(S), IsInjective(s), NEW i \in 1 .. Len(s)
  PROVE  /\ RemoveAt(s, i) \in Seq(S) /\ IsInjective(RemoveAt(s, i))
         /\ Len(RemoveAt(s, i)) = Len(s) - 1
         /\ ToSet(RemoveAt(s, i)) = ToSet(s) \ {s[i]}
<1> DEFINE n == Len(s)
           r == RemoveAt(s, i)
<1>1. n \in Nat /\ DOMAIN s = 1 .. n /\ \A k \in 1 .. n : s[k] \in S
  OBVIOUS
<1> DEFINE A == SubSeq(s, 1, i - 1)
           B == SubSeq(s, i + 1, n)
<1>2. r = A \o B
  BY DEF RemoveAt
<1>3. /\ A \in Seq(S) /\ Len(A) = i - 1 /\ B \in Seq(S) /\ Len(B) = n - i
      /\ \A k \in 1 .. (i - 1) : A[k] = s[k]
      /\ \A k \in 1 .. (n - i) : B[k] = s[i + k]
  <2>1. A \in Seq(S) /\ Len(A) = i - 1 /\ \A k \in 1 .. (i - 1) : A[k] = s[k]
    BY <1>1
  <2>2. B \in Seq(S) /\ Len(B) = n - i /\ \A k \in 1 .. (n - i) : B[k] = s[i + k]
    <3> DEFINE a == i + 1
               c == n - a + 1
    <3>1. a \in 1 .. (n + 1)
      BY <1>1
    <3> HIDE DEF a
    <3>2. SubSeq(s, a, n) \in Seq(S) /\ Len(SubSeq(s, a, n)) = c
          /\ \A k \in 1 .. c : SubSeq(s, a, n)[k] = s[a + k - 1]
      BY <3>1, PartFrom
    <3>3. c = n - i /\ \A k \in 1 .. c : a + k - 1 = i + k
      BY <1>1 DEF a
    <3>4. B = SubSeq(s, a, n)
      BY DEF a
    <3> HIDE DEF B, c, n
    <3> QED BY <3>2, <3>3, <3>4
  <2> QED BY <2>1, <2>2
<1>6. i \in 1 .. n
  OBVIOUS
<1> HIDE DEF A, B, r, n
<1>4. r \in Seq(S) /\ Len(r) = n - 1 /\ DOMAIN r = 1 .. (n - 1)
  <2>1. r \in Seq(S)
    BY <1>2, <1>3
  <2>2. Len(A \o B) = Len(A) + Len(B)
    <3>1. A \in Seq(S) /\ B \in Seq(S)
      BY <1>3
    <3> QED BY <3>1
  <2>3. Len(r) = n - 1
    BY <1>1, <1>2, <1>3, <1>6, <2>2
  <2> QED BY <2>1, <2>3
<1>5. \A k \in 1 .. (n - 1) : r[k] = IF k < i THEN s[k] ELSE s[k + 1]
  <2>1. ASSUME NEW k \in 1 .. (i - 1) PROVE r[k] = s[k]
    BY <1>1, <1>2, <1>3, <1>6
  <2>2. ASSUME NEW k \in i .. (n - 1) PROVE r[k] = s[k + 1]
    <3> DEFINE m == k - i + 1
    <3>1. A \in Seq(S) /\ Len(A) = i - 1 /\ B \in Seq(S) /\ Len(B) = n - i
      BY <1>3
    <3>2. m \in 1 .. Len(B) /\ k = Len(A) + m /\ i + m = k + 1
      BY <1>1, <1>6, <3>1
    <3> HIDE DEF m
    <3>3a. (A \o B)[Len(A) + m] = B[m]
      BY <3>1, <3>2, ConcatSecond
    <3>3. r[k] = B[m]
      BY <1>2, <3>2, <3>3a, Zenon
    <3> QED BY <1>3, <3>1, <3>2, <3>3
  <2> QED BY <2>1, <2>2, <1>1, <1>6
<1>7. \A a, b \in 1 .. n : s[a] = s[b] => a = b
  BY <1>1 DEF IsInjective
<1>8. ASSUME NEW a \in 1 .. (n - 1), NEW b \in 1 .. (n - 1), r[a] = r[b]
      PROVE  a = b
  BY <1>1, <1>5, <1>6, <1>7, <1>8
<1>9. IsInjective(r)
  BY <1>4, <1>8 DEF IsInjective
<1>10. ASSUME NEW k \in 1 .. (n - 1) PROVE r[k] \in ToSet(s) \ {s[i]}
  <2>1. CASE k < i
    <3>1. k \in 1 .. n /\ r[k] = s[k] /\ k # i
      BY <1>1, <1>5, <1>6, <2>1
    <3> QED BY <1>1, <1>6, <1>7, <3>1 DEF ToSet
  <2>2. CASE ~(k < i)
    <3>1. k + 1 \in 1 .. n /\ r[k] = s[k + 1] /\ k + 1 # i
      BY <1>1, <1>5, <1>6, <2>2
    <3> QED BY <1>1, <1>6, <1>7, <3>1 DEF ToSet
  <2> QED BY <2>1, <2>2
<1>11. ASSUME NEW k \in 1 .. n, k # i PROVE s[k] \in ToSet(r)
  <2>1. CASE k < i
    <3>1. k \in 1 .. (n - 1) /\ r[k] = s[k]
      BY <1>1, <1>5, <1>6, <2>1
    <3> QED BY <1>4, <3>1 DEF ToSet
  <2>2. CASE ~(k < i)
    <3>1. k - 1 \in 1 .. (n - 1) /\ r[k - 1] = s[k]
      BY <1>1, <1>5, <1>6, <1>11, <2>2
    <3> QED BY <1>4, <3>1 DEF ToSet
  <2> QED BY <2>1, <2>2
<1>12. ToSet(r) = ToSet(s) \ {s[i]}
  BY <1>1, <1>4, <1>10, <1>11 DEF ToSet
<1> QED BY <1>4, <1>9, <1>12 DEF r, n

LEMMA Swapped ==
  ASSUME NEW S, NEW s \in Seq(S), IsInjective(s), NEW i \in 1 .. Len(s), NEW j \in 1 .. Len(s)
  PROVE  LET r == [s EXCEPT ![i] = s[j], ![j] = s[i]] IN
         /\ r \in Seq(S) /\ IsInjective(r) /\ Len(r) = Len(s) /\ r[j] = s[i]
         /\ ToSet(r) = ToSet(s)
<1> DEFINE n == Len(s)
           r == [s EXCEPT ![i] = s[j], ![j] = s[i]]
<1>1. n \in Nat /\ DOMAIN s = 1 .. n /\ i \in 1 .. n /\ j \in 1 .. n
      /\ \A k \in 1 .. n : s[k] \in S
  OBVIOUS
<1>2. r \in Seq(S) /\ Len(r) = n /\ DOMAIN r = 1 .. n
  BY <1>1
<1>3. \A k \in 1 .. n : r[k] = IF k = j THEN s[i] ELSE IF k = i THEN s[j] ELSE s[k]
  BY <1>1
<1> HIDE DEF r, n
<1>4. \A a, b \in 1 .. n : s[a] = s[b] => a = b
  BY <1>1 DEF IsInjective
<1>5. ASSUME NEW a \in 1 .. n, NEW b \in 1 .. n, r[a] = r[b]
      PROVE  a = b
  BY <1>1, <1>3, <1>4, <1>5
<1>6. IsInjective(r)
  BY <1>2, <1>5 DEF IsInjective
<1>7. \A k \in 1 .. n : r[k] \in ToSet(s)
  BY <1>1, <1>3 DEF ToSet
<1>8. ASSUME NEW k \in 1 .. n PROVE s[k] \in ToSet(r)
  <2>1. r[j] = s[i] /\ r[i] = s[j] /\ (k # i /\ k # j => r[k] = s[k])
    BY <1>1, <1>3
  <2> QED BY <1>1, <1>2, <2>1 DEF ToSet
<1>9. ToSet(r) = ToSet(s)
  BY <1>1, <1>2, <1>7, <1>8 DEF ToSet
<1>10. r[j] = s[i]
  BY <1>1, <1>3
<1> QED BY <1>2, <1>6, <1>9, <1>10 DEF r, n


-----------------------------------------------------------------------------
(* Methods that leave the sequence of panes alone.                         *)

SameSplits(k, l) == k.splits = l.splits /\ k.focus = l.focus

LEMMA SplitsGivePanes ==
  ASSUME NEW k, NEW l, k.splits = l.splits PROVE Panes(k) = Panes(l)
BY DEF Panes

\* The focus goes to a pane, whatever is zoomed.
LEMMA FocusSplitAtDraws ==
  ASSUME NEW l, Drawn(l), NEW i \in DOMAIN l.splits
  PROVE  /\ Drawn(FocusSplitAt(l, i))
         /\ FocusSplitAt(l, i).splits = l.splits /\ FocusSplitAt(l, i).focus = i
<1> DEFINE k == [l EXCEPT !.focus = i, !.onPanel = FALSE]
           r == ReconcileFocus(k)
           m == [r EXCEPT !.bare = (r.bare \ {Focused(l)}) \cup {Focused(r)}]
<1>1. l \in LayoutRecord /\ WellFormed(l) /\ Bare(l) /\ Boxed(l) /\ Sized(l)
  BY DEF Drawn, WellFormed
<1>2. i \in Nat
  BY <1>1 DEF LayoutRecord
<1>3. k \in LayoutRecord /\ k.splits = l.splits /\ k.focus = i /\ k.bare = l.bare
      /\ k.splitZoom = l.splitZoom
  BY <1>1, <1>2 DEF LayoutRecord
<1>4. WellFormed(k)
  BY <1>1, <1>3 DEF WellFormed
<1>5. ~l.splitZoom => Geometry(k) = Geometry(l) /\ k.rects = l.rects /\ k.size = l.size
  BY <1>1 DEF Geometry, LayoutRecord
<1>6. FocusSplitAt(l, i) = IF r.splitZoom THEN RecalcSizes(m) ELSE r
  BY DEF FocusSplitAt, MoveBorderlessFlag
<1> HIDE DEF k
<1>7. /\ r \in LayoutRecord /\ Unlit(r) = Unlit(k) /\ WellFormed(r) /\ Lit(r)
      /\ Focused(r) = Focused(k) /\ Panes(r) = Panes(k)
  BY <1>4, ReconcileLights, UnlitKeeps
<1>8. r.splits = l.splits /\ r.focus = i /\ r.bare = l.bare /\ r.splitZoom = l.splitZoom
      /\ Panes(r) = Panes(l) /\ l.splitZoom \in BOOLEAN
  BY <1>1, <1>3, <1>7 DEF Unlit, Panes, LayoutRecord
<1>9. CASE ~l.splitZoom
  <2>1. Bare(k)
    BY <1>1, <1>3, <1>9 DEF Bare, Panes
  <2>2. Boxed(k) /\ Sized(k)
    BY <1>1, <1>3, <1>5, <1>9, SameGeometry DEF Boxed, Sized
  <2>3. Drawn(r)
    BY <1>4, <2>1, <2>2, ReconcileDraws
  <2> QED BY <1>6, <1>8, <1>9, <2>3
<1>10. CASE l.splitZoom
  <2> HIDE DEF r
  <2>1. Focused(r) \in Panes(r) /\ Focused(r) \in Pane
    BY <1>7, FocusedIsThere
  <2>2. m \in LayoutRecord /\ m.bare = (r.bare \ {Focused(l)}) \cup {Focused(r)}
        /\ m.splits = r.splits /\ m.focus = r.focus /\ m.splitZoom = r.splitZoom
    BY <1>7, <2>1 DEF LayoutRecord
  <2>3. WellFormed(m) /\ Lit(m)
    BY <1>7, <2>2 DEF WellFormed, Lit, Panes, Focused
  <2>4. Panes(m) = Panes(r) /\ Focused(m) = Focused(r)
    BY <2>2 DEF Panes, Focused
  <2>5. r.bare \cap Panes(r) = {Focused(l)}
    BY <1>1, <1>8, <1>10 DEF Bare
  <2>6. Bare(m)
    BY <1>8, <1>10, <2>1, <2>2, <2>4, <2>5 DEF Bare
  <2>7. Arranged(m)
    BY <2>3, <2>6 DEF Arranged
  <2> HIDE DEF m
  <2>8. Drawn(RecalcSizes(m)) /\ Arrangement(RecalcSizes(m)) = Arrangement(m)
    BY <2>7, RecalcDraws
  <2> QED BY <1>6, <1>8, <1>10, <2>2, <2>8 DEF Arrangement
<1> QED BY <1>8, <1>9, <1>10

\* The panel takes the focus or leaves it.
LEMMA PanelFocusDraws ==
  ASSUME NEW l, Drawn(l), NEW on \in BOOLEAN, on => l.shown
  PROVE  LET k == ReconcileFocus([l EXCEPT !.onPanel = on]) IN
         Drawn(k) /\ SameSplits(k, l)
<1> DEFINE m == [l EXCEPT !.onPanel = on]
<1>1. l \in LayoutRecord /\ WellFormed(l) /\ Bare(l) /\ Boxed(l) /\ Sized(l)
  BY DEF Drawn, WellFormed
<1>2. m \in LayoutRecord /\ Geometry(m) = Geometry(l) /\ m.bare = l.bare
      /\ m.rects = l.rects /\ m.size = l.size /\ m.splits = l.splits /\ m.focus = l.focus
  BY <1>1 DEF LayoutRecord, Geometry
<1>3. WellFormed(m) /\ Bare(m)
  BY <1>1 DEF WellFormed, Bare, Panes, Focused, LayoutRecord
<1>4. Boxed(m) /\ Sized(m)
  BY <1>1, <1>2, SameGeometry DEF Boxed, Sized
<1> HIDE DEF m
<1>5. Drawn(ReconcileFocus(m)) /\ Unlit(ReconcileFocus(m)) = Unlit(m)
  BY <1>3, <1>4, ReconcileDraws, ReconcileLights
<1>6. SameSplits(ReconcileFocus(m), l)
  BY <1>2, <1>5 DEF Unlit, SameSplits
<1> QED BY <1>5, <1>6 DEF m

LEMMA FocusDetailsDraws ==
  ASSUME NEW l, Drawn(l)
  PROVE  Drawn(FocusDetails(l)) /\ SameSplits(FocusDetails(l), l)
<1>1. CASE l.shown
  BY <1>1, PanelFocusDraws DEF FocusDetails
<1>2. CASE ~l.shown
  BY <1>2 DEF FocusDetails, SameSplits
<1> QED BY <1>1, <1>2

LEMMA FocusResourcesDraws ==
  ASSUME NEW l, Drawn(l)
  PROVE  Drawn(FocusResources(l)) /\ SameSplits(FocusResources(l), l)
BY PanelFocusDraws DEF FocusResources

LEMMA FocusStepDraws ==
  ASSUME NEW l, Drawn(l), NEW d \in {-1, 1}
  PROVE  Drawn(FocusStep(l, d)) /\ FocusStep(l, d).splits = l.splits
<1> DEFINE i == Wrapped(l, l.focus + d)
<1>1. l.focus \in 1 .. Len(l.splits) /\ Len(l.splits) \in Nat /\ DOMAIN l.splits = 1 .. Len(l.splits)
  BY DEF Drawn, WellFormed, LayoutRecord
<1>2. i \in DOMAIN l.splits
  BY <1>1 DEF Wrapped
<1> HIDE DEF i
<1>3. CASE i = l.focus
  <2>1. FocusStep(l, d) = ReconcileFocus([l EXCEPT !.onPanel = FALSE])
    BY <1>3 DEF FocusStep, i
  <2> QED BY <2>1, PanelFocusDraws DEF SameSplits
<1>4. CASE i # l.focus
  <2>1. FocusStep(l, d) = FocusSplitAt(l, i)
    BY <1>4 DEF FocusStep, i
  <2> QED BY <1>2, <2>1, FocusSplitAtDraws
<1> QED BY <1>3, <1>4

\* A method that gives out sizes after it changed anything but the focus, the
\* sequence and who has the cursor.
LEMMA ResizedDraws ==
  ASSUME NEW k \in LayoutRecord, NEW l, Drawn(l),
         k.splits = l.splits, k.focus = l.focus, k.onPanel = l.onPanel, k.look = l.look,
         k.onPanel => k.shown, k.panelZoom => k.shown,
         k.bare \cap Panes(l) = IF k.splitZoom THEN {Focused(l)} ELSE {}
  PROVE  Drawn(RecalcSizes(k)) /\ SameSplits(RecalcSizes(k), l)
<1>1. Panes(k) = Panes(l) /\ Focused(k) = Focused(l)
  BY DEF Panes, Focused
<1>2. WellFormed(k) /\ Lit(k) /\ Bare(k)
  BY <1>1 DEF Drawn, WellFormed, Lit, Bare
<1>3. Drawn(RecalcSizes(k)) /\ Arrangement(RecalcSizes(k)) = Arrangement(k)
  BY <1>2, RecalcDraws DEF Arranged
<1> QED BY <1>3 DEF Arrangement, SameSplits

\* Whether the panel's flag is cleared.
LEMMA UnbarePanelTyped ==
  ASSUME NEW l \in LayoutRecord PROVE UnbarePanel(l) \in SUBSET Panel
BY DEF UnbarePanel, LayoutRecord

LEMMA ShowRightPanelDraws ==
  ASSUME NEW l, Drawn(l)
  PROVE  Drawn(ShowRightPanel(l)) /\ SameSplits(ShowRightPanel(l), l)
<1> DEFINE k == [l EXCEPT !.shown = TRUE]
<1>1. l \in LayoutRecord /\ Bare(l)
  BY DEF Drawn, WellFormed
<1>2. /\ k \in LayoutRecord /\ k.splits = l.splits /\ k.focus = l.focus /\ k.look = l.look
      /\ k.onPanel = l.onPanel /\ k.shown /\ k.bare = l.bare /\ k.splitZoom = l.splitZoom
  BY <1>1 DEF LayoutRecord
<1>3. ShowRightPanel(l) = RecalcSizes(k)
  BY DEF ShowRightPanel
<1> HIDE DEF k
<1> QED BY <1>1, <1>2, <1>3, ResizedDraws DEF Bare

LEMMA HideRightPanelDraws ==
  ASSUME NEW l, Drawn(l)
  PROVE  Drawn(HideRightPanel(l)) /\ SameSplits(HideRightPanel(l), l)
<1> DEFINE k == [l EXCEPT !.panelBare = UnbarePanel(l), !.panelZoom = FALSE,
                          !.shown = FALSE, !.onPanel = FALSE]
           r == ReconcileFocus(k)
<1>1. l \in LayoutRecord /\ WellFormed(l) /\ Bare(l)
  BY DEF Drawn, WellFormed
<1>2. UnbarePanel(l) \in SUBSET Panel
  BY <1>1, UnbarePanelTyped
<1>3. /\ k \in LayoutRecord /\ k.splits = l.splits /\ k.focus = l.focus
      /\ k.onPanel = FALSE /\ k.panelZoom = FALSE /\ k.bare = l.bare
      /\ k.splitZoom = l.splitZoom
  BY <1>1, <1>2 DEF LayoutRecord
<1>4. HideRightPanel(l) = RecalcSizes(r)
  BY DEF HideRightPanel
<1> HIDE DEF k
<1>5. WellFormed(k) /\ Bare(k)
  BY <1>1, <1>3 DEF WellFormed, Bare, Panes, Focused
<1>6. Arranged(r) /\ Unlit(r) = Unlit(k)
  BY <1>5, ReconcileDraws, ReconcileLights
<1> HIDE DEF r
<1>7. Drawn(RecalcSizes(r)) /\ Arrangement(RecalcSizes(r)) = Arrangement(r)
  BY <1>6, RecalcDraws
<1> QED BY <1>3, <1>4, <1>6, <1>7 DEF Arrangement, Unlit, SameSplits

\* Which view the panel shows changes no rectangle.
LEMMA SetLogModeDraws ==
  ASSUME NEW l, Drawn(l), NEW on \in BOOLEAN
  PROVE  /\ Drawn(SetLogMode(l, on)) /\ SameSplits(SetLogMode(l, on), l)
         /\ SetLogMode(l, on).shown = l.shown
<1> DEFINE m == [l EXCEPT !.log = on]
           k == SetLogMode(l, on)
<1>1. l \in LayoutRecord /\ WellFormed(l) /\ Lit(l) /\ Bare(l) /\ Boxed(l) /\ Sized(l)
  BY DEF Drawn, WellFormed
<1>2. m \in LayoutRecord /\ Geometry(m) = Geometry(l)
  BY <1>1 DEF LayoutRecord, Geometry
<1>3. k = [m EXCEPT !.rects = PaneRects(m)]
  BY DEF SetLogMode, RebuildPaneRects
<1>4. PaneRects(m) = PaneRects(l) /\ PaneRects(l) = l.rects
  BY <1>1, <1>2, SameGeometry DEF Boxed
<1>5. /\ k \in LayoutRecord /\ Geometry(k) = Geometry(l) /\ k.rects = l.rects
      /\ k.size = l.size /\ k.splits = l.splits /\ k.focus = l.focus /\ k.onPanel = l.onPanel
      /\ k.look = l.look /\ k.bare = l.bare /\ k.splitZoom = l.splitZoom /\ k.shown = l.shown
      /\ k.panelZoom = l.panelZoom
  BY <1>1, <1>3, <1>4 DEF LayoutRecord, Geometry
<1> HIDE DEF k
<1>6. WellFormed(k) /\ Lit(k) /\ Bare(k)
  BY <1>1, <1>5 DEF WellFormed, Lit, Bare, Panes, Focused
<1>7. Boxed(k) /\ Sized(k)
  BY <1>1, <1>5, SameGeometry DEF Boxed, Sized
<1> QED BY <1>5, <1>6, <1>7 DEF Drawn, SameSplits, k

LEMMA ToggleZoomSplitDraws ==
  ASSUME NEW l, Drawn(l)
  PROVE  Drawn(ToggleZoomSplit(l)) /\ SameSplits(ToggleZoomSplit(l), l)
<1> DEFINE bare == IF l.splitZoom THEN l.bare \ {Focused(l)} ELSE l.bare \cup {Focused(l)}
           k == [l EXCEPT !.splitZoom = ~l.splitZoom, !.bare = bare]
<1>1. l \in LayoutRecord /\ WellFormed(l) /\ Bare(l) /\ l.splitZoom \in BOOLEAN
  BY DEF Drawn, WellFormed, LayoutRecord
<1>2. Focused(l) \in Panes(l) /\ Focused(l) \in Pane
  BY <1>1, FocusedIsThere
<1>3. bare \in SUBSET Pane
      /\ bare \cap Panes(l) = IF ~l.splitZoom THEN {Focused(l)} ELSE {}
  BY <1>1, <1>2 DEF Bare, LayoutRecord
<1>4. ToggleZoomSplit(l) = RecalcSizes(k)
  BY DEF ToggleZoomSplit
<1> HIDE DEF bare
<1>5. /\ k \in LayoutRecord /\ k.splits = l.splits /\ k.focus = l.focus /\ k.look = l.look
      /\ k.onPanel = l.onPanel /\ k.shown = l.shown /\ k.panelZoom = l.panelZoom
      /\ k.bare = bare /\ k.splitZoom = ~l.splitZoom
  BY <1>1, <1>3 DEF LayoutRecord
<1> HIDE DEF k
<1> QED BY <1>1, <1>3, <1>4, <1>5, ResizedDraws DEF WellFormed

LEMMA ToggleZoomDetailDraws ==
  ASSUME NEW l, Drawn(l)
  PROVE  Drawn(ToggleZoomDetail(l)) /\ SameSplits(ToggleZoomDetail(l), l)
<1>1. l \in LayoutRecord /\ WellFormed(l) /\ Bare(l) /\ l.panelZoom \in BOOLEAN
      /\ l.shown \in BOOLEAN
  BY DEF Drawn, WellFormed, LayoutRecord
<1>2. ASSUME NEW zoom \in BOOLEAN, NEW bare \in SUBSET Panel, zoom => l.shown
      PROVE  LET k == RecalcSizes([l EXCEPT !.panelZoom = zoom, !.panelBare = bare]) IN
             Drawn(k) /\ SameSplits(k, l)
  <2> DEFINE k == [l EXCEPT !.panelZoom = zoom, !.panelBare = bare]
  <2>1. /\ k \in LayoutRecord /\ k.splits = l.splits /\ k.focus = l.focus /\ k.look = l.look
        /\ k.onPanel = l.onPanel /\ k.shown = l.shown /\ k.panelZoom = zoom
        /\ k.bare = l.bare /\ k.splitZoom = l.splitZoom
    BY <1>1 DEF LayoutRecord
  <2> HIDE DEF k
  <2>2. Drawn(RecalcSizes(k)) /\ SameSplits(RecalcSizes(k), l)
    BY <1>1, <1>2, <2>1, ResizedDraws DEF Bare, WellFormed
  <2> QED BY <2>2 DEF k
<1>3. l.panelBare \ {ActivePanel(l)} \in SUBSET Panel
      /\ l.panelBare \cup {ActivePanel(l)} \in SUBSET Panel
  BY <1>1 DEF LayoutRecord, ActivePanel, Panel
<1>4. CASE l.panelZoom
  BY <1>2, <1>3, <1>4 DEF ToggleZoomDetail
<1>5. CASE ~l.panelZoom /\ l.shown
  BY <1>2, <1>3, <1>5 DEF ToggleZoomDetail
<1>6. CASE ~l.panelZoom /\ ~l.shown
  BY <1>6 DEF ToggleZoomDetail, SameSplits
<1> QED BY <1>1, <1>4, <1>5, <1>6

LEMMA UnzoomAllDraws ==
  ASSUME NEW l, Drawn(l)
  PROVE  Drawn(UnzoomAll(l)) /\ SameSplits(UnzoomAll(l), l)
<1> DEFINE bare == IF l.splitZoom THEN l.bare \ {Focused(l)} ELSE l.bare
           k == [l EXCEPT !.panelBare = UnbarePanel(l), !.bare = bare,
                          !.splitZoom = FALSE, !.panelZoom = FALSE]
<1>1. l \in LayoutRecord /\ WellFormed(l) /\ Bare(l) /\ l.splitZoom \in BOOLEAN
  BY DEF Drawn, WellFormed, LayoutRecord
<1>2. UnbarePanel(l) \in SUBSET Panel
  BY <1>1, UnbarePanelTyped
<1>3. bare \in SUBSET Pane /\ bare \cap Panes(l) = {}
  BY <1>1 DEF Bare, LayoutRecord
<1>4. UnzoomAll(l) = RecalcSizes(k)
  BY DEF UnzoomAll
<1> HIDE DEF bare
<1>5. /\ k \in LayoutRecord /\ k.splits = l.splits /\ k.focus = l.focus /\ k.look = l.look
      /\ k.onPanel = l.onPanel /\ k.shown = l.shown /\ k.panelZoom = FALSE
      /\ k.bare = bare /\ k.splitZoom = FALSE
  BY <1>1, <1>2, <1>3 DEF LayoutRecord
<1> HIDE DEF k
<1> QED BY <1>1, <1>3, <1>4, <1>5, ResizedDraws DEF WellFormed

LEMMA ToggleOrientationDraws ==
  ASSUME NEW l, Drawn(l)
  PROVE  Drawn(ToggleOrientation(l)) /\ SameSplits(ToggleOrientation(l), l)
<1> DEFINE k == [l EXCEPT !.horizontal = ~l.horizontal]
<1>1. l \in LayoutRecord /\ WellFormed(l) /\ Bare(l)
  BY DEF Drawn, WellFormed
<1>2. /\ k \in LayoutRecord /\ k.splits = l.splits /\ k.focus = l.focus /\ k.look = l.look
      /\ k.onPanel = l.onPanel /\ k.shown = l.shown /\ k.panelZoom = l.panelZoom
      /\ k.bare = l.bare /\ k.splitZoom = l.splitZoom
  BY <1>1 DEF LayoutRecord
<1>3. ToggleOrientation(l) = RecalcSizes(k)
  BY DEF ToggleOrientation
<1> HIDE DEF k
<1> QED BY <1>1, <1>2, <1>3, ResizedDraws DEF Bare, WellFormed

LEMMA ResizeDraws ==
  ASSUME NEW l, Drawn(l), NEW win \in Windows
  PROVE  Drawn(Resize(l, win.w, win.h)) /\ SameSplits(Resize(l, win.w, win.h), l)
<1> DEFINE k == [l EXCEPT !.w = win.w, !.h = win.h - 1]
<1>1. l \in LayoutRecord /\ WellFormed(l) /\ Bare(l)
  BY DEF Drawn, WellFormed
<1>2. win.w \in Nat \ {0} /\ win.h - 1 \in Nat \ {0}
  BY WindowAssumption
<1>3. /\ k \in LayoutRecord /\ k.splits = l.splits /\ k.focus = l.focus /\ k.look = l.look
      /\ k.onPanel = l.onPanel /\ k.shown = l.shown /\ k.panelZoom = l.panelZoom
      /\ k.bare = l.bare /\ k.splitZoom = l.splitZoom
  BY <1>1, <1>2 DEF LayoutRecord
<1>4. Resize(l, win.w, win.h) = RecalcSizes(k)
  BY DEF Resize
<1> HIDE DEF k
<1> QED BY <1>1, <1>3, <1>4, ResizedDraws DEF Bare, WellFormed


-----------------------------------------------------------------------------
(* Methods that change the sequence of panes.                              *)

\* What the sequence of a drawn layout is.
LEMMA DrawnSplits ==
  ASSUME NEW l, Drawn(l)
  PROVE  /\ l \in LayoutRecord /\ WellFormed(l) /\ Bare(l) /\ l.splitZoom \in BOOLEAN
         /\ l.splits \in Seq(Pane) /\ IsInjective(l.splits)
         /\ Len(l.splits) \in Nat /\ l.focus \in 1 .. Len(l.splits)
<1>1. l \in LayoutRecord /\ WellFormed(l) /\ Bare(l)
  BY DEF Drawn, WellFormed
<1>2. l.splits \in Seq(Pane) /\ l.splitZoom \in BOOLEAN
  BY <1>1 DEF LayoutRecord
<1>3. Len(l.splits) \in Nat /\ DOMAIN l.splits = 1 .. Len(l.splits)
  BY <1>2
<1> QED BY <1>1, <1>2, <1>3 DEF WellFormed

LEMMA AddSplitDraws ==
  ASSUME NEW l, Drawn(l), NEW p \in Pane, p \notin Panes(l)
  PROVE  Drawn(AddSplit(l, p)) /\ Panes(AddSplit(l, p)) = Panes(l) \cup {p}
<1> DEFINE more == InsertAt(l.splits, l.focus + 1, p)
           look == [l.look EXCEPT ![p] = "blur"]
           bare == IF l.splitZoom THEN l.bare \ {Focused(l), p} ELSE l.bare \ {p}
           k == [l EXCEPT !.splits = more, !.focus = l.focus + 1, !.onPanel = FALSE,
                          !.look = look, !.bare = bare]
           r == ReconcileFocus(k)
           m == [r EXCEPT !.bare = IF l.splitZoom THEN r.bare \cup {p} ELSE r.bare]
<1>1. /\ l \in LayoutRecord /\ WellFormed(l) /\ Bare(l) /\ l.splitZoom \in BOOLEAN
      /\ l.splits \in Seq(Pane) /\ IsInjective(l.splits) /\ l.focus \in 1 .. Len(l.splits)
      /\ Len(l.splits) \in Nat /\ l.focus + 1 \in Nat
  BY DrawnSplits
<1>2. Focused(l) \in Panes(l) /\ Focused(l) \in Pane
  BY <1>1, FocusedIsThere
<1>3. /\ more \in Seq(Pane) /\ IsInjective(more) /\ Len(more) = Len(l.splits) + 1
      /\ more[l.focus + 1] = p /\ ToSet(more) = Panes(l) \cup {p}
  <2>1. l.focus + 1 \in 1 .. (Len(l.splits) + 1) /\ p \notin ToSet(l.splits)
    BY <1>1 DEF Panes
  <2> QED BY <1>1, <2>1, PutIn DEF Panes
<1>4. look \in [Pane -> {"focus", "dim", "blur"}] /\ bare \in SUBSET Pane
      /\ bare \cap ToSet(more) = {}
  BY <1>1, <1>3 DEF LayoutRecord, Bare
<1>5. AddSplit(l, p) = RecalcSizes(m)
  BY DEF AddSplit
<1> HIDE DEF more, look, bare
<1>6. /\ k \in LayoutRecord /\ k.splits = more /\ k.focus = l.focus + 1 /\ k.onPanel = FALSE
      /\ k.bare = bare /\ k.splitZoom = l.splitZoom /\ k.shown = l.shown
      /\ k.panelZoom = l.panelZoom
  BY <1>1, <1>3, <1>4 DEF LayoutRecord
<1> HIDE DEF k
<1>7. WellFormed(k)
  <2>1. l.focus + 1 \in DOMAIN more
    BY <1>1, <1>3
  <2> QED BY <1>1, <1>3, <1>6, <2>1 DEF WellFormed
<1>8. r \in LayoutRecord /\ WellFormed(r) /\ Lit(r) /\ Unlit(r) = Unlit(k)
  BY <1>7, ReconcileLights
<1>9. r.splits = more /\ r.focus = l.focus + 1 /\ r.bare = bare /\ r.splitZoom = l.splitZoom
      /\ Panes(r) = Panes(l) \cup {p} /\ Focused(r) = p
  BY <1>3, <1>6, <1>8 DEF Unlit, Panes, Focused
<1> HIDE DEF r
<1>10. /\ m \in LayoutRecord /\ m.splits = r.splits /\ m.focus = r.focus
       /\ m.splitZoom = r.splitZoom /\ m.onPanel = r.onPanel /\ m.look = r.look
       /\ m.shown = r.shown /\ m.panelZoom = r.panelZoom
       /\ m.bare = IF l.splitZoom THEN r.bare \cup {p} ELSE r.bare
  BY <1>8 DEF LayoutRecord
<1> HIDE DEF m
<1>11. Panes(m) = Panes(r) /\ Focused(m) = Focused(r)
  BY <1>10 DEF Panes, Focused
<1>12. WellFormed(m) /\ Lit(m)
  BY <1>8, <1>10, <1>11 DEF WellFormed, Lit
<1>13. Bare(m)
  BY <1>3, <1>4, <1>9, <1>10, <1>11 DEF Bare
<1>14. Drawn(RecalcSizes(m)) /\ Arrangement(RecalcSizes(m)) = Arrangement(m)
  BY <1>12, <1>13, RecalcDraws DEF Arranged
<1>15. Panes(RecalcSizes(m)) = Panes(m)
  BY <1>14, SplitsGivePanes DEF Arrangement
<1> QED BY <1>5, <1>9, <1>11, <1>14, <1>15

LEMMA CloseCurrentSplitDraws ==
  ASSUME NEW l, Drawn(l), CanClose(l)
  PROVE  /\ Drawn(CloseCurrentSplit(l))
         /\ Panes(CloseCurrentSplit(l)) = Panes(l) \ {Focused(l)}
<1> DEFINE left == RemoveAt(l.splits, l.focus)
           look == [l.look EXCEPT ![Focused(l)] = "blur"]
           size == [l.size EXCEPT ![Focused(l)] = Nothing]
           k == [l EXCEPT !.splits = left, !.focus = FocusLeft(l.focus, Len(left)),
                          !.onPanel = FALSE, !.bare = l.bare \ {Focused(l)},
                          !.look = look, !.size = size]
           r == ReconcileFocus(k)
           m == [r EXCEPT !.bare = IF l.splitZoom THEN r.bare \cup {Focused(r)} ELSE r.bare]
<1>1. /\ l \in LayoutRecord /\ WellFormed(l) /\ Bare(l) /\ l.splitZoom \in BOOLEAN
      /\ l.splits \in Seq(Pane) /\ IsInjective(l.splits) /\ l.focus \in 1 .. Len(l.splits)
      /\ Len(l.splits) \in Nat /\ Len(l.splits) > 1
  BY DrawnSplits DEF CanClose
<1>2. Focused(l) \in Panes(l) /\ Focused(l) \in Pane
  BY <1>1, FocusedIsThere
<1>3. /\ left \in Seq(Pane) /\ IsInjective(left) /\ Len(left) = Len(l.splits) - 1
      /\ ToSet(left) = Panes(l) \ {Focused(l)}
  BY <1>1, TakenOut DEF Panes, Focused
<1>4. /\ look \in [Pane -> {"focus", "dim", "blur"}]
      /\ size \in [Pane -> [w : Int, h : Int]]
      /\ l.bare \ {Focused(l)} \in SUBSET Pane
      /\ (l.bare \ {Focused(l)}) \cap ToSet(left) = {}
  <2>1. Nothing \in [w : Int, h : Int]
    BY DEF Nothing, Size
  <2>2. l.look \in [Pane -> {"focus", "dim", "blur"}] /\ l.size \in [Pane -> [w : Int, h : Int]]
        /\ l.bare \in SUBSET Pane
    BY <1>1 DEF LayoutRecord
  <2>3. l.bare \cap Panes(l) \subseteq {Focused(l)}
    BY <1>1 DEF Bare
  <2>4. look \in [Pane -> {"focus", "dim", "blur"}] /\ size \in [Pane -> [w : Int, h : Int]]
    BY <1>2, <2>1, <2>2
  <2> HIDE DEF left, look, size
  <2> QED BY <1>3, <2>2, <2>3, <2>4
<1>5. FocusLeft(l.focus, Len(left)) \in DOMAIN left
      /\ FocusLeft(l.focus, Len(left)) \in Nat
  BY <1>1, <1>3 DEF FocusLeft
<1>6. CloseCurrentSplit(l) = RecalcSizes(m)
  BY DEF CloseCurrentSplit
<1> HIDE DEF left, look, size
<1>7. /\ k \in LayoutRecord /\ k.splits = left /\ k.focus = FocusLeft(l.focus, Len(left))
      /\ k.onPanel = FALSE /\ k.bare = l.bare \ {Focused(l)} /\ k.splitZoom = l.splitZoom
      /\ k.shown = l.shown /\ k.panelZoom = l.panelZoom
  BY <1>1, <1>3, <1>4, <1>5 DEF LayoutRecord
<1> HIDE DEF k
<1>8. WellFormed(k)
  BY <1>1, <1>3, <1>5, <1>7 DEF WellFormed
<1>9. r \in LayoutRecord /\ WellFormed(r) /\ Lit(r) /\ Unlit(r) = Unlit(k)
  BY <1>8, ReconcileLights
<1>10. r.splits = left /\ r.bare = l.bare \ {Focused(l)} /\ r.splitZoom = l.splitZoom
       /\ Panes(r) = Panes(l) \ {Focused(l)}
  BY <1>3, <1>7, <1>9 DEF Unlit, Panes
<1>11. Focused(r) \in Panes(r) /\ Focused(r) \in Pane
  BY <1>9, FocusedIsThere
<1> HIDE DEF r
<1>12. /\ m \in LayoutRecord /\ m.splits = r.splits /\ m.focus = r.focus
       /\ m.splitZoom = r.splitZoom /\ m.onPanel = r.onPanel /\ m.look = r.look
       /\ m.shown = r.shown /\ m.panelZoom = r.panelZoom
       /\ m.bare = IF l.splitZoom THEN r.bare \cup {Focused(r)} ELSE r.bare
  BY <1>9, <1>11 DEF LayoutRecord
<1> HIDE DEF m
<1>13. Panes(m) = Panes(r) /\ Focused(m) = Focused(r)
  BY <1>12 DEF Panes, Focused
<1>14. WellFormed(m) /\ Lit(m)
  BY <1>9, <1>12, <1>13 DEF WellFormed, Lit
<1>15. Bare(m)
  BY <1>3, <1>4, <1>10, <1>11, <1>12, <1>13 DEF Bare
<1>16. Drawn(RecalcSizes(m)) /\ Arrangement(RecalcSizes(m)) = Arrangement(m)
  BY <1>14, <1>15, RecalcDraws DEF Arranged
<1>17. Panes(RecalcSizes(m)) = Panes(m)
  BY <1>16, SplitsGivePanes DEF Arrangement
<1> QED BY <1>6, <1>10, <1>13, <1>16, <1>17

LEMMA MoveFocusedSplitDraws ==
  ASSUME NEW l, Drawn(l), NEW d \in {-1, 1}, CanMove(l, d)
  PROVE  Drawn(MoveFocusedSplit(l, d)) /\ Panes(MoveFocusedSplit(l, d)) = Panes(l)
<1> DEFINE moved == [l.splits EXCEPT ![l.focus] = l.splits[l.focus + d],
                                     ![l.focus + d] = l.splits[l.focus]]
           k == [l EXCEPT !.splits = moved, !.focus = l.focus + d, !.onPanel = FALSE]
           r == ReconcileFocus(k)
<1>1. /\ l \in LayoutRecord /\ WellFormed(l) /\ Bare(l) /\ l.splitZoom \in BOOLEAN
      /\ l.splits \in Seq(Pane) /\ IsInjective(l.splits) /\ l.focus \in 1 .. Len(l.splits)
      /\ l.focus + d \in 1 .. Len(l.splits) /\ l.focus + d \in Nat
  BY DrawnSplits DEF CanMove
<1>2. /\ moved \in Seq(Pane) /\ IsInjective(moved) /\ Len(moved) = Len(l.splits)
      /\ moved[l.focus + d] = Focused(l) /\ ToSet(moved) = Panes(l)
  <2> DEFINE s == l.splits
             i == l.focus
             j == l.focus + d
             to == [s EXCEPT ![i] = s[j], ![j] = s[i]]
  <2>1. s \in Seq(Pane) /\ IsInjective(s) /\ i \in 1 .. Len(s) /\ j \in 1 .. Len(s)
    BY <1>1
  <2>2. moved = to
    OBVIOUS
  <2> HIDE DEF moved, s, i, j
  <2>3. to \in Seq(Pane) /\ IsInjective(to) /\ Len(to) = Len(s)
        /\ to[j] = s[i] /\ ToSet(to) = ToSet(s)
    <3> DEFINE Is(f) == f \in Seq(Pane) /\ IsInjective(f) /\ Len(f) = Len(s)
                        /\ f[j] = s[i] /\ ToSet(f) = ToSet(s)
    <3>1. Is([s EXCEPT ![i] = s[j], ![j] = s[i]])
      BY <2>1, Swapped, ZenonT(90)
    <3> QED BY <3>1
  <2> HIDE DEF to
  <2> QED BY <2>2, <2>3 DEF Panes, Focused, s, i, j
<1>3. MoveFocusedSplit(l, d) = RecalcSizes(r)
  BY DEF MoveFocusedSplit, Focused
<1> HIDE DEF moved
<1>4. /\ k \in LayoutRecord /\ k.splits = moved /\ k.focus = l.focus + d /\ k.onPanel = FALSE
      /\ k.bare = l.bare /\ k.splitZoom = l.splitZoom /\ k.shown = l.shown
      /\ k.panelZoom = l.panelZoom
  BY <1>1, <1>2 DEF LayoutRecord
<1> HIDE DEF k
<1>5. l.focus + d \in DOMAIN moved
  BY <1>1, <1>2
<1>6. WellFormed(k)
  BY <1>1, <1>2, <1>4, <1>5 DEF WellFormed
<1>7. Panes(k) = Panes(l) /\ Focused(k) = Focused(l)
  BY <1>2, <1>4 DEF Panes, Focused
<1>8. Bare(k)
  BY <1>1, <1>4, <1>7 DEF Bare
<1>9. Arranged(r) /\ Unlit(r) = Unlit(k)
  BY <1>6, <1>8, ReconcileDraws, ReconcileLights
<1> HIDE DEF r
<1>10. Drawn(RecalcSizes(r)) /\ Arrangement(RecalcSizes(r)) = Arrangement(r)
  BY <1>9, RecalcDraws
<1>11. RecalcSizes(r).splits = k.splits
  BY <1>9, <1>10 DEF Arrangement, Unlit
<1> QED BY <1>3, <1>7, <1>10, <1>11, SplitsGivePanes

LEMMA NewLayoutDraws ==
  ASSUME NEW p \in Lists, NEW win \in Windows
  PROVE  Drawn(NewLayout(p, win.w, win.h)) /\ Panes(NewLayout(p, win.w, win.h)) = {p}
<1> DEFINE k == [splits |-> <<p>>, focus |-> 1, onPanel |-> FALSE, shown |-> FALSE,
                 log |-> FALSE, splitZoom |-> FALSE, panelZoom |-> FALSE,
                 horizontal |-> FALSE, w |-> win.w, h |-> win.h - 1,
                 look |-> [q \in Pane |-> "blur"], bare |-> {},
                 size |-> [q \in Pane |-> Nothing], panelFocus |-> {}, panelBare |-> {},
                 panelSize |-> [v \in Panel |-> Size(0, win.h - 1)], rects |-> {}]
           r == ReconcileFocus(k)
<1>1. win.w \in Nat \ {0} /\ win.h - 1 \in Nat \ {0}
  BY WindowAssumption
<1>2. /\ <<p>> \in Seq(Pane) /\ IsInjective(<<p>>) /\ ToSet(<<p>>) = {p}
      /\ 1 \in DOMAIN <<p>>
  BY DEF Pane, IsInjective, ToSet
<1>3. /\ [q \in Pane |-> "blur"] \in [Pane -> {"focus", "dim", "blur"}]
      /\ [q \in Pane |-> Nothing] \in [Pane -> [w : Int, h : Int]]
      /\ [v \in Panel |-> Size(0, win.h - 1)] \in [Panel -> [w : Int, h : Int]]
  BY <1>1 DEF Nothing, Size
<1>4. k \in LayoutRecord
  BY <1>1, <1>2, <1>3 DEF LayoutRecord
<1>5. WellFormed(k) /\ Bare(k) /\ Panes(k) = {p}
  BY <1>2, <1>4 DEF WellFormed, Bare, Panes
<1>6. NewLayout(p, win.w, win.h) = RecalcSizes(r)
  BY DEF NewLayout
<1> HIDE DEF k
<1>7. Arranged(r) /\ Unlit(r) = Unlit(k)
  BY <1>5, ReconcileDraws, ReconcileLights
<1> HIDE DEF r
<1>8. Drawn(RecalcSizes(r)) /\ Arrangement(RecalcSizes(r)) = Arrangement(r)
  BY <1>7, RecalcDraws
<1>9. RecalcSizes(r).splits = k.splits
  BY <1>7, <1>8 DEF Arrangement, Unlit
<1> QED BY <1>5, <1>6, <1>8, <1>9, SplitsGivePanes


-----------------------------------------------------------------------------
(* Every command keeps the layout drawn.                                   *)

TermTyped == term \in [Terminals -> {"none", "preflight", "running", "closed", "exited"}]
TermThere == \A t \in Terminals : term[t] # "none" <=> t \in Panes(lay)

ShellInv == Drawn(lay) /\ TermTyped /\ TermThere

\* A command that only rearranges the panes there are.
LEMMA Rearranges ==
  ASSUME ShellInv, UNCHANGED term, Drawn(lay'), Panes(lay') = Panes(lay)
  PROVE  ShellInv'
BY DEF ShellInv, TermTyped, TermThere

LEMMA SameSplitsPanes ==
  ASSUME NEW k, NEW l, SameSplits(k, l) PROVE Panes(k) = Panes(l)
BY DEF SameSplits, Panes

LEMMA UnzoomedDraws ==
  ASSUME NEW l, Drawn(l) PROVE Drawn(Unzoomed(l)) /\ SameSplits(Unzoomed(l), l)
BY UnzoomAllDraws DEF Unzoomed, SameSplits

LEMMA ResourcesIfShownDraws ==
  ASSUME NEW l, Drawn(l)
  PROVE  Drawn(ResourcesIfShown(l)) /\ SameSplits(ResourcesIfShown(l), l)
BY FocusResourcesDraws DEF ResourcesIfShown, SameSplits

LEMMA CloseRightPanelDraws ==
  ASSUME NEW l, Drawn(l) PROVE Drawn(CloseRightPanel(l)) /\ SameSplits(CloseRightPanel(l), l)
<1>1. Drawn(SetLogMode(l, FALSE)) /\ SameSplits(SetLogMode(l, FALSE), l)
  BY SetLogModeDraws
<1> DEFINE k == SetLogMode(l, FALSE)
<1> HIDE DEF k
<1>2. Drawn(k) /\ SameSplits(k, l)
  BY <1>1 DEF k
<1>3. Drawn(HideRightPanel(k)) /\ SameSplits(HideRightPanel(k), k)
  BY <1>2, HideRightPanelDraws
<1> QED BY <1>2, <1>3 DEF CloseRightPanel, SameSplits, k

\* The commands that move the focus.
LEMMA FocusKeeps ==
  ASSUME ShellInv,
         \/ \E d \in {-1, 1} : FocusStepKey(d) \/ PrefixFocusStep(d)
         \/ EnterPanel \/ LeavePanel \/ Drill
         \/ \E r \in lay.rects : Click(r)
  PROVE  ShellInv'
<1> USE DEF Rearranged, RearrangedAndSynced
<1>0. Drawn(lay) /\ lay.rects = PaneRects(lay)
  BY DEF ShellInv, Drawn, Boxed
<1>1. ASSUME NEW d \in {-1, 1}, FocusStepKey(d) \/ PrefixFocusStep(d) PROVE ShellInv'
  BY <1>0, <1>1, FocusStepDraws, SplitsGivePanes, Rearranges DEF FocusStepKey, PrefixFocusStep
<1>2. CASE EnterPanel
  BY <1>0, <1>2, FocusDetailsDraws, SameSplitsPanes, Rearranges DEF EnterPanel
<1>3. CASE LeavePanel
  BY <1>0, <1>3, ToggleZoomDetailDraws, FocusResourcesDraws, SameSplitsPanes, Rearranges
     DEF LeavePanel
<1>4. CASE Drill
  BY <1>0, <1>4, ResourcesIfShownDraws, SameSplitsPanes, Rearranges DEF Drill
<1>5. ASSUME NEW r \in lay.rects, Click(r) PROVE ShellInv'
  <2>1. CASE r.at = 0
    BY <1>0, <1>5, <2>1, FocusDetailsDraws, SameSplitsPanes, Rearranges DEF Click
  <2>2. CASE r.at # 0
    <3>1. lay \in LayoutRecord /\ lay.focus \in DOMAIN lay.splits
          /\ \A i \in DOMAIN lay.splits : SplitRect(lay, i).at = i
          /\ PanelRect(lay).at = 0
      BY <1>0, RectsTyped DEF Drawn, WellFormed
    <3>2. r.at \in DOMAIN lay.splits
      BY <1>0, <1>5, <2>2, <3>1 DEF PaneRects, WholeRect
    <3>3. Drawn(FocusSplitAt(lay, r.at)) /\ Panes(FocusSplitAt(lay, r.at)) = Panes(lay)
      BY <1>0, <3>2, FocusSplitAtDraws, SplitsGivePanes
    <3> QED BY <1>5, <2>2, <3>3, Rearranges DEF Click
  <2> QED BY <2>1, <2>2
<1> QED BY <1>1, <1>2, <1>3, <1>4, <1>5

LEMMA ZoomKeeps == ASSUME ShellInv, ZoomPanel \/ ZoomSplit PROVE ShellInv'
<1> USE DEF Rearranged, RearrangedAndSynced
<1>0. Drawn(lay)
  BY DEF ShellInv
<1>1. CASE ZoomPanel
  BY <1>0, <1>1, ToggleZoomDetailDraws, SameSplitsPanes, Rearranges DEF ZoomPanel
<1>2. CASE ZoomSplit
  BY <1>0, <1>2, ToggleZoomSplitDraws, SameSplitsPanes, Rearranges DEF ZoomSplit
<1> QED BY <1>1, <1>2

\* Order, orientation, zoom and the window.
LEMMA FormKeeps ==
  ASSUME ShellInv,
         \/ \E d \in {-1, 1} : MovePane(d)
         \/ ToggleOrientationKey \/ ToggleZoom \/ ClearOverlay
         \/ \E win \in Windows : WindowSize(win)
  PROVE  ShellInv'
<1> USE DEF Rearranged, RearrangedAndSynced
<1>0. Drawn(lay)
  BY DEF ShellInv
<1>1. ASSUME NEW d \in {-1, 1}, MovePane(d) PROVE ShellInv'
  <2>1. Drawn(lay') /\ Panes(lay') = Panes(lay)
    BY <1>0, <1>1, MoveFocusedSplitDraws DEF MovePane
  <2> QED BY <1>1, <2>1, Rearranges DEF MovePane
<1>2. CASE ToggleOrientationKey
  BY <1>0, <1>2, ToggleOrientationDraws, SameSplitsPanes, Rearranges DEF ToggleOrientationKey
<1>3. CASE ToggleZoom \/ ClearOverlay
  BY <1>3, ZoomKeeps DEF ToggleZoom, ClearOverlay
<1>4. ASSUME NEW win \in Windows, WindowSize(win) PROVE ShellInv'
  BY <1>0, <1>4, ResizeDraws, SameSplitsPanes, Rearranges DEF WindowSize
<1> QED BY <1>1, <1>2, <1>3, <1>4

\* The right panel.
LEMMA PanelKeeps ==
  ASSUME ShellInv,
         \/ \E mode \in {"yaml", "logs"}, focused \in BOOLEAN : View(mode, focused)
         \/ \E loggable \in BOOLEAN : NamespaceSwitch(loggable)
         \/ ContextSwitch \/ ReloadAll \/ Goto \/ GotoContexts
  PROVE  ShellInv'
<1> USE DEF Rearranged, RearrangedAndSynced
<1>0. Drawn(lay)
  BY DEF ShellInv
<1>1. ASSUME NEW mode \in {"yaml", "logs"}, NEW focused \in BOOLEAN, View(mode, focused)
      PROVE  ShellInv'
  <2> DEFINE a == SetLogMode(lay, mode = "logs")
             b == ShowRightPanel(a)
  <2>1. Drawn(a) /\ SameSplits(a, lay)
    BY <1>0, SetLogModeDraws
  <2>2. lay' = (IF focused THEN FocusDetails(b) ELSE b) /\ UNCHANGED term
    BY <1>1 DEF View
  <2> HIDE DEF a
  <2>3. Drawn(b) /\ SameSplits(b, a)
    BY <2>1, ShowRightPanelDraws
  <2> HIDE DEF b
  <2>4. Drawn(lay') /\ SameSplits(lay', b)
    BY <2>2, <2>3, FocusDetailsDraws DEF SameSplits
  <2>5. Panes(lay') = Panes(lay)
    BY <2>1, <2>3, <2>4, SameSplitsPanes
  <2> QED BY <2>2, <2>4, <2>5, Rearranges
<1> DEFINE off == SetLogMode(lay, FALSE)
<1>2. Drawn(off) /\ SameSplits(off, lay)
  BY <1>0, SetLogModeDraws
<1> HIDE DEF off
<1>3. ASSUME NEW loggable \in BOOLEAN, NamespaceSwitch(loggable) PROVE ShellInv'
  <2>1. lay' = (IF lay.log /\ loggable THEN SetLogMode(off, TRUE) ELSE off) /\ UNCHANGED term
    BY <1>3 DEF NamespaceSwitch, off
  <2>2. Drawn(lay') /\ SameSplits(lay', off)
    BY <1>2, <2>1, SetLogModeDraws DEF SameSplits
  <2>3. Panes(lay') = Panes(lay)
    BY <1>2, <2>2, SameSplitsPanes
  <2> QED BY <2>1, <2>2, <2>3, Rearranges
<1>4. CASE ContextSwitch
  BY <1>2, <1>4, SameSplitsPanes, Rearranges DEF ContextSwitch, off
<1>5. CASE ReloadAll
  <2> DEFINE a == Unzoomed(off)
             b == FocusResources(a)
  <2>1. Drawn(a) /\ SameSplits(a, off)
    BY <1>2, UnzoomedDraws
  <2>2. lay' = (IF lay.shown /\ lay.log THEN SetLogMode(b, TRUE) ELSE b) /\ UNCHANGED term
    BY <1>5 DEF ReloadAll, off
  <2> HIDE DEF a
  <2>3. Drawn(b) /\ SameSplits(b, a)
    BY <2>1, FocusResourcesDraws
  <2> HIDE DEF b
  <2>4. Drawn(lay') /\ SameSplits(lay', b)
    BY <2>2, <2>3, SetLogModeDraws DEF SameSplits
  <2>5. Panes(lay') = Panes(lay)
    BY <1>2, <2>1, <2>3, <2>4, SameSplitsPanes
  <2> QED BY <2>2, <2>4, <2>5, Rearranges
<1>6. CASE Goto
  BY <1>0, <1>6, UnzoomedDraws, SameSplitsPanes, Rearranges DEF Goto
<1>7. CASE GotoContexts
  <2> DEFINE a == Unzoomed(lay)
  <2>1. Drawn(a) /\ SameSplits(a, lay)
    BY <1>0, UnzoomedDraws
  <2>2. lay' = ResourcesIfShown(a) /\ UNCHANGED term
    BY <1>7 DEF GotoContexts
  <2> HIDE DEF a
  <2>3. Drawn(lay') /\ SameSplits(lay', a)
    BY <2>1, <2>2, ResourcesIfShownDraws
  <2>4. Panes(lay') = Panes(lay)
    BY <2>1, <2>3, SameSplitsPanes
  <2> QED BY <2>2, <2>3, <2>4, Rearranges
<1> QED BY <1>1, <1>3, <1>4, <1>5, <1>6, <1>7

\* Opening panes.
LEMMA OpenKeeps ==
  ASSUME ShellInv,
         \/ \E p \in Lists : Split(p)
         \/ \E t \in Terminals : OpenExec(t) \/ OpenDebug(t)
  PROVE  ShellInv'
<1>0. Drawn(lay) /\ TermTyped /\ TermThere
  BY DEF ShellInv
<1>1. ASSUME NEW p \in Lists, Split(p) PROVE ShellInv'
  <2> DEFINE a == Unzoomed(lay)
  <2>1. Drawn(a) /\ Panes(a) = Panes(lay)
    BY <1>0, UnzoomedDraws, SameSplitsPanes
  <2>2. lay' = AddSplit(a, p) /\ UNCHANGED term /\ p \notin Panes(lay) /\ p \in Pane
    BY <1>1 DEF Split, Rearranged, Pane
  <2> HIDE DEF a
  <2>3. Drawn(lay') /\ Panes(lay') = Panes(lay) \cup {p}
    BY <2>1, <2>2, AddSplitDraws
  <2>4. p \notin Terminals
    BY PaneAssumption
  <2> QED BY <1>0, <2>2, <2>3, <2>4 DEF ShellInv, TermTyped, TermThere
<1>2. ASSUME NEW t \in Terminals, OpenExec(t) \/ OpenDebug(t) PROVE ShellInv'
  <2>1. PICK status \in {"running", "preflight"} :
          /\ lay' = AddSplit(lay, t) /\ term' = [term EXCEPT ![t] = status]
          /\ t \notin Panes(lay)
    BY <1>2 DEF OpenExec, OpenDebug, OpenTerminal
  <2>2. t \in Pane
    BY DEF Pane
  <2>3. Drawn(lay') /\ Panes(lay') = Panes(lay) \cup {t}
    BY <1>0, <2>1, <2>2, AddSplitDraws
  <2> QED BY <1>0, <2>1, <2>3 DEF ShellInv, TermTyped, TermThere
<1> QED BY <1>1, <1>2

LEMMA CloseFocusedKeeps == ASSUME ShellInv, CloseFocusedSplit PROVE ShellInv'
<1>0. Drawn(lay) /\ TermTyped /\ TermThere
  BY DEF ShellInv
<1>1. Drawn(lay') /\ Panes(lay') = Panes(lay) \ {Focused(lay)}
  BY <1>0, CloseCurrentSplitDraws DEF CloseFocusedSplit
<1>2. term' = IF Focused(lay) \in Terminals THEN [term EXCEPT ![Focused(lay)] = "none"] ELSE term
  BY DEF CloseFocusedSplit
<1> QED BY <1>0, <1>1, <1>2 DEF ShellInv, TermTyped, TermThere

\* What happens to terminals, and closing panes.
LEMMA CloseKeeps ==
  ASSUME ShellInv,
         \/ \E t \in Terminals : DebugReady(t) \/ DebugFailed(t) \/ ShellExits(t)
         \/ PrefixClose \/ CloseCurrentPanel \/ Quit
  PROVE  ShellInv'
<1>0. Drawn(lay) /\ TermTyped /\ TermThere
  BY DEF ShellInv
<1>1. ASSUME NEW t \in Terminals, DebugReady(t) \/ ShellExits(t) PROVE ShellInv'
  BY <1>0, <1>1 DEF DebugReady, ShellExits, ShellInv, TermTyped, TermThere
<1>2. ASSUME NEW t \in Terminals, DebugFailed(t) PROVE ShellInv'
  <2> DEFINE at == IF Focused(lay) = t THEN lay ELSE FocusSplitAt(lay, IndexOf(lay, t))
  <2>1. lay \in LayoutRecord /\ t \in Panes(lay) /\ lay.focus \in DOMAIN lay.splits
    BY <1>0, <1>2 DEF Drawn, WellFormed, DebugFailed, TermThere
  <2>2. IndexOf(lay, t) \in DOMAIN lay.splits /\ lay.splits[IndexOf(lay, t)] = t
    BY <2>1, IndexFound
  <2>3. Drawn(at) /\ at.splits = lay.splits /\ Focused(at) = t
    BY <1>0, <2>1, <2>2, FocusSplitAtDraws DEF Focused
  <2>4. CASE CanClose(lay)
    <3>1. lay' = CloseCurrentSplit(at) /\ term' = [term EXCEPT ![t] = "none"]
      BY <1>2, <2>4 DEF DebugFailed
    <3> HIDE DEF at
    <3>2. CanClose(at) /\ Panes(at) = Panes(lay)
      BY <2>3, <2>4, SplitsGivePanes DEF CanClose
    <3>3. Drawn(lay') /\ Panes(lay') = Panes(lay) \ {t}
      BY <2>3, <3>1, <3>2, CloseCurrentSplitDraws
    <3> QED BY <1>0, <3>1, <3>3 DEF ShellInv, TermTyped, TermThere
  <2>5. CASE ~CanClose(lay)
    BY <1>0, <1>2, <2>5 DEF DebugFailed, ShellInv, TermTyped, TermThere
  <2> QED BY <2>4, <2>5
<1>3. CASE PrefixClose
  <2>1. CASE CloseFocusedSplit
    BY <2>1, CloseFocusedKeeps
  <2>2. CASE ~CloseFocusedSplit
    <3>1. /\ UNCHANGED lay /\ Focused(lay) \in Terminals
          /\ term' = [term EXCEPT ![Focused(lay)] = "closed"]
      BY <1>3, <2>2 DEF PrefixClose, TakesKeys
    <3>2. Focused(lay) \in Panes(lay)
      BY <1>0, FocusedIsThere DEF Drawn
    <3> QED BY <1>0, <3>1, <3>2 DEF ShellInv, TermTyped, TermThere
  <2> QED BY <2>1, <2>2
<1>4. ASSUME Rearranged(CloseRightPanel(lay)) PROVE ShellInv'
  BY <1>0, <1>4, CloseRightPanelDraws, SameSplitsPanes, Rearranges DEF Rearranged
<1>5. CASE CloseCurrentPanel
  BY <1>4, <1>5, CloseFocusedKeeps DEF CloseCurrentPanel
<1>6. CASE Quit
  BY <1>4, <1>6, CloseFocusedKeeps, ZoomKeeps DEF Quit, AnyZoomed
<1> QED BY <1>1, <1>2, <1>3, <1>5, <1>6

LEMMA ShellInitInv == ASSUME Init PROVE ShellInv
<1>1. PICK p \in Lists, win \in Windows : lay = NewLayout(p, win.w, win.h)
  BY DEF Init
<1>2. Drawn(lay) /\ Panes(lay) = {p}
  BY <1>1, NewLayoutDraws
<1>3. p \notin Terminals
  BY PaneAssumption
<1> QED BY <1>2, <1>3 DEF Init, ShellInv, TermTyped, TermThere

LEMMA ShellKeepsInv == ASSUME ShellInv, [Next]_vars PROVE ShellInv'
<1>1. CASE UNCHANGED vars
  BY <1>1 DEF vars, ShellInv, TermTyped, TermThere
<1>2. CASE Next
  BY <1>2, FocusKeeps, FormKeeps, PanelKeeps, OpenKeeps, CloseKeeps DEF Next
<1> QED BY <1>1, <1>2

-----------------------------------------------------------------------------
(* What is drawn.                                                          *)

\* One rectangle covers a point if one can be named.
LEMMA CoveredOnce ==
  ASSUME NEW x, NEW y, NEW one \in lay.rects, \A r \in lay.rects : Covers(r, x, y) <=> r = one
  PROVE  Cardinality({r \in lay.rects : Covers(r, x, y)}) = 1
<1>1. {r \in lay.rects : Covers(r, x, y)} = {one}
  OBVIOUS
<1> QED BY <1>1, FS_Singleton

\* The rectangles of panes that are not zoomed: the strips, and the panel's.
LEMMA StripsTile ==
  ASSUME NEW l, WellFormed(l), EffectiveZoom(l) = "none",
         NEW x \in 0 .. (l.w - 1), NEW y \in 0 .. (l.h - 1)
  PROVE  \E one \in PaneRects(l) : \A r \in PaneRects(l) : Covers(r, x, y) <=> r = one
<1> DEFINE n == Len(l.splits)
           p == PanelSizes(l)[1]
           q == PanelSizes(l)[2]
<1>1. /\ l \in LayoutRecord /\ l.w \in Nat \ {0} /\ l.h \in Nat \ {0}
      /\ l.shown \in BOOLEAN /\ l.horizontal \in BOOLEAN
  BY DEF WellFormed, LayoutRecord
<1>2. n \in Nat \ {0} /\ DOMAIN l.splits = 1 .. n
  <2>1. l.splits \in Seq(Pane)
    BY <1>1 DEF LayoutRecord
  <2> QED BY <2>1 DEF WellFormed
<1>3. PaneRects(l) = {SplitRect(l, i) : i \in 1 .. n} \cup (IF l.shown THEN {PanelRect(l)} ELSE {})
  BY <1>1, <1>2 DEF PaneRects
<1>4. /\ p \in Nat /\ q \in Nat
      /\ p + q = IF l.horizontal THEN l.h ELSE l.w
      /\ ~l.shown => q = 0
  <2> DEFINE whole == IF l.horizontal THEN l.h ELSE l.w
             first == IF l.shown THEN whole \div 2 ELSE whole
  <2>1. whole \in Nat
    BY <1>1
  <2>2. p = first /\ q = whole - first
    BY DEF PanelSizes
  <2> HIDE DEF whole, p, q
  <2>3. first \in Nat /\ first <= whole /\ (~l.shown => first = whole)
    BY <1>1, <2>1
  <2> HIDE DEF first
  <2>4. p \in Nat /\ q \in Nat /\ p + q = whole /\ (~l.shown => q = 0)
    BY <2>1, <2>2, <2>3
  <2> QED BY <2>4 DEF whole
<1> HIDE DEF n, p, q
<1>5. \A i \in 1 .. n : StripAt(i, n, l.w) \in Nat /\ StripLen(i, n, l.w) \in Nat
  BY <1>1, <1>2, StripsTyped
<1>6. \A i \in 1 .. n : StripAt(i, n, l.h) \in Nat /\ StripLen(i, n, l.h) \in Nat
  BY <1>1, <1>2, StripsTyped
<1>7. /\ \A i \in 1 .. n : SplitRect(l, i).at = i
      /\ PanelRect(l).at = 0
  <2>1. \A i \in DOMAIN l.splits : SplitRect(l, i).at = i
    BY <1>1, RectsTyped
  <2> QED BY <1>2, <2>1 DEF PanelRect
<1>8. CASE l.horizontal
  <2>1. \A i \in 1 .. n : Covers(SplitRect(l, i), x, y) <=> InStrip(x, i, n, l.w) /\ y < p
    <3>1. ASSUME NEW i \in 1 .. n
          PROVE  Covers(SplitRect(l, i), x, y) <=> InStrip(x, i, n, l.w) /\ y < p
      <4>1. SplitRect(l, i) = [x |-> StripAt(i, n, l.w), y |-> 0, w |-> StripLen(i, n, l.w),
                               h |-> p, at |-> i]
        BY <1>8 DEF SplitRect, n, p
      <4> QED BY <1>1, <1>4, <4>1 DEF Covers, InStrip
    <3> QED BY <3>1
  <2>2. Covers(PanelRect(l), x, y) <=> ~(y < p)
    <3>1. PanelRect(l) = [x |-> 0, y |-> p, w |-> l.w, h |-> q, at |-> 0]
      BY <1>8 DEF PanelRect, p, q
    <3> QED BY <1>1, <1>4, <1>8, <3>1 DEF Covers
  <2>3. PICK i \in 1 .. n : \A j \in 1 .. n : InStrip(x, j, n, l.w) <=> j = i
    BY <1>1, <1>2, OneStrip
  <2>4. CASE y < p
    <3>1. \A r \in PaneRects(l) : Covers(r, x, y) <=> r = SplitRect(l, i)
      BY <1>3, <1>7, <2>1, <2>2, <2>3, <2>4
    <3> QED BY <1>3, <3>1
  <2>5. CASE ~(y < p)
    <3>1. l.shown
      BY <1>1, <1>4, <1>8, <2>5
    <3>2. \A r \in PaneRects(l) : Covers(r, x, y) <=> r = PanelRect(l)
      BY <1>3, <1>7, <2>1, <2>2, <2>5
    <3> QED BY <1>3, <3>1, <3>2
  <2> QED BY <2>4, <2>5
<1>9. CASE ~l.horizontal
  <2>1. \A i \in 1 .. n : Covers(SplitRect(l, i), x, y) <=> InStrip(y, i, n, l.h) /\ x < p
    <3>1. ASSUME NEW i \in 1 .. n
          PROVE  Covers(SplitRect(l, i), x, y) <=> InStrip(y, i, n, l.h) /\ x < p
      <4>1. SplitRect(l, i) = [x |-> 0, y |-> StripAt(i, n, l.h), w |-> p,
                               h |-> StripLen(i, n, l.h), at |-> i]
        BY <1>9 DEF SplitRect, n, p
      <4> QED BY <1>1, <1>4, <4>1 DEF Covers, InStrip
    <3> QED BY <3>1
  <2>2. Covers(PanelRect(l), x, y) <=> ~(x < p)
    <3>1. PanelRect(l) = [x |-> p, y |-> 0, w |-> q, h |-> l.h, at |-> 0]
      BY <1>9 DEF PanelRect, p, q
    <3> QED BY <1>1, <1>4, <1>9, <3>1 DEF Covers
  <2>3. PICK i \in 1 .. n : \A j \in 1 .. n : InStrip(y, j, n, l.h) <=> j = i
    BY <1>1, <1>2, OneStrip
  <2>4. CASE x < p
    <3>1. \A r \in PaneRects(l) : Covers(r, x, y) <=> r = SplitRect(l, i)
      BY <1>3, <1>7, <2>1, <2>2, <2>3, <2>4
    <3> QED BY <1>3, <3>1
  <2>5. CASE ~(x < p)
    <3>1. l.shown
      BY <1>1, <1>4, <1>9, <2>5
    <3>2. \A r \in PaneRects(l) : Covers(r, x, y) <=> r = PanelRect(l)
      BY <1>3, <1>7, <2>1, <2>2, <2>5
    <3> QED BY <1>3, <3>1, <3>2
  <2> QED BY <2>4, <2>5
<1> QED BY <1>1, <1>8, <1>9

\* The size a pane was given is that of the rectangle it has, or none.
LEMMA GivenRect ==
  ASSUME NEW l, WellFormed(l), NEW i \in DOMAIN l.splits
  PROVE  LET here == {r \in PaneRects(l) : r.at = i} IN
         IF here = {} THEN PaneSize(l, i) = Nothing
         ELSE \E r \in here : PaneSize(l, i) = Size(r.w, r.h + (IF l.splitZoom THEN 1 ELSE 0))
<1> DEFINE here == {r \in PaneRects(l) : r.at = i}
<1>1. /\ l \in LayoutRecord /\ l.w \in Nat \ {0} /\ l.h \in Nat \ {0}
      /\ l.focus \in DOMAIN l.splits /\ l.splits \in Seq(Pane)
      /\ l.splitZoom \in BOOLEAN
  BY DEF WellFormed, LayoutRecord
<1>2. i \in Nat \ {0} /\ l.focus \in Nat \ {0}
  BY <1>1
<1>3. CASE EffectiveZoom(l) = "panel"
  <2>1. here = {}
    BY <1>1, <1>2, <1>3 DEF PaneRects, WholeRect
  <2> QED BY <1>3, <2>1 DEF PaneSize
<1>4. CASE EffectiveZoom(l) = "split"
  <2>1. PaneRects(l) = {WholeRect(l, l.focus)} /\ l.splitZoom
    BY <1>1, <1>4 DEF PaneRects, EffectiveZoom
  <2>2. CASE i = l.focus
    <3>1. WholeRect(l, l.focus) \in here /\ PaneSize(l, i) = Size(l.w, l.h + 1)
      BY <1>4, <2>1, <2>2 DEF WholeRect, PaneSize
    <3> QED BY <2>1, <3>1 DEF WholeRect
  <2>3. CASE i # l.focus
    <3>1. here = {} /\ PaneSize(l, i) = Nothing
      BY <1>4, <2>1, <2>3 DEF WholeRect, PaneSize
    <3> QED BY <3>1
  <2> QED BY <2>2, <2>3
<1>5. CASE EffectiveZoom(l) \notin {"panel", "split"}
  <2>1. ~l.splitZoom
    BY <1>1, <1>5 DEF EffectiveZoom
  <2>2. SplitRect(l, i) \in PaneRects(l)
    BY <1>1, <1>5 DEF PaneRects
  <2>3. SplitRect(l, i) \in here /\ SplitRect(l, i).h \in Int
    BY <1>1, <2>2, RectsTyped
  <2>4. PaneSize(l, i) = Size(SplitRect(l, i).w, SplitRect(l, i).h)
    BY <1>5 DEF PaneSize
  <2>5. SplitRect(l, i).h + 0 = SplitRect(l, i).h
    BY <2>3
  <2> QED BY <2>1, <2>3, <2>4, <2>5
<1> QED BY <1>3, <1>4, <1>5

LEMMA DrawnTiles == ASSUME Drawn(lay) PROVE RectsTile
<1>1. /\ WellFormed(lay) /\ lay.w \in Nat \ {0} /\ lay.h \in Nat \ {0}
      /\ lay.rects = PaneRects(lay)
      /\ \A i \in DOMAIN lay.splits : lay.size[lay.splits[i]] = PaneSize(lay, i)
  BY DEF Drawn, WellFormed, LayoutRecord, Boxed, Sized
<1>2. ASSUME NEW x \in 0 .. (lay.w - 1), NEW y \in 0 .. (lay.h - 1)
      PROVE  Cardinality({r \in lay.rects : Covers(r, x, y)}) = 1
  <2>1. CASE EffectiveZoom(lay) = "none"
    <3>1. PICK one \in lay.rects : \A r \in lay.rects : Covers(r, x, y) <=> r = one
      BY <1>1, <2>1, StripsTile
    <3> QED BY <3>1, CoveredOnce
  <2>2. CASE EffectiveZoom(lay) # "none"
    <3>1. PICK at : lay.rects = {WholeRect(lay, at)}
      BY <1>1, <2>2 DEF PaneRects, EffectiveZoom
    <3>2. Covers(WholeRect(lay, at), x, y)
      BY <1>1 DEF Covers, WholeRect
    <3> QED BY <3>1, <3>2, CoveredOnce
  <2> QED BY <2>1, <2>2
<1>3. \A i \in DOMAIN lay.splits :
        LET here == {r \in lay.rects : r.at = i}  size == lay.size[lay.splits[i]] IN
        IF here = {} THEN size = Nothing
        ELSE \E r \in here : size = Size(r.w, r.h + (IF lay.splitZoom THEN 1 ELSE 0))
  <2>1. ASSUME NEW i \in DOMAIN lay.splits
        PROVE  LET here == {r \in PaneRects(lay) : r.at = i} IN
               IF here = {} THEN PaneSize(lay, i) = Nothing
               ELSE \E r \in here :
                      PaneSize(lay, i) = Size(r.w, r.h + (IF lay.splitZoom THEN 1 ELSE 0))
    BY <1>1, GivenRect
  <2> QED BY <1>1, <2>1
<1> QED BY <1>1, <1>2, <1>3 DEF RectsTile

LEMMA DrawnIsDrawn ==
  ASSUME Drawn(lay) PROVE OneCursor /\ BorderlessIsZoomed /\ RectsTile
BY DrawnTiles DEF Drawn, Lit, OneCursor, Bare, BorderlessIsZoomed

\* A step of the composition is a step of the shell or not its part.
LEMMA StepOfShell ==
  ASSUME [PanesNext]_panesVars, part = "shell"
  PROVE  [Next]_vars /\ part' = part
<1>1. CASE UNCHANGED panesVars
  BY <1>1 DEF panesVars, vars
<1>2. CASE PanesNext
  BY <1>2 DEF PanesNext, ShellStep, OverlaysStep, TableStep, DetailTextStep,
              TerminalPaneStep, Next
<1> QED BY <1>1, <1>2

ShellPart == part = "shell" => ShellInv

LEMMA ShellPartInv == PanesSpec => []ShellPart
<1>1. PanesInit => ShellPart
  BY ShellInitInv DEF PanesInit, ShellPart
<1>2. ShellPart /\ [PanesNext]_panesVars => ShellPart'
  BY StepOfShell, PartStays, ShellKeepsInv DEF ShellPart
<1> QED BY <1>1, <1>2, PTL DEF PanesSpec

\* However panes are opened, moved, zoomed and closed, and whatever the window's
\* size: one cursor at most, a border on every pane but the zoomed one, and the
\* cached rectangles a click is looked up in are those on the screen, which they
\* cover without a gap or an overlap.
THEOREM ShellStaysDrawn == PanesSpec => []ShellIsDrawn
<1>1. ShellPart => ShellIsDrawn
  BY DrawnIsDrawn DEF ShellPart, ShellInv, ShellIsDrawn
<1> QED BY <1>1, ShellPartInv, PTL

\* The types of the layout: no pane is in it twice, one of them is focused, the
\* panel is focused or zoomed only while it is shown, and a terminal has a state
\* exactly while its pane is in the layout.
THEOREM ShellStaysTyped == PanesSpec => [](part = "shell" => TypeOK)
<1>1. ShellPart => (part = "shell" => TypeOK)
  BY DrawnSplits DEF ShellPart, ShellInv, TypeOK, Drawn, WellFormed, TermTyped, TermThere
<1> QED BY <1>1, ShellPartInv, PTL

-----------------------------------------------------------------------------
(* The dialogs.                                                            *)

USE OverlaysAssumption

OverlaysTyped ==
    /\ focus \in Below /\ target \in [Below -> O!Target]
    /\ pending = [k \in O!Confirmed |-> pending[k]]
    /\ IsFiniteSet(answers)
    /\ disturbed \in BOOLEAN

-----------------------------------------------------------------------------
(* While nobody disturbs it there is one question.                         *)

\* It is open, or its answer is on the way.
OneQuestion ==
    /\ overlay = "none" \/ answers = {}
    /\ \A m, n \in answers : m = n

\* What is pending is one action, and that is what the question asks for.
OneAction == \A j, k \in O!Confirmed : pending[j] # None /\ pending[k] # None => j = k

PendingIsThere ==
    \A k \in O!Confirmed : pending[k] # None =>
        \/ overlay = "confirm" /\ about = pending[k]
        \/ \E m \in answers : m.what = "confirm" /\ m.of = pending[k]

\* An action is pending and is about what is shown.
Current(a) == \E k \in O!Confirmed : pending[k] = a /\ a = O!Shown(k)

\* The question, or its answer, is about what the focused pane shows.
AskedHere ==
    /\ overlay = "confirm" => Current(about)
    /\ overlay \in Forms => about = O!Shown(overlay)

AnsweredHere ==
    \A m \in answers :
        /\ m.what = "confirm" => Current(m.of)
        /\ m.what = "form" => \E o \in Forms : m.of = O!Shown(o)

Undisturbed == OneQuestion /\ OneAction /\ PendingIsThere /\ AskedHere /\ AnsweredHere

OverlaysInv == OverlaysTyped /\ (~disturbed => Undisturbed)

-----------------------------------------------------------------------------
\* With no question there is nothing to be wrong about.
LEMMA NoQuestion == ASSUME ~O!Outstanding PROVE Undisturbed
BY DEF OverlaysDiffer, O!Outstanding, Undisturbed, OneQuestion, OneAction, PendingIsThere,
       AskedHere, AnsweredHere, O!Nothing

\* Where a command key opens a dialog and no answer is on its way, nothing is pending.
LEMMA NothingPending ==
  ASSUME OverlaysTyped, Undisturbed, overlay = "none", answers = {}
  PROVE  pending = O!Nothing
BY DEF OverlaysTyped, Undisturbed, PendingIsThere, O!Nothing

\* A key that is not a disturbance comes when no answer is on its way.
LEMMA KeyIsQuiet ==
  ASSUME OverlaysTyped, ~disturbed => Undisturbed, overlay = "none", O!Key, ~disturbed'
  PROVE  answers = {} /\ pending = O!Nothing
<1>1. CASE answers = {}
  <2>1. ~disturbed \/ ~O!Outstanding
    BY <1>1 DEF O!Key, O!Quiet, OverlaysTyped
  <2>2. Undisturbed
    BY <2>1, NoQuestion
  <2> QED BY <1>1, <2>2, NothingPending
<1>2. CASE answers # {}
  BY <1>2 DEF O!Key, O!Disturbs, O!Outstanding
<1> QED BY <1>1, <1>2

\* What is shown is a target.
LEMMA ShownIsAction ==
  ASSUME OverlaysTyped, NEW k \in O!Confirmed
  PROVE  O!Shown(k) # None
<1>1. O!Here \in O!Target
  BY DEF OverlaysTyped, O!Here
<1> QED BY <1>1 DEF O!Shown, NoneIsNoAction, O!Target

-----------------------------------------------------------------------------
(* Every step keeps the types.                                             *)

LEMMA FinitelyMany ==
  ASSUME IsFiniteSet(answers), NEW m
  PROVE  IsFiniteSet(answers \cup {m}) /\ IsFiniteSet(answers \ {m})
BY FS_AddElement, FS_RemoveElement

\* The steps that open a dialog, or change the panes where none is open.
CommandStep ==
    \/ \E o \in Plain \cup Pickers : O!OpenOther(o)
    \/ \E k \in O!Confirmed : O!Ask(k)
    \/ \E o \in Forms : O!OpenForm(o)
    \/ \E r \in Release : O!OpenRollback(r)
    \/ \E p \in Below : O!MoveFocus(p)
    \/ \E t \in O!Target : O!Retarget(t)
    \/ O!ReloadAll

\* The steps of an open dialog.
DialogStep ==
    \/ \E r \in Release : O!HistoryLoaded(r)
    \/ O!CtrlW \/ O!Dismiss \/ O!Submit \/ O!SubmitRollback
    \/ \E yes \in BOOLEAN : O!Answer(yes)

\* The steps that handle an answer.
HandleStep == \E m \in answers : O!ConfirmResult(m) \/ O!Requested(m) \/ O!Picked(m)

LEMMA Steps == O!Next => CommandStep \/ DialogStep \/ HandleStep \/ \E p \in Below : O!DebugFailed(p)
BY DEF O!Next, CommandStep, DialogStep, HandleStep

LEMMA CommandTypes == ASSUME OverlaysTyped, CommandStep PROVE OverlaysTyped'
<1> USE DEF O!where, OverlaysTyped, O!Key, O!Quiet, O!Disturbs, O!Outstanding, O!Command, O!OnList
<1>1. ASSUME NEW o \in Plain \cup Pickers, O!OpenOther(o) PROVE OverlaysTyped'
  BY <1>1 DEF O!OpenOther
<1>2. ASSUME NEW k \in O!Confirmed, O!Ask(k) PROVE OverlaysTyped'
  BY <1>2 DEF O!Ask
<1>3. ASSUME NEW o \in Forms, O!OpenForm(o) PROVE OverlaysTyped'
  BY <1>3 DEF O!OpenForm
<1>4. ASSUME NEW r \in Release, O!OpenRollback(r) PROVE OverlaysTyped'
  BY <1>4 DEF O!OpenRollback
<1>5. ASSUME NEW p \in Below, O!MoveFocus(p) PROVE OverlaysTyped'
  BY <1>5 DEF O!MoveFocus
<1>6. ASSUME NEW t \in O!Target, O!Retarget(t) PROVE OverlaysTyped'
  BY <1>6 DEF O!Retarget
<1>7. CASE O!ReloadAll
  BY <1>7 DEF O!ReloadAll, O!Nothing
<1> QED BY <1>1, <1>2, <1>3, <1>4, <1>5, <1>6, <1>7 DEF CommandStep

LEMMA DialogTypes == ASSUME OverlaysTyped, DialogStep PROVE OverlaysTyped'
<1> USE DEF O!where, OverlaysTyped, O!Quiet, O!Outstanding
<1>1. ASSUME NEW r \in Release, O!HistoryLoaded(r) PROVE OverlaysTyped'
  BY <1>1 DEF O!HistoryLoaded
<1>2. CASE O!CtrlW
  BY <1>2 DEF O!CtrlW, O!Nothing
<1>3. CASE O!Dismiss
  BY <1>3 DEF O!Dismiss
<1>4. CASE O!Submit
  BY <1>4, FinitelyMany DEF O!Submit, O!Sends
<1>5. CASE O!SubmitRollback
  BY <1>5, FinitelyMany DEF O!SubmitRollback, O!Sends
<1>6. ASSUME NEW yes \in BOOLEAN, O!Answer(yes) PROVE OverlaysTyped'
  BY <1>6, FinitelyMany DEF O!Answer, O!Sends
<1> QED BY <1>1, <1>2, <1>3, <1>4, <1>5, <1>6 DEF DialogStep

LEMMA HandleTypes == ASSUME OverlaysTyped, HandleStep PROVE OverlaysTyped'
<1> PICK m \in answers : O!ConfirmResult(m) \/ O!Requested(m) \/ O!Picked(m)
  BY DEF HandleStep
<1> USE FinitelyMany DEF O!where, OverlaysTyped, O!Outstanding, O!Disturbs, O!OnList
<1>1. CASE O!ConfirmResult(m)
  BY <1>1 DEF O!ConfirmResult, O!Run
<1>2. CASE O!Requested(m)
  BY <1>2 DEF O!Requested
<1>3. CASE O!Picked(m)
  BY <1>3 DEF O!Picked
<1> QED BY <1>1, <1>2, <1>3

LEMMA TypesKept == ASSUME OverlaysTyped, [O!Next]_O!vars PROVE OverlaysTyped'
<1>1. CASE UNCHANGED O!vars
  BY <1>1 DEF O!vars, O!where, OverlaysTyped
<1>2. ASSUME NEW p \in Below, O!DebugFailed(p) PROVE OverlaysTyped'
  BY <1>2 DEF O!DebugFailed, OverlaysTyped, O!Disturbs, O!Outstanding
<1> QED BY <1>1, <1>2, Steps, CommandTypes, DialogTypes, HandleTypes

-----------------------------------------------------------------------------
(* Every step keeps the one question.                                      *)

\* A step of a command key starts from no question at all.
LEMMA CommandStarts ==
  ASSUME OverlaysInv, CommandStep, ~disturbed'
  PROVE  answers = {} /\ answers' = {} /\ pending = O!Nothing
<1>1. overlay = "none" /\ O!Key /\ answers' = answers
  <2> USE DEF O!Command
  <2>1. ASSUME NEW o \in Plain \cup Pickers, O!OpenOther(o) PROVE <1>1
    BY <2>1 DEF O!OpenOther
  <2>2. ASSUME NEW k \in O!Confirmed, O!Ask(k) PROVE <1>1
    BY <2>2 DEF O!Ask
  <2>3. ASSUME NEW o \in Forms, O!OpenForm(o) PROVE <1>1
    BY <2>3 DEF O!OpenForm
  <2>4. ASSUME NEW r \in Release, O!OpenRollback(r) PROVE <1>1
    BY <2>4 DEF O!OpenRollback
  <2>5. ASSUME NEW p \in Below, O!MoveFocus(p) PROVE <1>1
    BY <2>5 DEF O!MoveFocus
  <2>6. ASSUME NEW t \in O!Target, O!Retarget(t) PROVE <1>1
    BY <2>6 DEF O!Retarget
  <2>7. CASE O!ReloadAll
    BY <2>7 DEF O!ReloadAll
  <2> QED BY <2>1, <2>2, <2>3, <2>4, <2>5, <2>6, <2>7 DEF CommandStep
<1> QED BY <1>1, KeyIsQuiet DEF OverlaysInv

\* It asks one thing, or nothing.
LEMMA CommandKeeps ==
  ASSUME OverlaysInv, CommandStep, ~disturbed' PROVE Undisturbed'
<1> USE DEF OverlaysDiffer
<1>1. answers' = {} /\ pending = O!Nothing
  BY CommandStarts
<1>2. OneQuestion' /\ AnsweredHere'
  BY <1>1 DEF OneQuestion, AnsweredHere
<1> DEFINE Asks == OneAction /\ PendingIsThere /\ AskedHere
<1>3. ASSUME NEW o \in Plain \cup Pickers, O!OpenOther(o) PROVE Asks'
  BY <1>1, <1>3 DEF O!OpenOther, O!Open, O!Nothing, OneAction, PendingIsThere, AskedHere
<1>4. ASSUME NEW k \in O!Confirmed, O!Ask(k) PROVE Asks'
  <2>1. /\ pending' = [O!Nothing EXCEPT ![k] = O!Shown(k)]
        /\ overlay' = "confirm" /\ about' = O!Shown(k) /\ O!Shown(k)' = O!Shown(k)
    BY <1>1, <1>4 DEF O!Ask, O!Open, O!Shown, O!Here, O!where
  <2>2. \A j \in O!Confirmed : pending'[j] = IF j = k THEN O!Shown(k) ELSE None
    BY <2>1 DEF O!Nothing
  <2>3. OneAction' /\ PendingIsThere'
    BY <2>1, <2>2 DEF OneAction, PendingIsThere
  <2>4. AskedHere'
    BY <2>1, <2>2 DEF AskedHere, Current
  <2> QED BY <2>3, <2>4
<1>5. ASSUME NEW o \in Forms, O!OpenForm(o) PROVE Asks'
  BY <1>1, <1>5 DEF O!OpenForm, O!Open, O!Nothing, OneAction, PendingIsThere, AskedHere, O!where,
                    O!Shown, O!Here
<1>6. ASSUME NEW r \in Release, O!OpenRollback(r) PROVE Asks'
  BY <1>1, <1>6 DEF O!OpenRollback, O!Open, O!Nothing, OneAction, PendingIsThere, AskedHere
<1>7. ASSUME NEW p \in Below, O!MoveFocus(p) PROVE Asks'
  BY <1>1, <1>7 DEF O!MoveFocus, O!Nothing, OneAction, PendingIsThere, AskedHere
<1>8. ASSUME NEW t \in O!Target, O!Retarget(t) PROVE Asks'
  BY <1>1, <1>8 DEF O!Retarget, O!Command, O!Nothing, OneAction, PendingIsThere, AskedHere
<1>9. ASSUME O!ReloadAll PROVE Asks'
  BY <1>9 DEF O!ReloadAll, O!Close, O!Nothing, OneAction, PendingIsThere, AskedHere
<1>10. Asks'
  BY <1>3, <1>4, <1>5, <1>6, <1>7, <1>8, <1>9 DEF CommandStep
<1> HIDE DEF Asks
<1> QED BY <1>2, <1>10 DEF Undisturbed, Asks

\* A dialog step is quiet, and starts undisturbed if it ends so.
LEMMA DialogStarts ==
  ASSUME OverlaysInv, DialogStep, ~disturbed' PROVE Undisturbed /\ UNCHANGED O!where
<1>1. O!Quiet /\ UNCHANGED O!where
  BY DEF DialogStep, O!HistoryLoaded, O!CtrlW, O!Dismiss, O!Submit, O!SubmitRollback, O!Answer
<1> QED BY <1>1, NoQuestion DEF O!Quiet, OverlaysInv, OverlaysTyped

\* It takes the question away, sends its answer, or leaves it.
LEMMA DialogKeeps ==
  ASSUME OverlaysInv, DialogStep, ~disturbed' PROVE Undisturbed'
<1>1. Undisturbed /\ UNCHANGED O!where
  BY DialogStarts
<1>2. \A k : O!Shown(k)' = O!Shown(k)
  BY <1>1 DEF O!Shown, O!Here, O!where
<1> USE <1>1, <1>2 DEF OverlaysDiffer, Undisturbed, OneQuestion, OneAction,
        PendingIsThere, AskedHere, AnsweredHere, Current
<1>3. ASSUME NEW r \in Release, O!HistoryLoaded(r) PROVE Undisturbed'
  BY <1>3 DEF O!HistoryLoaded
<1>4. CASE O!CtrlW
  BY <1>4 DEF O!CtrlW, O!Close, O!Nothing
<1>5. CASE O!Dismiss
  BY <1>5 DEF O!Dismiss, O!Close
<1>6. CASE O!Submit
  <2>1. answers = {} /\ UNCHANGED pending
    BY <1>6 DEF O!Submit
  <2>2. answers' = {[what |-> IF overlay \in Forms THEN "form" ELSE "picked", of |-> about]}
    BY <1>6, <2>1 DEF O!Submit, O!Sends
  <2> QED BY <1>6, <2>1, <2>2 DEF O!Submit, O!Close
<1>7. CASE O!SubmitRollback
  <2>1. answers = {} /\ UNCHANGED pending
    BY <1>7 DEF O!SubmitRollback
  <2>2. answers' = {[what |-> "rollback", of |-> about]}
    BY <1>7, <2>1 DEF O!SubmitRollback, O!Sends
  <2> QED BY <1>7, <2>1, <2>2 DEF O!SubmitRollback, O!Close
<1>8. ASSUME NEW yes \in BOOLEAN, O!Answer(yes) PROVE Undisturbed'
  <2>1. answers = {} /\ UNCHANGED pending
    BY <1>8 DEF O!Answer
  <2>2. answers' = {[what |-> "confirm", yes |-> yes, of |-> about]}
    BY <1>8, <2>1 DEF O!Answer, O!Sends
  <2> QED BY <1>8, <2>1, <2>2 DEF O!Answer, O!Close
<1> QED BY <1>3, <1>4, <1>5, <1>6, <1>7, <1>8 DEF DialogStep

\* The pending action the handler takes is the one of the answer.
LEMMA AnswerFinds ==
  ASSUME OverlaysTyped, Undisturbed, NEW m \in answers, m.what = "confirm"
  PROVE  /\ pending # O!Nothing
         /\ \A i \in O!Answered : pending[O!Order[i]] = m.of
         /\ O!Here.plugin = m.of.plugin /\ O!Here.cluster = m.of.cluster
<1>1. PICK k \in O!Confirmed : pending[k] = m.of /\ m.of = O!Shown(k)
  BY DEF Undisturbed, AnsweredHere, Current
<1>2. m.of # None
  BY <1>1, ShownIsAction
<1>3. pending # O!Nothing
  BY <1>1, <1>2 DEF O!Nothing
<1>4. ASSUME NEW i \in O!Answered PROVE pending[O!Order[i]] = m.of
  <2>1. i \in 1 .. 4 /\ pending[O!Order[i]] # None
    BY <1>4 DEF O!Answered
  <2>2. O!Order[i] \in O!Confirmed
    BY <2>1 DEF O!Confirmed
  <2> QED BY <1>1, <1>2, <2>1, <2>2 DEF Undisturbed, OneAction
<1> QED BY <1>1, <1>3, <1>4 DEF O!Shown

\* Handling it answers the one question there was.
LEMMA HandleKeeps ==
  ASSUME OverlaysInv, HandleStep, ~disturbed' PROVE Undisturbed'
<1> PICK m \in answers : O!ConfirmResult(m) \/ O!Requested(m) \/ O!Picked(m)
  BY DEF HandleStep
<1>1. CASE O!Picked(m)
  BY <1>1 DEF O!Picked, O!Disturbs, O!Outstanding
<1>2. CASE O!ConfirmResult(m)
  <2>1. Undisturbed
    BY <1>2 DEF O!ConfirmResult, O!Outstanding, OverlaysInv, OverlaysTyped
  <2>2. answers' = {} /\ overlay' = "none" /\ m.what = "confirm"
    BY <1>2, <2>1 DEF O!ConfirmResult, O!Close, Undisturbed, OneQuestion
  <2>3. PICK i \in O!Answered : pending' = [pending EXCEPT ![O!Order[i]] = None]
    BY <1>2, <2>1, <2>2, AnswerFinds DEF O!ConfirmResult, O!Run, OverlaysInv
  <2>4. O!Order[i] \in O!Confirmed /\ pending[O!Order[i]] # None
    BY <2>3 DEF O!Answered, O!Confirmed
  <2>5. \A k \in O!Confirmed : pending'[k] = None
    BY <2>1, <2>3, <2>4 DEF OverlaysInv, OverlaysTyped, Undisturbed, OneAction
  <2> QED BY <2>2, <2>5 DEF OverlaysDiffer, Undisturbed, OneQuestion, OneAction,
             PendingIsThere, AskedHere, AnsweredHere
<1>3. CASE O!Requested(m)
  <2>1. Undisturbed
    BY <1>3 DEF O!Requested, O!Outstanding, OverlaysInv, OverlaysTyped
  <2>2. /\ answers = {m} /\ answers' = {} /\ m.what # "confirm"
        /\ UNCHANGED <<O!where, overlay, about, pending>>
    BY <1>3, <2>1 DEF O!Requested, Undisturbed, OneQuestion
  <2>3. \A k : O!Shown(k)' = O!Shown(k)
    BY <2>2 DEF O!Shown, O!Here, O!where
  <2> QED BY <2>1, <2>2, <2>3 DEF Undisturbed, OneQuestion, OneAction,
             PendingIsThere, AskedHere, AnsweredHere, Current
<1> QED BY <1>1, <1>2, <1>3

LEMMA OverlaysInitInv == ASSUME O!Init PROVE OverlaysInv
<1>1. ~O!Outstanding
  BY DEF O!Init, O!Outstanding
<1>2. OverlaysTyped
  BY FS_EmptySet DEF O!Init, OverlaysTyped, O!Nothing
<1> QED BY <1>1, <1>2, NoQuestion DEF OverlaysInv

LEMMA OverlaysKeepInv == ASSUME OverlaysInv, [O!Next]_O!vars PROVE OverlaysInv'
<1>1. OverlaysTyped'
  BY TypesKept DEF OverlaysInv
<1>2. ASSUME ~disturbed' PROVE Undisturbed'
  <2>1. CASE UNCHANGED O!vars
    BY <1>2, <2>1 DEF O!vars, O!where, OverlaysInv, Undisturbed, OneQuestion, OneAction, PendingIsThere,
       AskedHere, AnsweredHere, Current, O!Shown, O!Here
  <2>2. ASSUME NEW p \in Below, O!DebugFailed(p) PROVE Undisturbed'
    <3>1. ~O!Outstanding
      BY <1>2, <2>2 DEF O!DebugFailed, O!Disturbs
    <3>2. (~O!Outstanding)'
      BY <3>1, <2>2 DEF O!DebugFailed, O!Outstanding, O!Nothing
    <3> QED BY <3>2 DEF O!Outstanding, Undisturbed, OneQuestion, OneAction, PendingIsThere,
               AskedHere, AnsweredHere, O!Nothing, OverlaysDiffer
  <2> QED BY <1>2, <2>1, <2>2, Steps, CommandKeeps, DialogKeeps, HandleKeeps
<1> QED BY <1>1, <1>2 DEF OverlaysInv

-----------------------------------------------------------------------------
(* The properties.                                                         *)

\* At most one action is pending while nobody disturbs the question.
LEMMA AtMostOne ==
  ASSUME OneAction PROVE Cardinality({k \in O!Confirmed : pending[k] # None}) <= 1
<1> DEFINE P == {k \in O!Confirmed : pending[k] # None}
<1>1. CASE P = {}
  BY <1>1, FS_EmptySet
<1>2. ASSUME NEW k \in P PROVE Cardinality(P) <= 1
  <2>1. P = {k}
    BY <1>2 DEF OneAction
  <2> QED BY <2>1, FS_Singleton
<1> QED BY <1>1, <1>2

\* Only a handler takes an answer away.
LEMMA AnswersTaken ==
  ASSUME [O!Next]_O!vars, NEW m \in answers \ answers'
  PROVE  O!ConfirmResult(m) \/ O!Requested(m) \/ O!Picked(m)
<1>1. ~ UNCHANGED O!vars
  BY DEF O!vars
<1>2. ~ CommandStep
  BY DEF CommandStep, O!OpenOther, O!Ask, O!OpenForm, O!OpenRollback, O!MoveFocus, O!Retarget, O!ReloadAll
<1>3. ~ DialogStep
  BY DEF DialogStep, O!HistoryLoaded, O!CtrlW, O!Dismiss, O!Submit, O!SubmitRollback, O!Answer, O!Sends
<1>4. ~ \E p \in Below : O!DebugFailed(p)
  BY DEF O!DebugFailed
<1>5. PICK n \in answers : O!ConfirmResult(n) \/ O!Requested(n) \/ O!Picked(n)
  BY <1>1, <1>2, <1>3, <1>4, Steps DEF HandleStep
<1>6. m = n
  BY <1>5 DEF O!ConfirmResult, O!Requested, O!Picked
<1> QED BY <1>5, <1>6

\* What an action does reads the plugin and the cluster it is done at only.
LEMMA EffectReads ==
  ASSUME NEW a, NEW x, NEW y, x.plugin = y.plugin, x.cluster = y.cluster
  PROVE  O!Effect(a, x) = O!Effect(a, y)
BY DEF O!Effect

LEMMA AnswersFit == ASSUME OverlaysInv, [O!Next]_O!vars PROVE O!AnswerStep
<1> SUFFICES ASSUME NEW m \in answers \ answers', m.what \in {"confirm", "form"}, ~disturbed
             PROVE  done' = CASE m.what = "form" /\ m.of.cluster \in Connected -> m.of
                              [] m.what = "confirm" /\ m.yes -> O!Effect(m.of, m.of)
                              [] OTHER -> None
  BY DEF O!AnswerStep
<1>1. Undisturbed
  BY DEF OverlaysInv
<1>2. CASE O!ConfirmResult(m)
  <2>1. /\ m.what = "confirm" /\ pending # O!Nothing
        /\ \A i \in O!Answered : pending[O!Order[i]] = m.of
        /\ O!Here.plugin = m.of.plugin /\ O!Here.cluster = m.of.cluster
    BY <1>1, <1>2, AnswerFinds DEF O!ConfirmResult, OverlaysInv
  <2>2. done' = IF m.yes THEN O!Effect(m.of, O!Here) ELSE None
    BY <1>2, <2>1 DEF O!ConfirmResult, O!Run
  <2>3. O!Effect(m.of, O!Here) = O!Effect(m.of, m.of)
    BY <2>1, EffectReads
  <2> QED BY <2>1, <2>2, <2>3
<1>3. CASE O!Requested(m)
  <2>1. m.what = "form"
    BY <1>3 DEF O!Requested
  <2>2. PICK o \in Forms : m.of = O!Shown(o)
    BY <1>1, <2>1 DEF Undisturbed, AnsweredHere
  <2>3. m.of.cluster = O!Here.cluster /\ [m.of EXCEPT !.cluster = O!Here.cluster] = m.of
    BY <2>2 DEF O!Shown
  <2> QED BY <1>3, <2>1, <2>3 DEF O!Requested
<1>4. CASE O!Picked(m)
  BY <1>4 DEF O!Picked
<1> QED BY <1>2, <1>3, <1>4, AnswersTaken

-----------------------------------------------------------------------------
(* In the composition.                                                     *)

\* A step of the composition is a step of the dialogs or not their part.
LEMMA StepOfOverlays ==
  ASSUME [PanesNext]_panesVars, part = "overlays"
  PROVE  [O!Next]_O!vars /\ part' = part
<1>1. CASE UNCHANGED panesVars
  BY <1>1 DEF panesVars, overlaysVars, O!vars
<1>2. CASE PanesNext
  BY <1>2 DEF PanesNext, ShellStep, OverlaysStep, TableStep, DetailTextStep,
              TerminalPaneStep, O!Next
<1> QED BY <1>1, <1>2

\* The dialogs count as the library does.
LEMMA SameCount == ASSUME NEW S PROVE O!Cardinality(S) = Cardinality(S)
  BY DEF O!Cardinality, Cardinality


OverlaysPart == part = "overlays" => OverlaysInv

LEMMA OverlaysPartInv == PanesSpec => []OverlaysPart
<1>1. PanesInit => OverlaysPart
  BY OverlaysInitInv DEF PanesInit, OverlaysPart
<1>2. OverlaysPart /\ [PanesNext]_panesVars => OverlaysPart'
  BY StepOfOverlays, PartStays, OverlaysKeepInv DEF OverlaysPart
<1> QED BY <1>1, <1>2, PTL DEF PanesSpec

\* What is pending has the dialog that asks for it, or its answer is on the way:
\* no ctrl+w, reload or dismissed dialog leaves an action for the next Yes to run.
THEOREM PendingStaysAsked == PanesSpec => []PendingIsAsked
<1>1. OverlaysPart => PendingIsAsked
  <2>1. ASSUME OverlaysInv, ~disturbed
        PROVE  /\ Cardinality({k \in O!Confirmed : pending[k] # None}) <= 1
               /\ PendingIsThere
    BY <2>1, AtMostOne DEF OverlaysInv, Undisturbed
  <2>2. OverlaysInv => O!PendingIsAsked
    BY <2>1, SameCount DEF PendingIsThere, O!PendingIsAsked
  <2> QED BY <2>2 DEF OverlaysPart, PendingIsAsked
<1> QED BY <1>1, OverlaysPartInv, PTL

\* An answer does what was asked when its dialog opened, to the objects and on the
\* cluster that were shown there, although the pane it acts on is looked up when it is
\* handled: after every sequence of dialogs, answers, ctrl+w, reloads and failures in which
\* no key and no message changes the panes or the dialogs between an answer and its handling
\* (~disturbed). Where one does, executeDelete and its like act on the pane focused by then.
THEOREM AnswersStayOfTheirQuestion == PanesSpec => AnswerIsOfItsQuestion
<1>1. OverlaysPart /\ [PanesNext]_panesVars => (part = "overlays" => O!AnswerStep)
  BY StepOfOverlays, AnswersFit DEF OverlaysPart
<1> QED BY <1>1, OverlaysPartInv, PTL DEF PanesSpec, AnswerIsOfItsQuestion

-----------------------------------------------------------------------------
(* The table: its rows.                                                    *)

\* What the first n rows of a sequence leave, as a function of n.
Left(f, s, p, n) ==
    f = [m \in 0 .. n |-> IF m = 0 THEN <<>>
                          ELSE IF NameOf[s[m]] \in p THEN Append(f[m - 1], s[m]) ELSE f[m - 1]]

LEMMA LeftExists ==
  ASSUME NEW s \in Seq(Object), NEW p, NEW n \in 0 .. Len(s)
  PROVE  \E f : Left(f, s, p, n)
<1> DEFINE Bad == {k \in 0 .. Len(s) : ~ \E f : Left(f, s, p, k)}
<1>1. SUFFICES ASSUME Bad # {} PROVE FALSE
  OBVIOUS
<1>2. Bad \subseteq Nat /\ Len(s) \in Nat
  OBVIOUS
<1>3. PICK k \in Bad : \A j \in Bad : k <= j
  <2> HIDE DEF Bad
  <2> QED BY <1>1, <1>2, LeastNat
<1>4. CASE k = 0
  <2> DEFINE f == [m \in 0 .. 0 |-> <<>>]
  <2>1. Left(f, s, p, 0)
    BY DEF Left
  <2> QED BY <1>3, <1>4, <2>1
<1>5. CASE k # 0
  <2>1. k - 1 \in 0 .. Len(s) /\ k - 1 \notin Bad /\ k \in 1 .. Len(s)
    <3>1. k \in 1 .. Len(s)
      BY <1>3, <1>5
    <3>2. ~(k <= k - 1)
      BY <3>1
    <3>3. k - 1 \notin Bad
      <4> HIDE DEF Bad
      <4> QED BY <1>3, <3>2
    <3> QED BY <3>1, <3>3
  <2>2. PICK f : Left(f, s, p, k - 1)
    BY <2>1
  <2> DEFINE g == [m \in 0 .. k |-> IF m = k
                                   THEN IF NameOf[s[k]] \in p THEN Append(f[k - 1], s[k]) ELSE f[k - 1]
                                   ELSE f[m]]
  <2>3. \A m \in 0 .. (k - 1) : g[m] = f[m]
    BY <2>1
  <2>4. ASSUME NEW m \in 0 .. k
        PROVE  g[m] = IF m = 0 THEN <<>>
                      ELSE IF NameOf[s[m]] \in p THEN Append(g[m - 1], s[m]) ELSE g[m - 1]
    <3>1. CASE m = k
      <4>1. g[m] = IF NameOf[s[k]] \in p THEN Append(f[k - 1], s[k]) ELSE f[k - 1]
        BY <3>1
      <4>2. g[m - 1] = f[k - 1] /\ m # 0
        BY <2>1, <2>3, <3>1
      <4> HIDE DEF g
      <4> QED BY <3>1, <4>1, <4>2
    <3>2. CASE m # k
      <4>1. m \in 0 .. (k - 1) /\ (m # 0 => m - 1 \in 0 .. (k - 1))
        BY <2>1, <3>2
      <4>2. f[m] = IF m = 0 THEN <<>>
                   ELSE IF NameOf[s[m]] \in p THEN Append(f[m - 1], s[m]) ELSE f[m - 1]
        BY <2>2, <4>1 DEF Left
      <4>3. g[m] = f[m] /\ (m # 0 => g[m - 1] = f[m - 1])
        BY <2>3, <4>1
      <4> HIDE DEF g
      <4> QED BY <4>2, <4>3
    <3> QED BY <3>1, <3>2
  <2>5. g = [m \in 0 .. k |-> g[m]]
    OBVIOUS
  <2> HIDE DEF g
  <2>6. Left(g, s, p, k)
    BY <2>4, <2>5 DEF Left
  <2> QED BY <1>3, <2>6
<1> QED BY <1>4, <1>5

\* A filter leaves a sequence of rows.
LEMMA KeptTyped ==
  ASSUME NEW s \in Seq(Object), NEW p PROVE T!Kept(s, p) \in Seq(Object)
<1> DEFINE n == Len(s)
           f == CHOOSE f : Left(f, s, p, n)
<1>1. n \in Nat /\ n \in 0 .. n
  OBVIOUS
<1>2. Left(f, s, p, n)
  BY <1>1, LeftExists
<1>3. T!Kept(s, p) = f[n]
  BY DEF T!Kept, Left
<1> HIDE DEF f
<1> DEFINE Bad == {k \in 0 .. n : f[k] \notin Seq(Object)}
<1>4. ASSUME Bad # {} PROVE FALSE
  <2>1. PICK k \in Bad : \A j \in Bad : k <= j
    <3>1. Bad \subseteq Nat
      BY <1>1
    <3> HIDE DEF Bad
    <3> QED BY <1>4, <3>1, LeastNat
  <2>2. k \in 0 .. n /\ f[k] \notin Seq(Object)
    BY <2>1
  <2>3. f[k] = IF k = 0 THEN <<>>
               ELSE IF NameOf[s[k]] \in p THEN Append(f[k - 1], s[k]) ELSE f[k - 1]
    BY <1>2, <2>2 DEF Left
  <2>4. k # 0
    BY <2>2, <2>3
  <2>5. k - 1 \in 0 .. n /\ k \in 1 .. n /\ ~(k <= k - 1)
    BY <1>1, <2>2, <2>4
  <2>6. f[k - 1] \in Seq(Object)
    BY <2>1, <2>5
  <2>7. s[k] \in Object
    BY <2>5
  <2> QED BY <2>2, <2>3, <2>4, <2>6, <2>7
<1>5. f[n] \in Seq(Object)
  BY <1>1, <1>4
<1> QED BY <1>3, <1>5

USE TableAssumption

\* The order of the rows.
Precedes(sort, a, b) ==
    \/ IF sort.up THEN ValueOf[sort.column][a] < ValueOf[sort.column][b]
       ELSE ValueOf[sort.column][b] < ValueOf[sort.column][a]
    \/ ValueOf[sort.column][a] = ValueOf[sort.column][b] /\ NameOf[a] < NameOf[b]

SortState == [column : SortColumns, up : BOOLEAN]

\* It is a strict order, and total where names differ.
LEMMA OrderIsTotal ==
  ASSUME NEW sort \in SortState, NEW a \in Object, NEW b \in Object, NEW c \in Object
  PROVE  /\ ~Precedes(sort, a, a)
         /\ Precedes(sort, a, b) /\ Precedes(sort, b, c) => Precedes(sort, a, c)
         /\ NameOf[a] # NameOf[b] => Precedes(sort, a, b) \/ Precedes(sort, b, a)
<1>1. /\ ValueOf[sort.column][a] \in Int /\ ValueOf[sort.column][b] \in Int
      /\ ValueOf[sort.column][c] \in Int
      /\ NameOf[a] \in Int /\ NameOf[b] \in Int /\ NameOf[c] \in Int
  BY DEF SortState
<1> QED BY <1>1 DEF Precedes

\* Objects can be put in this order, one after the other: each goes after as many
\* as precede it.
LEMMA OrderExists ==
  ASSUME NEW sort \in SortState, NEW S \in SUBSET Object, IsFiniteSet(S), T!Listable(S)
  PROVE  \E s \in [1 .. Cardinality(S) -> S] :
            \A i, j \in DOMAIN s : i < j => Precedes(sort, s[i], s[j])
<1> DEFINE n == Cardinality(S)
           Under(o) == {q \in S : Precedes(sort, q, o)}
           rank == [o \in S |-> 1 + Cardinality(Under(o))]
<1>1. n \in Nat
  BY FS_CardinalityType
<1>2. ASSUME NEW o \in S
      PROVE  Cardinality(Under(o)) \in Nat /\ Cardinality(Under(o)) < n
             /\ IsFiniteSet(Under(o))
  <2>1. Under(o) \subseteq S \ {o}
    BY OrderIsTotal
  <2>2. IsFiniteSet(S \ {o}) /\ Cardinality(S \ {o}) = n - 1
    BY FS_RemoveElement
  <2> HIDE DEF Under
  <2>3. IsFiniteSet(Under(o)) /\ Cardinality(Under(o)) <= n - 1
    BY <2>1, <2>2, FS_Subset
  <2> QED BY <1>1, <2>3, FS_CardinalityType
<1>3. ASSUME NEW a \in S, NEW b \in S, Precedes(sort, a, b) PROVE rank[a] < rank[b]
  <2>1. Under(a) \subseteq Under(b) /\ a \in Under(b) /\ a \notin Under(a)
    BY <1>3, OrderIsTotal
  <2>2. Cardinality(Under(a)) \in Nat /\ Cardinality(Under(b)) \in Nat /\ IsFiniteSet(Under(b))
    BY <1>2
  <2>3. rank[a] = 1 + Cardinality(Under(a)) /\ rank[b] = 1 + Cardinality(Under(b))
    OBVIOUS
  <2> HIDE DEF Under, rank
  <2>4. Cardinality(Under(a)) <= Cardinality(Under(b))
        /\ (Cardinality(Under(b)) = Cardinality(Under(a)) => Under(b) = Under(a))
    BY <2>1, <2>2, FS_Subset
  <2>5. Cardinality(Under(b)) # Cardinality(Under(a))
    BY <2>1, <2>4
  <2>6. Cardinality(Under(a)) < Cardinality(Under(b))
    BY <2>2, <2>4, <2>5
  <2> QED BY <2>2, <2>3, <2>6
<1>4. ASSUME NEW o \in S PROVE rank[o] \in 1 .. n
  <2>1. Cardinality(Under(o)) \in Nat /\ Cardinality(Under(o)) < n
    BY <1>2
  <2>2. rank[o] = 1 + Cardinality(Under(o))
    OBVIOUS
  <2> HIDE DEF rank, Under, n
  <2> QED BY <1>1, <2>1, <2>2
<1>5. rank \in [S -> 1 .. n]
  BY <1>4
<1> HIDE DEF rank, Under
<1>6. \A a, b \in S : rank[a] = rank[b] => a = b
  <2>1. ASSUME NEW a \in S, NEW b \in S, rank[a] = rank[b], a # b PROVE FALSE
    <3>1. NameOf[a] # NameOf[b]
      BY <2>1 DEF T!Listable
    <3>2. rank[a] < rank[b] \/ rank[b] < rank[a]
      BY <1>3, <3>1, OrderIsTotal
    <3> QED BY <1>4, <2>1, <3>2
  <2> QED BY <2>1
<1>7. rank \in Injection(S, 1 .. n)
  BY <1>5, <1>6 DEF Injection, IsInjective
<1>8. IsFiniteSet(1 .. n) /\ Cardinality(1 .. n) = n
  BY <1>1, FS_Interval
<1>9. rank \in Surjection(S, 1 .. n)
  BY <1>7, <1>8, FS_Injection
<1>10. \A i \in 1 .. n : \E o \in S : rank[o] = i
  BY <1>9 DEF Surjection
<1> DEFINE s == [i \in 1 .. n |-> CHOOSE o \in S : rank[o] = i]
<1>11. s \in [1 .. n -> S] /\ \A i \in 1 .. n : rank[s[i]] = i /\ s[i] \in S
  BY <1>10
<1> HIDE DEF s
<1>12. ASSUME NEW i \in 1 .. n, NEW j \in 1 .. n, i < j PROVE Precedes(sort, s[i], s[j])
  <2>1. s[i] \in S /\ s[j] \in S /\ s[i] # s[j]
    BY <1>11, <1>12
  <2>2. NameOf[s[i]] # NameOf[s[j]]
    BY <2>1 DEF T!Listable
  <2>3. ~Precedes(sort, s[j], s[i])
    <3>1. ASSUME Precedes(sort, s[j], s[i]) PROVE FALSE
      <4>1. rank[s[j]] < rank[s[i]]
        BY <1>3, <2>1, <3>1
      <4> QED BY <1>1, <1>11, <1>12, <4>1
    <3> QED BY <3>1
  <2> QED BY <2>1, <2>2, <2>3, OrderIsTotal
<1>13. DOMAIN s = 1 .. n
  BY <1>11
<1> QED BY <1>11, <1>12, <1>13

LEMMA SameCountT == ASSUME NEW S PROVE T!Cardinality(S) = Cardinality(S)
BY DEF T!Cardinality, Cardinality

LEMMA SortedTyped ==
  ASSUME NEW sort \in SortState, NEW S \in SUBSET Object, IsFiniteSet(S), T!Listable(S)
  PROVE  T!Sorted(S, sort) \in Seq(S)
<1> DEFINE P(s) == \A i, j \in DOMAIN s : i < j => Precedes(sort, s[i], s[j])
           n == Cardinality(S)
<1>1. n \in Nat
  BY FS_CardinalityType
<1>2. \E s \in [1 .. n -> S] : P(s)
  BY OrderExists
<1>3. T!Sorted(S, sort) = CHOOSE s \in [1 .. n -> S] : P(s)
  BY SameCountT DEF T!Sorted, Precedes
<1> HIDE DEF P, n
<1>4. T!Sorted(S, sort) \in [1 .. n -> S]
  BY <1>2, <1>3
<1> QED BY <1>1, <1>4

-----------------------------------------------------------------------------
(* The table: its view.                                                    *)

ListRecord ==
    [all : Seq(Object), display : Seq(Object), cursor : Nat, yOff : Nat, height : Int,
     marks : SUBSET Object, search : Pattern \cup {None}, filter : Pattern \cup {None},
     sort : SortState, colored : SUBSET Nat, inverse : SUBSET Nat]

\* The cursor is at a row, if there is one.
Placed(l) == l \in ListRecord /\ l.cursor <= T!LastRow(l) /\ T!Listable(T!Objects(l))

\* The cursor is on the screen, if there is one and rows to be on.
InView(l) == l.height > 0 /\ l.display # <<>> => l.cursor \in T!OnScreen(l)

\* All of a list but the view's offset.
Unscrolled(l) ==
    <<l.all, l.display, l.cursor, l.height, l.marks, l.search, l.filter, l.sort,
      l.colored, l.inverse>>

\* A method that only scrolls.
Scrolls(k, l) == Placed(k) /\ Unscrolled(k) = Unscrolled(l)

\* The numbers of a list, and of its window.
LEMMA Numbers ==
  ASSUME NEW l, Placed(l)
  PROVE  /\ Len(l.display) \in Nat /\ l.cursor \in Nat /\ l.yOff \in Nat /\ l.height \in Int
         /\ l.cursor <= (IF Len(l.display) = 0 THEN 0 ELSE Len(l.display) - 1)
         /\ l.display # <<>> <=> Len(l.display) # 0
<1>1. l.display \in Seq(Object) /\ l.cursor \in Nat /\ l.yOff \in Nat /\ l.height \in Int
  BY DEF Placed, ListRecord
<1>2. Len(l.display) \in Nat /\ (l.display # <<>> <=> Len(l.display) # 0)
  BY <1>1
<1> QED BY <1>1, <1>2 DEF Placed, T!LastRow, T!AtLeast

\* The window around the cursor.
LEMMA Window ==
  ASSUME NEW l, Placed(l)
  PROVE  /\ T!Start(l) = (IF l.height <= 0 THEN l.cursor
                          ELSE IF l.cursor < l.height THEN 0 ELSE l.cursor - l.height)
         /\ T!Start(l) \in Nat /\ T!Start(l) <= l.cursor
         /\ T!End(l) = (IF l.height <= 0 THEN (IF l.display = <<>> THEN 0 ELSE l.cursor)
                        ELSE IF l.cursor + l.height > Len(l.display) THEN Len(l.display)
                        ELSE l.cursor + l.height)
         /\ T!End(l) \in Nat /\ T!End(l) <= Len(l.display)
         /\ T!MaxOffset(l) = (IF T!End(l) - T!Start(l) < l.height THEN 0
                              ELSE T!End(l) - T!Start(l) - l.height)
         /\ T!MaxOffset(l) \in Nat
<1> DEFINE n == Len(l.display)
           c == l.cursor
           h == l.height
<1>1. n \in Nat /\ c \in Nat /\ h \in Int /\ c <= (IF n = 0 THEN 0 ELSE n - 1)
      /\ (l.display = <<>> <=> n = 0)
  BY Numbers
<1>2. T!Start(l) = T!Clamp(c - h, 0, c) /\ T!End(l) = T!Clamp(c + h, c, n)
  BY DEF T!Start, T!End
<1> HIDE DEF n, c, h
<1>3. T!Start(l) = (IF h <= 0 THEN c ELSE IF c < h THEN 0 ELSE c - h)
  BY <1>1, <1>2 DEF T!Clamp, T!AtMost, T!AtLeast
<1>4. T!End(l) = (IF h <= 0 THEN (IF n = 0 THEN 0 ELSE c)
                  ELSE IF c + h > n THEN n ELSE c + h)
  BY <1>1, <1>2 DEF T!Clamp, T!AtMost, T!AtLeast
<1>5. T!Start(l) \in Nat /\ T!Start(l) <= c /\ T!End(l) \in Nat /\ T!End(l) <= n
  BY <1>1, <1>3, <1>4
<1>6. T!MaxOffset(l) = (IF T!End(l) - T!Start(l) < h THEN 0 ELSE T!End(l) - T!Start(l) - h)
      /\ T!MaxOffset(l) \in Nat
  BY <1>1, <1>5 DEF T!MaxOffset, T!AtLeast, h
<1> QED BY <1>1, <1>3, <1>4, <1>5, <1>6 DEF n, c, h

\* The window of a list with a height and rows.
LEMMA Shown ==
  ASSUME NEW l, Placed(l), l.height > 0, l.display # <<>>
  PROVE  /\ l.height \in Int /\ l.cursor \in Nat /\ l.yOff \in Nat
         /\ T!Start(l) \in Nat /\ T!End(l) \in Nat /\ T!MaxOffset(l) \in Nat
         /\ T!Start(l) <= l.cursor /\ l.cursor < T!End(l)
         /\ T!MaxOffset(l) = (IF T!End(l) - T!Start(l) < l.height THEN 0
                              ELSE T!End(l) - T!Start(l) - l.height)
<1>1. /\ Len(l.display) \in Nat /\ l.cursor \in Nat /\ l.yOff \in Nat /\ l.height \in Int
      /\ l.cursor <= (IF Len(l.display) = 0 THEN 0 ELSE Len(l.display) - 1)
      /\ Len(l.display) # 0
  BY Numbers
<1>2. T!End(l) = IF l.cursor + l.height > Len(l.display) THEN Len(l.display)
                 ELSE l.cursor + l.height
  BY <1>1, Window
<1>3. l.cursor < T!End(l)
  BY <1>1, <1>2
<1> QED BY <1>1, <1>3, Window

\* The cursor is on the screen where its line is one of those shown.
LEMMA WhenInView ==
  ASSUME NEW l, Placed(l), l.height > 0, l.display # <<>>
  PROVE  l.cursor \in T!OnScreen(l)
         <=> T!Start(l) + l.yOff <= l.cursor /\ l.cursor < T!Start(l) + l.yOff + l.height
<1>1. l.cursor < T!End(l) /\ T!Start(l) <= l.cursor /\ T!Start(l) \in Nat /\ T!End(l) \in Nat
      /\ l.cursor \in Nat /\ l.yOff \in Nat /\ l.height \in Int
  BY Numbers, Window
<1> HIDE DEF Placed
<1> QED BY <1>1 DEF T!OnScreen, T!Top

\* Only the offset changes.
LEMMA ScrollsTo ==
  ASSUME NEW l, Placed(l), NEW y \in Nat
  PROVE  LET k == [l EXCEPT !.yOff = y] IN Scrolls(k, l) /\ k.yOff = y
BY DEF Placed, ListRecord, Scrolls, Unscrolled, T!LastRow, T!Objects

LEMMA SameWindow ==
  ASSUME NEW k, NEW l, Unscrolled(k) = Unscrolled(l)
  PROVE  /\ T!Start(k) = T!Start(l) /\ T!End(k) = T!End(l) /\ T!MaxOffset(k) = T!MaxOffset(l)
         /\ k.height = l.height /\ k.display = l.display /\ k.cursor = l.cursor
<1>1. k.height = l.height /\ k.display = l.display /\ k.cursor = l.cursor
  BY DEF Unscrolled
<1> QED BY <1>1 DEF T!Start, T!End, T!MaxOffset

\* The window never ends so early that the cursor of a full view is lost.
LEMMA UpdateViewportKeeps ==
  ASSUME NEW l, Placed(l)
  PROVE  /\ Scrolls(T!UpdateViewport(l), l)
         /\ InView(l) => InView(T!UpdateViewport(l))
         /\ T!UpdateViewport(l).yOff <= T!MaxOffset(l)
<1> DEFINE y == T!AtMost(l.yOff, T!MaxOffset(l))
           k == T!UpdateViewport(l)
<1>1. y \in Nat /\ y <= T!MaxOffset(l) /\ (y = l.yOff \/ (y < l.yOff /\ y = T!MaxOffset(l)))
  <2>1. l.yOff \in Nat /\ T!MaxOffset(l) \in Nat
    BY Numbers, Window
  <2> DEFINE m == T!MaxOffset(l)
  <2>2. y = IF l.yOff > m THEN m ELSE l.yOff
    BY DEF T!AtMost
  <2> HIDE DEF m, y
  <2> QED BY <2>1, <2>2 DEF m
<1>2. k = [l EXCEPT !.yOff = y]
  BY DEF T!UpdateViewport
<1> HIDE DEF y, k
<1>3. Scrolls(k, l) /\ k.yOff = y
  BY <1>1, <1>2, ScrollsTo
<1>4. ASSUME InView(l), k.height > 0, k.display # <<>> PROVE k.cursor \in T!OnScreen(k)
  <2>1. Placed(k) /\ T!Start(k) = T!Start(l) /\ k.height = l.height
        /\ k.display = l.display /\ k.cursor = l.cursor
    BY <1>3, SameWindow DEF Scrolls
  <2>2. T!Start(l) + l.yOff <= l.cursor /\ l.cursor < T!Start(l) + l.yOff + l.height
    BY <1>4, <2>1, WhenInView DEF InView
  <2> DEFINE a == T!Start(l)
             e == T!End(l)
             m == T!MaxOffset(l)
  <2>4. l.height > 0 /\ l.display # <<>>
    BY <1>4, <2>1
  <2>5. /\ l.height \in Int /\ l.cursor \in Nat /\ l.yOff \in Nat
        /\ a \in Nat /\ e \in Nat /\ m \in Nat /\ a <= l.cursor /\ l.cursor < e
        /\ m = (IF e - a < l.height THEN 0 ELSE e - a - l.height)
    BY <2>4, Shown
  <2>6. a + l.yOff <= l.cursor /\ l.cursor < a + l.yOff + l.height
    BY <2>2
  <2>7. y \in Nat /\ y <= m /\ (y = l.yOff \/ (y < l.yOff /\ y = m))
    BY <1>1
  <2>3. a + y <= l.cursor /\ l.cursor < a + y + l.height
    <3> HIDE DEF a, e, m
    <3> QED BY <2>5, <2>6, <2>7
  <2> QED BY <1>3, <1>4, <2>1, <2>3, WhenInView
<1> QED BY <1>1, <1>3, <1>4 DEF InView, k

LEMMA SetYOffsetTo ==
  ASSUME NEW l, Placed(l), NEW n \in Nat
  PROVE  /\ Scrolls(T!SetYOffset(l, n), l)
         /\ T!SetYOffset(l, n).yOff = IF n > T!MaxOffset(l) THEN T!MaxOffset(l) ELSE n
<1>1. T!MaxOffset(l) \in Nat
  BY Window
<1>2. T!Clamp(n, 0, T!MaxOffset(l)) = IF n > T!MaxOffset(l) THEN T!MaxOffset(l) ELSE n
  BY <1>1 DEF T!Clamp, T!AtMost, T!AtLeast
<1>3. T!Clamp(n, 0, T!MaxOffset(l)) \in Nat
  BY <1>1, <1>2
<1> QED BY <1>2, <1>3, ScrollsTo DEF T!SetYOffset

\* Scrolling to a line at most a view above the cursor's shows the cursor.
LEMMA ScrolledInView ==
  ASSUME NEW l, Placed(l), NEW n \in Nat,
         l.height > 0 => n <= l.cursor - T!Start(l) /\ l.cursor - T!Start(l) < n + l.height
  PROVE  InView(T!SetYOffset(l, n))
<1> DEFINE k == T!SetYOffset(l, n)
<1>1. Placed(k) /\ T!Start(k) = T!Start(l) /\ k.height = l.height
      /\ k.display = l.display /\ k.cursor = l.cursor
      /\ k.yOff = IF n > T!MaxOffset(l) THEN T!MaxOffset(l) ELSE n
  BY SetYOffsetTo, SameWindow DEF Scrolls
<1> HIDE DEF k
<1>2. ASSUME k.height > 0, k.display # <<>> PROVE k.cursor \in T!OnScreen(k)
  <2> DEFINE a == T!Start(l)
             e == T!End(l)
             m == T!MaxOffset(l)
  <2>4. l.height > 0 /\ l.display # <<>>
    BY <1>1, <1>2
  <2>5. /\ l.height \in Int /\ l.cursor \in Nat /\ l.yOff \in Nat
        /\ a \in Nat /\ e \in Nat /\ m \in Nat /\ a <= l.cursor /\ l.cursor < e
        /\ m = (IF e - a < l.height THEN 0 ELSE e - a - l.height)
    BY <2>4, Shown
  <2>6. n \in Nat /\ n <= l.cursor - a /\ l.cursor - a < n + l.height
    BY <2>4
  <2>7. k.yOff = IF n > m THEN m ELSE n
    BY <1>1
  <2>1. a + k.yOff <= l.cursor /\ l.cursor < a + k.yOff + l.height
    <3> HIDE DEF a, e, m
    <3> QED BY <2>5, <2>6, <2>7
  <2> QED BY <1>1, <1>2, <2>1, WhenInView
<1> QED BY <1>2 DEF InView, k

LEMMA EnsureShows ==
  ASSUME NEW l, Placed(l)
  PROVE  Scrolls(T!EnsureCursorVisible(l), l) /\ InView(T!EnsureCursorVisible(l))
<1> DEFINE u == T!UpdateViewport(l)
           line == u.cursor - T!Start(u)
           to == T!AtLeast(line - u.height \div 2, 0)
<1>1. Scrolls(u, l)
  BY UpdateViewportKeeps
<1>2. T!EnsureCursorVisible(l) =
        IF line >= u.yOff /\ line < u.yOff + u.height THEN u ELSE T!SetYOffset(u, to)
  BY DEF T!EnsureCursorVisible
<1> HIDE DEF u
<1>3. Placed(u)
  BY <1>1 DEF Scrolls
<1>4. line \in Nat /\ u.height \in Int /\ u.yOff \in Nat /\ T!Start(u) \in Nat /\ u.cursor \in Nat
  <2> HIDE DEF Placed
  <2> QED BY <1>3, Numbers, Window
<1>5. CASE line >= u.yOff /\ line < u.yOff + u.height
  <2>1. InView(u)
    <3>1. T!Start(u) + u.yOff <= u.cursor /\ u.cursor < T!Start(u) + u.yOff + u.height
      BY <1>4, <1>5
    <3> QED BY <1>3, <3>1, WhenInView DEF InView
  <2> QED BY <1>1, <1>2, <1>5, <2>1
<1>6. CASE ~(line >= u.yOff /\ line < u.yOff + u.height)
  <2>1. to \in Nat /\ (u.height > 0 => to <= line /\ line < to + u.height)
    <3>1. u.height \div 2 \in Int /\ (u.height > 0 => u.height \div 2 >= 0 /\ u.height \div 2 < u.height)
      BY <1>4
    <3> HIDE DEF line
    <3> QED BY <1>4, <3>1 DEF T!AtLeast
  <2> HIDE DEF to
  <2>2. Scrolls(T!SetYOffset(u, to), u) /\ InView(T!SetYOffset(u, to))
    BY <1>3, <2>1, SetYOffsetTo, ScrolledInView
  <2> QED BY <1>1, <1>2, <1>6, <2>2 DEF Scrolls
<1> QED BY <1>5, <1>6

LEMMA ScrollShows ==
  ASSUME NEW l, Placed(l), NEW top \in Int
  PROVE  Scrolls(T!ScrollToCursor(l, top), l) /\ InView(T!ScrollToCursor(l, top))
<1> DEFINE u == T!UpdateViewport(l)
           to == CASE l.cursor < top -> l.cursor
                   [] l.cursor > top + l.height - 1 -> l.cursor - l.height + 1
                   [] OTHER -> top
           n == T!AtLeast(to - T!Start(l), 0)
<1>1. Scrolls(u, l) /\ Placed(u) /\ T!Start(u) = T!Start(l) /\ u.height = l.height
      /\ u.cursor = l.cursor
  BY UpdateViewportKeeps, SameWindow DEF Scrolls
<1>2. T!ScrollToCursor(l, top) = IF l.height <= 0 THEN u ELSE T!SetYOffset(u, n)
  BY DEF T!ScrollToCursor
<1> HIDE DEF u
<1>3. l.height \in Int /\ l.cursor \in Nat /\ T!Start(l) \in Nat /\ T!Start(l) <= l.cursor
      /\ (l.height > 0 => T!Start(l) >= l.cursor - l.height)
  <2> HIDE DEF Placed
  <2> QED BY Numbers, Window
<1>4. CASE l.height <= 0
  BY <1>1, <1>2, <1>3, <1>4 DEF InView
<1>5. CASE l.height > 0
  <2>1. to \in Int /\ to <= l.cursor /\ l.cursor < to + l.height
    BY <1>3, <1>5
  <2> HIDE DEF to
  <2>2. n \in Nat /\ n <= l.cursor - T!Start(l) /\ l.cursor - T!Start(l) < n + l.height
    BY <1>3, <1>5, <2>1 DEF T!AtLeast
  <2> HIDE DEF n
  <2>3. Scrolls(T!SetYOffset(u, n), u) /\ InView(T!SetYOffset(u, n))
    BY <1>1, <2>2, SetYOffsetTo, ScrolledInView
  <2> QED BY <1>1, <1>2, <1>3, <1>5, <2>3 DEF Scrolls
<1> QED BY <1>3, <1>4, <1>5

-----------------------------------------------------------------------------
(* The table: what is painted.                                             *)

\* The matches in the window are painted, those at the cursor or marked in inverse.
Painted(l) ==
    \A i \in T!Start(l) .. T!End(l) - 1 :
        /\ i \in l.inverse <=> T!Matching(l, i) /\ i \in {l.cursor} \cup T!MarkedRows(l)
        /\ i \in l.colored <=> T!Matching(l, i) /\ i \notin {l.cursor} \cup T!MarkedRows(l)

\* Without a search nothing is, anywhere.
Clean(l) == l.search = None => l.inverse = {} /\ l.colored = {}

Good(l) == Placed(l) /\ Clean(l)

\* All of a list but its view and its paint.
Kernel(l) ==
    <<l.all, l.display, l.cursor, l.height, l.marks, l.search, l.filter, l.sort>>

\* What a method comes to that ends with painting.
Repainted(k) == Good(k) /\ Painted(k) /\ (k.search # None => InView(k))

LEMMA CleanIsPainted == ASSUME NEW l, Clean(l), l.search = None PROVE Painted(l)
BY DEF Clean, Painted, T!Matching

LEMMA ScrolledIsPainted ==
  ASSUME NEW k, NEW l, Unscrolled(k) = Unscrolled(l)
  PROVE  /\ Painted(l) => Painted(k)
         /\ Clean(l) => Clean(k)
         /\ Kernel(k) = Kernel(l)
<1>1. /\ T!Start(k) = T!Start(l) /\ T!End(k) = T!End(l) /\ k.inverse = l.inverse
      /\ k.colored = l.colored /\ k.cursor = l.cursor /\ k.search = l.search
      /\ k.display = l.display /\ k.marks = l.marks
  BY SameWindow DEF Unscrolled
<1>2. T!MarkedRows(k) = T!MarkedRows(l) /\ \A i : T!Matching(k, i) <=> T!Matching(l, i)
  BY <1>1 DEF T!MarkedRows, T!Matching, T!Rows, T!At
<1> QED BY <1>1, <1>2 DEF Painted, Clean, Kernel, Unscrolled

LEMMA SameView ==
  ASSUME NEW k, NEW l, Kernel(k) = Kernel(l), k.yOff = l.yOff
  PROVE  InView(l) => InView(k)
BY DEF Kernel, InView, T!OnScreen, T!Top, T!Start, T!End

LEMMA ApplyHighlightsPaints ==
  ASSUME NEW l, Good(l)
  PROVE  LET k == T!ApplyHighlights(l) IN
         /\ Repainted(k) /\ Kernel(k) = Kernel(l)
         /\ InView(l) => InView(k)
<1>1. CASE l.search = None
  BY <1>1, CleanIsPainted DEF Good, Repainted, T!ApplyHighlights
<1>2. CASE l.search # None
  <2> DEFINE u == T!EnsureCursorVisible(l)
             in == T!Start(u) .. T!End(u) - 1
             hits == {i \in in : T!Matching(u, i)}
             inverse == hits \cap ({u.cursor} \cup T!MarkedRows(u))
             inv == (u.inverse \ in) \cup inverse
             col == (u.colored \ in) \cup (hits \ inverse)
             k == T!ApplyHighlights(l)
  <2>1. Placed(u) /\ Unscrolled(u) = Unscrolled(l) /\ InView(u)
    BY EnsureShows DEF Good, Scrolls
  <2>2. k = [u EXCEPT !.inverse = inv, !.colored = col]
    BY <1>2 DEF T!ApplyHighlights
  <2> HIDE DEF u
  <2>3. in \subseteq Nat
    <3>1. T!Start(u) \in Nat /\ T!End(u) \in Nat
      BY <2>1, Window
    <3> QED BY <3>1
  <2>4. inv \in SUBSET Nat /\ col \in SUBSET Nat
    BY <2>1, <2>3 DEF Placed, ListRecord
  <2>5. \A i \in in : /\ i \in inv <=> T!Matching(u, i) /\ i \in {u.cursor} \cup T!MarkedRows(u)
                      /\ i \in col <=> T!Matching(u, i) /\ i \notin {u.cursor} \cup T!MarkedRows(u)
    <3> HIDE DEF in
    <3> QED OBVIOUS
  <2> HIDE DEF inv, col, k
  <2>6. /\ k \in ListRecord /\ Kernel(k) = Kernel(u) /\ k.yOff = u.yOff
        /\ k.inverse = inv /\ k.colored = col
    BY <2>1, <2>2, <2>4 DEF Placed, ListRecord, Kernel
  <2>7. /\ k.all = u.all /\ k.display = u.display /\ k.cursor = u.cursor /\ k.height = u.height
        /\ k.marks = u.marks /\ k.search = u.search
    BY <2>6 DEF Kernel
  <2>8. Placed(k)
    BY <2>1, <2>6, <2>7 DEF Placed, T!LastRow, T!Objects
  <2>9. T!Start(k) = T!Start(u) /\ T!End(k) = T!End(u) /\ T!MarkedRows(k) = T!MarkedRows(u)
        /\ \A i : T!Matching(k, i) <=> T!Matching(u, i)
    BY <2>7 DEF T!Start, T!End, T!MarkedRows, T!Matching, T!Rows, T!At
  <2>10. Painted(k)
    BY <2>5, <2>6, <2>7, <2>9 DEF Painted
  <2>11. InView(k)
    BY <2>1, <2>6, SameView
  <2>12. k.search # None /\ Kernel(k) = Kernel(l)
    BY <1>2, <2>1, <2>6, <2>7, ScrolledIsPainted DEF Unscrolled
  <2> QED BY <2>8, <2>10, <2>11, <2>12 DEF Good, Clean, Repainted, k
<1> QED BY <1>1, <1>2

LEMMA ClampInto ==
  ASSUME NEW n \in Int, NEW high \in Nat
  PROVE  /\ T!Clamp(n, 0, high) \in Nat /\ T!Clamp(n, 0, high) <= high
         /\ n \in 0 .. high => T!Clamp(n, 0, high) = n
BY DEF T!Clamp, T!AtMost, T!AtLeast

\* The cursor goes to a row; the view may stay behind.
LEMMA CursorPlaced ==
  ASSUME NEW l, Placed(l), NEW n \in Int
  PROVE  LET k == [l EXCEPT !.cursor = T!Clamp(n, 0, T!LastRow(l))] IN
         /\ Placed(k) /\ Kernel([k EXCEPT !.cursor = l.cursor]) = Kernel(l)
         /\ k.inverse = l.inverse /\ k.colored = l.colored /\ k.yOff = l.yOff
         /\ k.display = l.display /\ k.search = l.search /\ k.height = l.height
         /\ k.marks = l.marks /\ k.all = l.all /\ k.sort = l.sort /\ k.filter = l.filter
         /\ n \in 0 .. T!LastRow(l) => k.cursor = n
<1> DEFINE c == T!Clamp(n, 0, T!LastRow(l))
<1>1. T!LastRow(l) \in Nat
  <2>1. Len(l.display) \in Nat
    BY Numbers
  <2> QED BY <2>1 DEF T!LastRow, T!AtLeast
<1>2. c \in Nat /\ c <= T!LastRow(l) /\ (n \in 0 .. T!LastRow(l) => c = n)
  BY <1>1, ClampInto
<1> HIDE DEF c
<1>3. [l EXCEPT !.cursor = c] \in ListRecord
  BY <1>2 DEF Placed, ListRecord
<1> QED BY <1>2, <1>3 DEF Placed, ListRecord, Kernel, T!LastRow, T!Objects, c

LEMMA SetCursorPlaces ==
  ASSUME NEW l, Good(l), NEW n \in Int
  PROVE  LET k == T!SetCursor(l, n) IN
         /\ Good(k) /\ k.display = l.display /\ k.search = l.search /\ k.height = l.height
         /\ k.all = l.all
         /\ n \in 0 .. T!LastRow(l) => k.cursor = n
<1> DEFINE u == [l EXCEPT !.cursor = T!Clamp(n, 0, T!LastRow(l))]
           k == T!SetCursor(l, n)
<1>1. Placed(u) /\ u.inverse = l.inverse /\ u.colored = l.colored /\ u.search = l.search
      /\ u.display = l.display /\ u.height = l.height /\ u.all = l.all
      /\ (n \in 0 .. T!LastRow(l) => u.cursor = n)
  BY CursorPlaced DEF Good
<1>2. k = T!UpdateViewport(u)
  BY DEF T!SetCursor
<1> HIDE DEF u, k
<1>3. Scrolls(k, u)
  BY <1>1, <1>2, UpdateViewportKeeps
<1>4. Good(k)
  BY <1>1, <1>3, ScrolledIsPainted DEF Good, Clean, Scrolls, Unscrolled
<1> QED BY <1>1, <1>3, <1>4 DEF Scrolls, Unscrolled, k

\* Moving by any number of rows keeps the cursor on the screen.
LEMMA MoveShows ==
  ASSUME NEW l, Good(l), NEW n \in Int
  PROVE  Good(T!Move(l, n)) /\ InView(T!Move(l, n))
<1> DEFINE u == [l EXCEPT !.cursor = T!Clamp(l.cursor + n, 0, T!LastRow(l))]
           k == T!Move(l, n)
<1>1. T!Top(l) \in Int /\ l.cursor + n \in Int
  <2>1. l.cursor \in Nat /\ l.yOff \in Nat /\ T!Start(l) \in Nat
    BY Numbers, Window DEF Good
  <2> QED BY <2>1 DEF T!Top
<1>2. Placed(u) /\ u.inverse = l.inverse /\ u.colored = l.colored /\ u.search = l.search
  BY <1>1, CursorPlaced DEF Good
<1>3. k = T!ScrollToCursor(u, T!Top(l))
  BY DEF T!Move
<1> HIDE DEF u, k
<1>4. Scrolls(k, u) /\ InView(k)
  BY <1>1, <1>2, <1>3, ScrollShows
<1>5. Good(k)
  BY <1>2, <1>4, ScrolledIsPainted DEF Good, Clean, Scrolls, Unscrolled
<1> QED BY <1>4, <1>5 DEF k

-----------------------------------------------------------------------------
(* The table: new rows.                                                    *)

\* A list between two methods, whose cursor may be below its last row.
Loose(l) == l \in ListRecord /\ T!Listable(T!Objects(l))

LEMMA SetRowsPlaces ==
  ASSUME NEW l, Loose(l), NEW rows \in Seq(Object)
  PROVE  LET k == T!SetRows(l, rows) IN
         /\ Good(k) /\ k.display = rows /\ k.all = l.all /\ k.height = l.height
         /\ k.search = l.search /\ k.filter = l.filter /\ k.marks = l.marks /\ k.sort = l.sort
<1> DEFINE u == [l EXCEPT !.display = rows, !.inverse = {}, !.colored = {}]
           v == [u EXCEPT !.cursor = T!AtMost(u.cursor, T!LastRow(u))]
           k == T!SetRows(l, rows)
<1>1. /\ u \in ListRecord /\ u.display = rows /\ u.all = l.all /\ u.height = l.height
      /\ u.search = l.search /\ u.filter = l.filter /\ u.marks = l.marks /\ u.sort = l.sort
      /\ u.inverse = {} /\ u.colored = {} /\ u.cursor \in Nat
  BY DEF Loose, ListRecord
<1>2. k = T!UpdateViewport(v)
  BY DEF T!SetRows
<1> HIDE DEF u
<1>3. T!LastRow(u) \in Nat
  <2>1. Len(u.display) \in Nat
    BY <1>1
  <2> QED BY <2>1 DEF T!LastRow, T!AtLeast
<1>4. T!AtMost(u.cursor, T!LastRow(u)) \in Nat /\ T!AtMost(u.cursor, T!LastRow(u)) <= T!LastRow(u)
  BY <1>1, <1>3 DEF T!AtMost
<1>5. /\ v \in ListRecord /\ v.display = rows /\ v.all = l.all /\ v.height = l.height
      /\ v.search = l.search /\ v.filter = l.filter /\ v.marks = l.marks /\ v.sort = l.sort
      /\ v.inverse = {} /\ v.colored = {} /\ v.cursor = T!AtMost(u.cursor, T!LastRow(u))
  BY <1>1, <1>4 DEF ListRecord
<1> HIDE DEF v, k
<1>6. Placed(v)
  BY <1>1, <1>4, <1>5 DEF Placed, Loose, T!LastRow, T!Objects
<1>7. Scrolls(k, v)
  BY <1>2, <1>6, UpdateViewportKeeps
<1>8. Good(k)
  BY <1>5, <1>7 DEF Good, Clean, Scrolls, Unscrolled
<1> QED BY <1>5, <1>7, <1>8 DEF Scrolls, Unscrolled, k

LEMMA RebuildRepaints ==
  ASSUME NEW l, Loose(l)
  PROVE  LET k == T!RebuildDisplay(l) IN
         Repainted(k) /\ k.all = l.all /\ k.search = l.search
<1> DEFINE rows == IF l.filter = None THEN l.all ELSE T!Kept(l.all, l.filter)
           u == T!SetRows(l, rows)
           k == T!RebuildDisplay(l)
<1>1. rows \in Seq(Object)
  BY KeptTyped DEF Loose, ListRecord
<1>2. k = T!ApplyHighlights(u)
  BY DEF T!RebuildDisplay
<1> HIDE DEF rows, k
<1>3. Good(u) /\ u.all = l.all /\ u.search = l.search
  BY <1>1, SetRowsPlaces
<1> HIDE DEF u
<1>4. Repainted(k) /\ Kernel(k) = Kernel(u)
  BY <1>2, <1>3, ApplyHighlightsPaints
<1> QED BY <1>3, <1>4 DEF Kernel, k

-----------------------------------------------------------------------------
(* The table: refreshes, searches and filters.                             *)

LEMMA LeastOf ==
  ASSUME NEW S, S \subseteq Nat, S # {}
  PROVE  T!Min(S) \in S
BY LeastNat DEF T!Min

LEMMA ObjectsFinite ==
  ASSUME NEW s \in Seq(Object)
  PROVE  T!ToSet(s) \in SUBSET Object /\ IsFiniteSet(T!ToSet(s))
<1> DEFINE n == Len(s)
           S == T!ToSet(s)
<1>1. n \in Nat /\ DOMAIN s = 1 .. n
  OBVIOUS
<1>2. S = {s[i] : i \in 1 .. n}
  BY <1>1 DEF T!ToSet, T!Range
<1>3. S \subseteq Object
  BY <1>2
<1>4. IsFiniteSet(1 .. n)
  BY <1>1, FS_Interval
<1> DEFINE f == [i \in 1 .. n |-> s[i]]
<1>5. f \in Surjection(1 .. n, S)
  BY <1>2 DEF Surjection
<1>6. IsFiniteSet(S)
  <2> HIDE DEF S, n, f
  <2> QED BY <1>4, <1>5, FS_Surjection
<1> QED BY <1>3, <1>6

LEMMA SetObjectsRepaints ==
  ASSUME NEW l, Loose(l), NEW objects \in SUBSET Object, IsFiniteSet(objects),
         T!Listable(objects)
  PROVE  LET k == T!SetObjects(l, objects)
             o == T!Selected(l)
         IN  /\ Repainted(k)
             /\ o # None /\ (\E i \in T!Rows(k) : NameOf[T!At(k, i)] = NameOf[o])
                => NameOf[T!Selected(k)] = NameOf[o]
<1> DEFINE v == [l EXCEPT !.all = T!Sorted(objects, l.sort), !.marks = @ \cap objects]
           u == T!RebuildDisplay(v)
           o == T!Selected(l)
           same == {i \in T!Rows(u) : o # None /\ NameOf[T!At(u, i)] = NameOf[o]}
           k == T!SetObjects(l, objects)
<1>1. v \in ListRecord /\ T!Objects(v) \subseteq objects
  <2>1. l.sort \in SortState /\ l.marks \in SUBSET Object
    BY DEF Loose, ListRecord
  <2>2. T!Sorted(objects, l.sort) \in Seq(objects)
    BY <2>1, SortedTyped
  <2> DEFINE s == T!Sorted(objects, l.sort)
  <2> HIDE DEF s
  <2>3. s \in Seq(objects) /\ v = [l EXCEPT !.all = s, !.marks = @ \cap objects]
    BY <2>2 DEF s
  <2>4. s \in Seq(Object) /\ T!ToSet(s) \subseteq objects
    BY <2>3 DEF T!ToSet, T!Range
  <2> HIDE DEF v
  <2>5. v \in ListRecord /\ v.all = s
    BY <2>3, <2>4 DEF Loose, ListRecord
  <2> QED BY <2>4, <2>5 DEF T!Objects
<1>2. Loose(v)
  BY <1>1 DEF Loose, T!Listable
<1>3. k = IF same # {} THEN T!ApplyHighlights(T!SetCursor(u, T!Min(same)))
          ELSE IF u.display # <<>>
               THEN T!ApplyHighlights(T!SetCursor(u, T!AtMost(u.cursor, T!LastRow(u))))
               ELSE u
  BY DEF T!SetObjects
<1> HIDE DEF v
<1>4. Repainted(u)
  BY <1>2, RebuildRepaints
<1> HIDE DEF u
<1>5. Len(u.display) \in Nat /\ u.cursor \in Nat /\ T!LastRow(u) \in Nat
  <2>1. Len(u.display) \in Nat /\ u.cursor \in Nat
    BY <1>4, Numbers DEF Repainted, Good
  <2> QED BY <2>1 DEF T!LastRow, T!AtLeast
<1>6. CASE same # {}
  <2> DEFINE m == T!Min(same)
             c == T!SetCursor(u, m)
  <2>1. same \subseteq Nat
    BY <1>5 DEF T!Rows
  <2>2. m \in same
    <3> HIDE DEF same
    <3> QED BY <1>6, <2>1, LeastOf
  <2>3. m \in T!Rows(u) /\ NameOf[T!At(u, m)] = NameOf[o]
    BY <2>2
  <2>4. m \in Int /\ m \in 0 .. T!LastRow(u)
    BY <1>5, <2>3 DEF T!Rows, T!LastRow, T!AtLeast
  <2>5. k = T!ApplyHighlights(c)
    BY <1>3, <1>6
  <2> HIDE DEF m, c, k, same, o
  <2>6. Good(c) /\ c.display = u.display /\ c.cursor = m
    BY <1>4, <2>4, SetCursorPlaces DEF Repainted, c
  <2>7. Repainted(k) /\ k.display = u.display /\ k.cursor = m
    BY <2>5, <2>6, ApplyHighlightsPaints DEF Kernel
  <2>8. NameOf[T!Selected(k)] = NameOf[o]
    BY <2>3, <2>7 DEF T!Selected, T!Rows, T!At
  <2> QED BY <2>7, <2>8 DEF k, o
<1>7. CASE same = {}
  <2>1. Repainted(k) /\ k.display = u.display
    <3>1. CASE u.display # <<>>
      <4> DEFINE n == T!AtMost(u.cursor, T!LastRow(u))
                 c == T!SetCursor(u, n)
      <4>1. n \in Int
        BY <1>5 DEF T!AtMost
      <4>2. k = T!ApplyHighlights(c)
        BY <1>3, <1>7, <3>1
      <4> HIDE DEF n, k, same
      <4>3. Good(c) /\ c.display = u.display
        BY <1>4, <4>1, SetCursorPlaces DEF Repainted
      <4> HIDE DEF c
      <4> QED BY <4>2, <4>3, ApplyHighlightsPaints DEF Kernel
    <3>2. CASE u.display = <<>>
      BY <1>3, <1>4, <1>7, <3>2
    <3> QED BY <3>1, <3>2
  <2>2. T!Rows(k) = T!Rows(u) /\ \A i : T!At(k, i) = T!At(u, i)
    BY <2>1 DEF T!Rows, T!At
  <2> HIDE DEF k
  <2> QED BY <1>7, <2>1, <2>2 DEF k
<1> QED BY <1>6, <1>7

LEMMA HitsAreRows ==
  ASSUME NEW l, Placed(l)
  PROVE  T!Hits(l) \subseteq 0 .. Len(l.display) - 1 /\ T!Hits(l) \subseteq Nat
         /\ T!Rows(l) = 0 .. Len(l.display) - 1 /\ Len(l.display) \in Nat
<1>1. Len(l.display) \in Nat
  BY Numbers
<1> QED BY <1>1 DEF T!Hits, T!Rows

LEMMA FilterRepaints ==
  ASSUME NEW l, Placed(l), NEW p \in Pattern \cup {None}
  PROVE  Repainted(T!ApplyFilter(l, p))
<1> DEFINE u == [l EXCEPT !.filter = p]
<1>1. u \in ListRecord /\ u.all = l.all
  BY DEF Placed, ListRecord
<1>2. Loose(u)
  BY <1>1 DEF Loose, Placed, T!Objects
<1> QED BY <1>2, RebuildRepaints DEF T!ApplyFilter

LEMMA SearchRepaints ==
  ASSUME NEW l, Placed(l), NEW p \in Pattern \cup {None}
  PROVE  Repainted(T!ApplySearch(l, p))
<1> DEFINE u == [l EXCEPT !.search = p]
           m == T!Min(T!Hits(u))
           v == IF T!Hits(u) = {} THEN u ELSE T!SetCursor(u, m)
<1>1. u \in ListRecord /\ u.all = l.all /\ u.display = l.display /\ u.cursor = l.cursor
  BY DEF Placed, ListRecord
<1> HIDE DEF u
<1>2. Placed(u)
  BY <1>1 DEF Placed, T!Objects, T!LastRow
<1>3. Loose(u)
  BY <1>2 DEF Loose, Placed
<1>4. CASE T!Hits(u) = {}
  BY <1>3, <1>4, RebuildRepaints DEF T!ApplySearch, u
<1>5. CASE T!Hits(u) # {}
  <2>0. T!Hits(u) \subseteq Nat
    BY <1>2, HitsAreRows
  <2>1. m \in T!Hits(u) /\ m \in Int
    BY <1>5, <2>0, LeastOf
  <2> HIDE DEF m
  <2> DEFINE w == [u EXCEPT !.cursor = T!Clamp(m, 0, T!LastRow(u))]
  <2>2. Placed(w)
    BY <1>2, <2>1, CursorPlaced
  <2>3. T!SetCursor(u, m) = T!UpdateViewport(w)
    BY DEF T!SetCursor
  <2> HIDE DEF w
  <2>4. Loose(T!SetCursor(u, m))
    BY <2>2, <2>3, UpdateViewportKeeps DEF Scrolls, Placed, Loose
  <2> QED BY <1>5, <2>4, RebuildRepaints DEF T!ApplySearch, u, m
<1> QED BY <1>4, <1>5

LEMMA SearchToRepaints ==
  ASSUME NEW l, Good(l), NEW i \in Int
  PROVE  Repainted(T!SearchTo(l, i))
BY SetCursorPlaces, ApplyHighlightsPaints DEF T!SearchTo

\* The last of some rows.
LEMMA LastOf ==
  ASSUME NEW n \in Nat, NEW S, S \subseteq 0 .. n, S # {}
  PROVE  T!Max(S) \in S
<1> DEFINE R == {j \in 0 .. n : n - j \in S}
<1>1. R \subseteq Nat /\ R # {}
  <2>1. PICK x \in S : TRUE
    OBVIOUS
  <2>2. n - x \in 0 .. n /\ n - (n - x) = x
    BY <2>1
  <2>3. n - x \in R
    BY <2>1, <2>2
  <2>4. R \subseteq Nat
    OBVIOUS
  <2> HIDE DEF R
  <2> QED BY <2>3, <2>4
<1>2. PICK m \in R : \A j \in R : m <= j
  <2> HIDE DEF R
  <2> QED BY <1>1, LeastNat
<1>3. n - m \in S /\ \A y \in S : n - m >= y
  <2>1. m \in 0 .. n /\ n - m \in S
    BY <1>2
  <2>2. ASSUME NEW y \in S PROVE n - m >= y
    <3>1. y \in 0 .. n /\ n - y \in R
      <4>1. y \in 0 .. n /\ n - (n - y) = y
        OBVIOUS
      <4> QED BY <4>1
    <3>2. m <= n - y
      BY <1>2, <3>1
    <3> HIDE DEF R
    <3> QED BY <2>1, <3>1, <3>2
  <2> QED BY <2>1, <2>2
<1> QED BY <1>3 DEF T!Max

LEMMA HitNumbers ==
  ASSUME NEW l, Placed(l), T!Hits(l) # {}
  PROVE  T!NextHit(l) \in Int /\ T!PrevHit(l) \in Int
<1> DEFINE n == Len(l.display)
           after == {i \in T!Hits(l) : i > l.cursor}
           before == {i \in T!Hits(l) : i < l.cursor}
<1>1. T!Hits(l) \subseteq 0 .. n /\ T!Hits(l) \subseteq Nat /\ n \in Nat
  BY HitsAreRows
<1>2. after \subseteq T!Hits(l) /\ before \subseteq T!Hits(l)
  OBVIOUS
<1>3. T!NextHit(l) = IF after = {} THEN T!Min(T!Hits(l)) ELSE T!Min(after)
  BY DEF T!NextHit
<1>4. T!PrevHit(l) = IF before = {} THEN T!Max(T!Hits(l)) ELSE T!Max(before)
  BY DEF T!PrevHit
<1> HIDE DEF after, before, n
<1>5. T!Min(T!Hits(l)) \in T!Hits(l) /\ T!Max(T!Hits(l)) \in T!Hits(l)
  BY <1>1, LeastOf, LastOf
<1>6. after # {} => T!Min(after) \in after
  BY <1>1, <1>2, LeastOf
<1>7. before # {} => T!Max(before) \in before
  <2>1. before \subseteq 0 .. n
    BY <1>1, <1>2
  <2> QED BY <1>1, <2>1, LastOf
<1> QED BY <1>1, <1>2, <1>3, <1>4, <1>5, <1>6, <1>7

-----------------------------------------------------------------------------
(* The table: marks, sizes and other resources.                            *)

\* A method that changes marks or the height and then trims the view.
LEMMA TrimGood ==
  ASSUME NEW l, Good(l), NEW k, k \in ListRecord,
         k.all = l.all, k.display = l.display, k.cursor = l.cursor, k.search = l.search,
         k.inverse = l.inverse, k.colored = l.colored
  PROVE  Good(T!UpdateViewport(k)) /\ Good(k)
<1>1. Placed(k) /\ Clean(k)
  BY DEF Good, Placed, Clean, T!LastRow, T!Objects
<1>2. Scrolls(T!UpdateViewport(k), k)
  BY <1>1, UpdateViewportKeeps
<1>3. Good(T!UpdateViewport(k))
  BY <1>1, <1>2, ScrolledIsPainted DEF Good, Scrolls
<1> QED BY <1>1, <1>3 DEF Good

\* Where only the marks change, the cursor stays on the screen.
LEMMA MarksGood ==
  ASSUME NEW l, Good(l), NEW m \in SUBSET Object
  PROVE  LET k == T!UpdateViewport([l EXCEPT !.marks = m]) IN
         Good(k) /\ (InView(l) => InView(k))
<1> DEFINE u == [l EXCEPT !.marks = m]
<1>1. /\ u \in ListRecord /\ u.all = l.all /\ u.display = l.display /\ u.cursor = l.cursor
      /\ u.search = l.search /\ u.inverse = l.inverse /\ u.colored = l.colored
      /\ u.height = l.height /\ u.yOff = l.yOff
  BY DEF Good, Placed, ListRecord
<1> HIDE DEF u
<1>2. Good(T!UpdateViewport(u)) /\ Good(u)
  BY <1>1, TrimGood
<1>3. InView(l) => InView(u)
  BY <1>1 DEF InView, T!OnScreen, T!Top, T!Start, T!End
<1>4. InView(u) => InView(T!UpdateViewport(u))
  BY <1>2, UpdateViewportKeeps DEF Good
<1> QED BY <1>2, <1>3, <1>4 DEF u

LEMMA SelectedIsObject ==
  ASSUME NEW l, Placed(l), T!Selected(l) # None
  PROVE  T!Selected(l) \in Object
<1>1. l.display \in Seq(Object) /\ l.cursor \in Nat
  BY DEF Placed, ListRecord
<1>2. l.cursor \in 0 .. Len(l.display) - 1 /\ T!Selected(l) = l.display[l.cursor + 1]
  BY DEF T!Selected, T!Rows, T!At
<1>3. Len(l.display) \in Nat /\ l.cursor + 1 \in 1 .. Len(l.display)
  BY <1>1, <1>2
<1> QED BY <1>1, <1>2, <1>3

LEMMA ToggleGood == ASSUME NEW l, Good(l) PROVE Good(T!ToggleSelect(l))
<1> DEFINE o == T!Selected(l)
           m == IF o \in l.marks THEN l.marks \ {o} ELSE l.marks \cup {o}
<1>1. CASE o = None
  BY <1>1 DEF T!ToggleSelect
<1>2. CASE o # None
  <2>1. o \in Object /\ l.marks \in SUBSET Object
    BY <1>2, SelectedIsObject DEF Good, Placed, ListRecord
  <2>2. m \in SUBSET Object
    <3> HIDE DEF o
    <3> QED BY <2>1
  <2> DEFINE k == T!UpdateViewport([l EXCEPT !.marks = m])
  <2>3. T!ToggleSelect(l) = k
    BY <1>2 DEF T!ToggleSelect
  <2>4. Good(k)
    <3> HIDE DEF m
    <3> QED BY <2>2, MarksGood
  <2> HIDE DEF k
  <2> QED BY <2>3, <2>4
<1> QED BY <1>1, <1>2

LEMMA SelectAllGood ==
  ASSUME NEW l, Good(l)
  PROVE  LET k == T!SelectAll(l) IN Good(k) /\ (InView(l) => InView(k))
<1> DEFINE S == T!ToSet(l.display)
           m == IF S \subseteq l.marks THEN {} ELSE S
<1>1. CASE l.display = <<>>
  BY <1>1 DEF T!SelectAll
<1>2. CASE l.display # <<>>
  <2>1. S \in SUBSET Object
    BY ObjectsFinite DEF Good, Placed, ListRecord
  <2>2. m \in SUBSET Object
    BY <2>1
  <2> DEFINE k == T!UpdateViewport([l EXCEPT !.marks = m])
  <2>3. T!SelectAll(l) = k
    BY <1>2 DEF T!SelectAll
  <2>4. Good(k) /\ (InView(l) => InView(k))
    <3> HIDE DEF m, S
    <3> QED BY <2>2, MarksGood
  <2> HIDE DEF k
  <2> QED BY <2>3, <2>4
<1> QED BY <1>1, <1>2

LEMMA ClearSelectionGood ==
  ASSUME NEW l, Good(l)
  PROVE  LET k == T!ClearSelection(l) IN Good(k) /\ (InView(l) => InView(k))
<1>1. CASE l.marks = {}
  BY <1>1 DEF T!ClearSelection
<1>2. CASE l.marks # {}
  <2> DEFINE m == {}
  <2> DEFINE k == T!UpdateViewport([l EXCEPT !.marks = m])
  <2>1. m \in SUBSET Object /\ T!ClearSelection(l) = k
    BY <1>2 DEF T!ClearSelection
  <2>2. Good(k) /\ (InView(l) => InView(k))
    <3> HIDE DEF m
    <3> QED BY <2>1, MarksGood
  <2> HIDE DEF k
  <2> QED BY <2>1, <2>2
<1> QED BY <1>1, <1>2

LEMMA SetSizeGood ==
  ASSUME NEW l, Good(l), NEW h \in Heights
  PROVE  Good(T!SetSize(l, h))
<1> DEFINE u == [l EXCEPT !.height = h]
<1>1. /\ u \in ListRecord /\ u.all = l.all /\ u.display = l.display /\ u.cursor = l.cursor
      /\ u.search = l.search /\ u.inverse = l.inverse /\ u.colored = l.colored
  BY DEF Good, Placed, ListRecord
<1> HIDE DEF u
<1>2. Good(T!UpdateViewport(u))
  BY <1>1, TrimGood
<1> QED BY <1>2 DEF T!SetSize, u

LEMMA DefaultSortTyped == T!DefaultSort \in SortState
BY DEF T!DefaultSort, SortState

\* A list without rows, marks, search and filter.
LEMMA Emptied ==
  ASSUME NEW l \in ListRecord, NEW sort \in SortState
  PROVE  LET k == [l EXCEPT !.sort = sort, !.filter = None, !.search = None,
                            !.marks = {}, !.all = <<>>]
         IN  k \in ListRecord /\ k.all = <<>>
<1>1. <<>> \in Seq(Object) /\ {} \in SUBSET Object
  OBVIOUS
<1> QED BY <1>1 DEF ListRecord

LEMMA EmptyLoose ==
  ASSUME NEW k, k \in ListRecord, k.all = <<>>
  PROVE  Good(T!SetRows(k, <<>>)) /\ T!SetRows(k, <<>>).search = k.search
<1>1. Loose(k)
  BY DEF Loose, T!Objects, T!ToSet, T!Range, T!Listable
<1>2. <<>> \in Seq(Object)
  OBVIOUS
<1> QED BY <1>1, <1>2, SetRowsPlaces

LEMMA PluginGood == ASSUME NEW l, Good(l) PROVE Good(T!SetPlugin(l))
<1> DEFINE k == [l EXCEPT !.sort = T!DefaultSort, !.filter = None, !.search = None,
                          !.marks = {}, !.all = <<>>]
<1>1. k \in ListRecord /\ k.all = <<>>
  BY DefaultSortTyped, Emptied DEF Good, Placed
<1> HIDE DEF k
<1>2. Good(T!SetRows(k, <<>>))
  BY <1>1, EmptyLoose
<1> QED BY <1>2 DEF T!SetPlugin, k

LEMMA ReloadGood == ASSUME NEW l, Good(l) PROVE Good(T!ResetForReload(l))
<1> DEFINE k == [l EXCEPT !.filter = None, !.search = None, !.marks = {}, !.all = <<>>]
<1>1. k \in ListRecord /\ k.all = <<>>
  <2>1. <<>> \in Seq(Object) /\ {} \in SUBSET Object
    OBVIOUS
  <2> QED BY <2>1 DEF Good, Placed, ListRecord
<1> HIDE DEF k
<1>2. Good(T!SetRows(k, <<>>))
  BY <1>1, EmptyLoose
<1> QED BY <1>2 DEF T!ResetForReload, k

\* A row that is hit is on the screen.
LEMMA RowHit ==
  ASSUME NEW l, Placed(l), NEW y \in Nat, T!RowAtY(l, y) >= 0
  PROVE  LET i == T!RowAtY(l, y) IN
         /\ i = T!Top(l) + y - 1 /\ y - 1 >= 0 /\ y - 1 < l.height
         /\ i \in 0 .. T!LastRow(l) /\ i \in Nat /\ l.height > 0 /\ l.display # <<>>
<1> DEFINE i == T!Start(l) + l.yOff + y - 1
<1>1. T!RowAtY(l, y) = IF y - 1 < 0 \/ y - 1 >= l.height \/ i \notin T!Rows(l) THEN -1 ELSE i
  BY DEF T!RowAtY
<1>2. /\ Len(l.display) \in Nat /\ T!Start(l) \in Nat /\ l.yOff \in Nat /\ l.height \in Int
      /\ (l.display # <<>> <=> Len(l.display) # 0)
  BY Numbers, Window
<1>3. ~(y - 1 < 0 \/ y - 1 >= l.height \/ i \notin T!Rows(l)) /\ T!RowAtY(l, y) = i
  <2> HIDE DEF i
  <2> QED BY <1>1
<1>4. i \in 0 .. Len(l.display) - 1
  BY <1>3 DEF T!Rows
<1>5. T!LastRow(l) = Len(l.display) - 1
  BY <1>2, <1>4 DEF T!LastRow, T!AtLeast
<1> QED BY <1>2, <1>3, <1>4, <1>5 DEF T!Top

\* A click on the screen leaves the row it hits on the screen, although the window
\* moves with the cursor.
LEMMA HitShows ==
  ASSUME NEW l, Good(l), InView(l), NEW y \in Nat, T!RowAtY(l, y) >= 0
  PROVE  LET k == T!SetCursor(l, T!RowAtY(l, y)) IN Good(k) /\ InView(k)
<1> DEFINE i == T!RowAtY(l, y)
           w == [l EXCEPT !.cursor = T!Clamp(i, 0, T!LastRow(l))]
           k == T!SetCursor(l, i)
<1>0. Placed(l)
  BY DEF Good
<1>1. /\ i = T!Top(l) + y - 1 /\ y - 1 >= 0 /\ y - 1 < l.height
      /\ i \in 0 .. T!LastRow(l) /\ i \in Nat /\ l.height > 0 /\ l.display # <<>>
  BY <1>0, RowHit
<1> HIDE DEF i
<1>2. i \in Int
  BY <1>1
<1>3. Good(k)
  BY <1>2, SetCursorPlaces
<1>4. Placed(w) /\ w.yOff = l.yOff /\ w.display = l.display /\ w.height = l.height
      /\ w.cursor = i
  BY <1>0, <1>1, <1>2, CursorPlaced
<1>5. k = T!UpdateViewport(w)
  BY DEF T!SetCursor
<1> HIDE DEF w, k
<1>6. /\ Placed(k) /\ T!Start(k) = T!Start(w) /\ k.height = w.height
      /\ k.display = w.display /\ k.cursor = w.cursor
  BY <1>4, <1>5, UpdateViewportKeeps, SameWindow DEF Scrolls
<1>7. k.yOff = T!AtMost(w.yOff, T!MaxOffset(w))
  BY <1>4, <1>5 DEF T!UpdateViewport, Placed, ListRecord
<1>8. T!Start(k) + k.yOff <= k.cursor /\ k.cursor < T!Start(k) + k.yOff + k.height
  <2> DEFINE h == l.height
             c == l.cursor
             a == T!Start(l)
             b == T!Start(w)
             e == T!End(w)
             m == T!MaxOffset(w)
             o == l.yOff
             p == k.yOff
  <2>1. h \in Int /\ h > 0 /\ c \in Nat /\ o \in Nat /\ a \in Nat
        /\ a = (IF c < h THEN 0 ELSE c - h)
        /\ a + o <= c /\ c < a + o + h
    <3>1. /\ h \in Int /\ c \in Nat /\ o \in Nat /\ a \in Nat /\ h > 0
          /\ a = (IF h <= 0 THEN c ELSE IF c < h THEN 0 ELSE c - h)
      BY <1>0, <1>1, Shown, Window
    <3>2. a + o <= c /\ c < a + o + h
      BY <1>0, <1>1, WhenInView DEF InView
    <3> HIDE DEF h, c, a, o
    <3> QED BY <3>1, <3>2
  <2>2. /\ b \in Nat /\ e \in Nat /\ m \in Nat /\ i < e
        /\ m = (IF e - b < h THEN 0 ELSE e - b - h)
        /\ b = (IF h <= 0 THEN i ELSE IF i < h THEN 0 ELSE i - h)
    BY <1>1, <1>4, Shown, Window
  <2>3. e <= i + h
    <3>1. Len(l.display) \in Nat
      BY <1>0, Numbers
    <3>2. e = (IF h <= 0 THEN (IF l.display = <<>> THEN 0 ELSE i)
               ELSE IF i + h > Len(l.display) THEN Len(l.display) ELSE i + h)
      BY <1>4, Window
    <3> HIDE DEF h, e
    <3> QED BY <1>1, <2>1, <3>1, <3>2
  <2>4. p = IF o > m THEN m ELSE o
    BY <1>4, <1>7 DEF T!AtMost
  <2>5. i = a + o + y - 1 /\ y - 1 >= 0 /\ y - 1 < h /\ i \in Nat
    BY <1>1 DEF T!Top
  <2>6. b + p <= i /\ i < b + p + h
    <3> HIDE DEF h, c, a, b, e, m, o, p
    <3>1. CASE p = m /\ m < o
      BY <2>1, <2>2, <2>3, <2>5, <3>1
    <3>2. CASE p = o /\ i < h
      BY <2>1, <2>2, <2>3, <2>5, <3>2
    <3>3. CASE p = o /\ i >= h
      <4>1. b = i - h
        BY <2>1, <2>2, <3>3
      <4>2. o <= h /\ o > 0
        BY <2>1, <2>5, <3>3
      <4> QED BY <2>1, <2>5, <3>3, <4>1, <4>2
    <3> QED BY <2>1, <2>2, <2>4, <2>5, <3>1, <3>2, <3>3
  <2> QED BY <1>4, <1>6, <2>6
<1>9. InView(k)
  BY <1>6, <1>8, WhenInView DEF InView
<1> QED BY <1>3, <1>9 DEF k, i

-----------------------------------------------------------------------------
(* The table: every step.                                                  *)

TableInv ==
    /\ Good(list) /\ shifted \in BOOLEAN /\ unpainted \in BOOLEAN
    /\ ~shifted => InView(list)
    /\ ~unpainted => Painted(list)

\* A step that repaints and brings the view along.
LEMMA FollowsKeeps ==
  ASSUME Repainted(list'), InView(list'), T!Follows PROVE TableInv'
BY DEF T!Follows, TableInv, Repainted

LEMMA RepaintsKeeps == ASSUME Repainted(list'), T!Repaints PROVE TableInv'
BY DEF T!Repaints, TableInv, Repainted

LEMMA TableInitInv == T!Init => TableInv
<1> SUFFICES ASSUME T!Init PROVE TableInv
  OBVIOUS
<1>1. PICK h \in Heights :
         list = [all |-> <<>>, display |-> <<>>, cursor |-> 0, yOff |-> 0,
                 height |-> h, marks |-> {}, search |-> None, filter |-> None,
                 sort |-> T!DefaultSort, colored |-> {}, inverse |-> {}]
  BY DEF T!Init
<1>2. list \in ListRecord
  <2>1. <<>> \in Seq(Object) /\ {} \in SUBSET Object /\ {} \in SUBSET Nat /\ h \in Int /\ 0 \in Nat
    OBVIOUS
  <2> QED BY <1>1, <2>1, DefaultSortTyped DEF ListRecord
<1>3. /\ list.all = <<>> /\ list.display = <<>> /\ list.cursor = 0 /\ list.search = None
      /\ list.colored = {} /\ list.inverse = {}
  BY <1>1
<1>4. T!LastRow(list) \in Nat
  <2>1. Len(list.display) = 0
    BY <1>3
  <2> QED BY <2>1 DEF T!LastRow, T!AtLeast
<1>5. Placed(list) /\ Clean(list)
  BY <1>2, <1>3, <1>4 DEF Placed, Clean, T!Objects, T!ToSet, T!Range, T!Listable
<1> QED BY <1>3, <1>5, CleanIsPainted DEF TableInv, Good, InView, T!Init

LEMMA MoveKeysKeep == ASSUME TableInv, T!MoveKeys PROVE TableInv'
<1>1. PICK n \in {1, -1, list.height, -list.height, Len(list.display), -list.cursor} : T!MoveKey(n)
  BY DEF T!MoveKeys
<1>2. n \in Int
  <2>1. list.height \in Int /\ Len(list.display) \in Int /\ list.cursor \in Int
    BY Numbers DEF TableInv, Good
  <2> QED BY <2>1
<1>3. Good(T!Move(list, n)) /\ InView(T!Move(list, n))
  BY <1>2, MoveShows DEF TableInv
<1>4. Repainted(list') /\ InView(list') /\ T!Follows
  BY <1>1, <1>3, ApplyHighlightsPaints DEF T!MoveKey
<1> QED BY <1>4, FollowsKeeps

LEMMA FocusTableKeeps == ASSUME TableInv, T!Focus PROVE TableInv'
<1>1. Scrolls(list', list) /\ InView(list')
  BY EnsureShows DEF TableInv, Good, T!Focus
<1>2. Good(list') /\ (Painted(list) => Painted(list'))
  BY <1>1, ScrolledIsPainted DEF TableInv, Good, Scrolls
<1>3. shifted' = FALSE /\ unpainted' = unpainted
  BY DEF T!Focus
<1>4. unpainted \in BOOLEAN /\ (~unpainted => Painted(list))
  BY DEF TableInv
<1> QED BY <1>1, <1>2, <1>3, <1>4 DEF TableInv

LEMMA ClickKeeps == ASSUME TableInv, NEW y \in Nat, T!Click(y) PROVE TableInv'
<1> DEFINE u == T!EnsureCursorVisible(list)
           i == T!RowAtY(u, y)
           c == T!SetCursor(u, i)
<1>1. Scrolls(u, list) /\ InView(u)
  BY EnsureShows DEF TableInv, Good
<1>2. Good(u) /\ (Painted(list) => Painted(u)) /\ u.cursor = list.cursor
  BY <1>1, ScrolledIsPainted DEF TableInv, Good, Scrolls, Unscrolled
<1>3. list' = IF i < 0 THEN u ELSE T!ApplyHighlights(c)
  BY DEF T!Click, T!Clicked
<1>4. /\ shifted' = (shifted /\ list.height <= 0)
      /\ unpainted' = (unpainted /\ list'.cursor = list.cursor)
  BY DEF T!Click
<1> HIDE DEF u
<1>5. CASE i < 0
  BY <1>1, <1>2, <1>3, <1>4, <1>5 DEF TableInv
<1>6. CASE ~(i < 0)
  <2>1. i \in Int
    <3>1. u.yOff \in Nat /\ T!Start(u) \in Nat
      BY <1>2, Numbers, Window DEF Good
    <3> QED BY <3>1 DEF T!RowAtY
  <2> HIDE DEF i
  <2>2. i >= 0
    BY <1>6, <2>1
  <2>3. Good(c) /\ InView(c)
    BY <1>1, <1>2, <2>2, HitShows DEF i
  <2> HIDE DEF c
  <2>4. Repainted(list') /\ InView(list')
    BY <1>3, <1>6, <2>3, ApplyHighlightsPaints
  <2> QED BY <1>4, <2>4 DEF Repainted, TableInv
<1> QED BY <1>5, <1>6

LEMMA MarkKeeps == ASSUME TableInv, T!Mark PROVE TableInv'
<1> DEFINE u == T!ToggleSelect(list)
           m == T!Move(u, 1)
<1>1. Good(u)
  BY ToggleGood DEF TableInv
<1> HIDE DEF u
<1>2. Good(m) /\ InView(m)
  BY <1>1, MoveShows
<1> HIDE DEF m
<1>3. Repainted(T!ApplyHighlights(m)) /\ InView(T!ApplyHighlights(m))
  BY <1>2, ApplyHighlightsPaints
<1> QED BY <1>3, FollowsKeeps DEF T!Mark, u, m

LEMMA MarkAllKeeps == ASSUME TableInv, T!MarkAll PROVE TableInv'
BY SelectAllGood DEF TableInv, T!MarkAll

LEMMA SearchStepKeeps == ASSUME TableInv, T!SearchStep PROVE TableInv'
<1>1. T!NextHit(list) \in Int /\ T!PrevHit(list) \in Int
  BY HitNumbers DEF TableInv, Good, T!SearchStep
<1>2. Repainted(list')
  BY <1>1, SearchToRepaints DEF TableInv, T!SearchStep
<1>3. list'.search # None
  <2>1. list.search # None
    BY DEF T!SearchStep, T!Hits, T!Matching
  <2>2. ASSUME NEW i \in Int PROVE T!SearchTo(list, i).search = list.search
    <3> DEFINE c == T!SetCursor(list, i)
    <3>1. Good(c) /\ c.search = list.search
      BY SetCursorPlaces DEF TableInv
    <3> HIDE DEF c
    <3>2. T!ApplyHighlights(c).search = c.search
      BY <3>1, ApplyHighlightsPaints DEF Kernel
    <3> QED BY <3>1, <3>2 DEF T!SearchTo, c
  <2> QED BY <1>1, <2>1, <2>2 DEF T!SearchStep
<1>4. InView(list')
  BY <1>2, <1>3 DEF Repainted
<1> QED BY <1>2, <1>4, FollowsKeeps DEF T!SearchStep

LEMMA SearchKeeps ==
  ASSUME TableInv, NEW p \in Pattern \cup {None}, T!Search(p) PROVE TableInv'
BY SearchRepaints, RepaintsKeeps DEF TableInv, Good, T!Search

LEMMA FilterKeeps ==
  ASSUME TableInv, NEW p \in Pattern \cup {None}, T!Filter(p) PROVE TableInv'
BY FilterRepaints, RepaintsKeeps DEF TableInv, Good, T!Filter

LEMMA ClearKeeps == ASSUME TableInv, T!Clear PROVE TableInv'
<1>1. CASE list' = T!ClearSelection(list) /\ unpainted' = TRUE /\ UNCHANGED shifted
  BY <1>1, ClearSelectionGood DEF TableInv
<1>2. None \in Pattern \cup {None}
  OBVIOUS
<1> QED BY <1>1, <1>2, SearchKeeps, FilterKeeps DEF T!Clear

LEMMA ResizeKeeps ==
  ASSUME TableInv, NEW h \in Heights, T!Resize(h) \/ T!ResizeUnfocused(h)
  PROVE  TableInv'
<1> DEFINE u == T!SetSize(list, h)
<1>1. Good(u)
  BY SetSizeGood DEF TableInv
<1> HIDE DEF u
<1>2. Good(T!EnsureCursorVisible(u)) /\ InView(T!EnsureCursorVisible(u))
  BY <1>1, EnsureShows, ScrolledIsPainted DEF Good, Scrolls
<1> QED BY <1>1, <1>2 DEF TableInv, T!Resize, T!ResizeUnfocused, u

LEMMA GoodIsLoose == ASSUME NEW l, Good(l) PROVE Loose(l)
BY DEF Good, Placed, Loose

LEMMA RefreshKeeps ==
  ASSUME TableInv, NEW objects \in Listed, T!Refresh(objects) PROVE TableInv'
<1>1. objects \in SUBSET Object /\ IsFiniteSet(objects) /\ T!Listable(objects) /\ Loose(list)
  BY GoodIsLoose DEF TableInv, T!Refresh
<1>2. Repainted(list')
  BY <1>1, SetObjectsRepaints DEF T!Refresh
<1> QED BY <1>2, RepaintsKeeps DEF T!Refresh

LEMMA GotoKeeps == ASSUME TableInv, NEW objects \in Listed, T!Goto(objects) PROVE TableInv'
<1> DEFINE u == T!SetPlugin(list)
<1>1. Loose(u)
  BY PluginGood, GoodIsLoose DEF TableInv
<1> HIDE DEF u
<1>2. objects \in SUBSET Object /\ IsFiniteSet(objects) /\ T!Listable(objects)
  BY DEF T!Goto
<1>3. Repainted(list')
  BY <1>1, <1>2, SetObjectsRepaints DEF T!Goto, u
<1> QED BY <1>3, RepaintsKeeps DEF T!Goto

LEMMA ReloadKeeps == ASSUME TableInv, T!Reload PROVE TableInv'
<1> DEFINE u == T!ResetForReload(list)
<1>1. Loose(u)
  BY ReloadGood, GoodIsLoose DEF TableInv
<1> HIDE DEF u
<1>2. {} \in SUBSET Object /\ IsFiniteSet({}) /\ T!Listable({})
  BY FS_EmptySet DEF T!Listable
<1>3. Repainted(T!SetObjects(u, {}))
  BY <1>1, <1>2, SetObjectsRepaints
<1> QED BY <1>3, RepaintsKeeps DEF T!Reload, u

\* Another order is another refresh, with the objects that are there.
LEMMA SortRefreshes ==
  ASSUME TableInv, NEW c \in SortColumns
  PROVE  LET k == T!SetSort(list, c)
             o == T!Selected(list)
         IN  /\ Repainted(k)
             /\ o # None /\ (\E i \in T!Rows(k) : NameOf[T!At(k, i)] = NameOf[o])
                => NameOf[T!Selected(k)] = NameOf[o]
<1> DEFINE sort == T!Toggled(list.sort, c)
           l == [list EXCEPT !.sort = sort]
           S == T!Objects(list)
<1>1. list \in ListRecord /\ T!Listable(S)
  BY DEF TableInv, Good, Placed
<1>2. sort \in SortState
  BY <1>1 DEF ListRecord, SortState, T!Toggled
<1> HIDE DEF sort
<1>3. l \in ListRecord /\ l.all = list.all /\ l.display = list.display /\ l.cursor = list.cursor
  BY <1>1, <1>2 DEF ListRecord
<1>4. T!SetSort(list, c) = T!SetObjects(l, S)
  BY DEF T!SetSort, sort
<1> HIDE DEF l
<1>5. Loose(l) /\ T!Selected(l) = T!Selected(list)
  BY <1>1, <1>3 DEF Loose, T!Objects, T!Selected, T!Rows, T!At
<1>6. S \in SUBSET Object /\ IsFiniteSet(S)
  BY <1>1, ObjectsFinite DEF ListRecord, T!Objects
<1> HIDE DEF S
<1> QED BY <1>1, <1>4, <1>5, <1>6, SetObjectsRepaints

LEMMA SortKeeps == ASSUME TableInv, NEW c \in SortColumns, T!Sort(c) PROVE TableInv'
<1>1. Repainted(list')
  BY SortRefreshes DEF T!Sort
<1> QED BY <1>1, RepaintsKeeps DEF T!Sort

\* The steps of a table.
TableSteps ==
    \/ T!MoveKeys \/ T!Focus \/ T!SearchStep \/ T!Mark \/ T!MarkAll \/ T!Clear \/ T!Reload
    \/ \E y \in Nat : T!Click(y)
    \/ \E objects \in Listed : T!Refresh(objects) \/ T!Goto(objects)
    \/ \E c \in SortColumns : T!Sort(c)
    \/ \E p \in Pattern \cup {None} : T!Search(p) \/ T!Filter(p)
    \/ \E h \in Heights : T!Resize(h) \/ T!ResizeUnfocused(h)

LEMMA TableKeepsInv == ASSUME TableInv, [TableSteps]_T!vars PROVE TableInv'
<1>1. CASE UNCHANGED T!vars
  BY <1>1 DEF T!vars, TableInv, Good, Placed, Clean, InView, Painted
<1>2. CASE \E y \in Nat : T!Click(y)
  BY <1>2, ClickKeeps
<1>3. CASE \E objects \in Listed : T!Refresh(objects) \/ T!Goto(objects)
  BY <1>3, RefreshKeeps, GotoKeeps
<1>4. CASE \E c \in SortColumns : T!Sort(c)
  BY <1>4, SortKeeps
<1>5. CASE \E p \in Pattern \cup {None} : T!Search(p) \/ T!Filter(p)
  BY <1>5, SearchKeeps, FilterKeeps
<1>6. CASE \E h \in Heights : T!Resize(h) \/ T!ResizeUnfocused(h)
  BY <1>6, ResizeKeeps
<1>7. CASE T!MoveKeys \/ T!Focus \/ T!SearchStep \/ T!Mark
  BY <1>7, MoveKeysKeep, FocusTableKeeps, SearchStepKeeps, MarkKeeps
<1>8. CASE T!MarkAll \/ T!Clear \/ T!Reload
  BY <1>8, MarkAllKeeps, ClearKeeps, ReloadKeeps
<1> QED BY <1>1, <1>2, <1>3, <1>4, <1>5, <1>6, <1>7, <1>8 DEF TableSteps

LEMMA StepOfTable ==
  ASSUME [PanesNext]_panesVars, part = "table"
  PROVE  [TableSteps]_T!vars /\ part' = part
<1>1. CASE UNCHANGED panesVars
  BY <1>1 DEF panesVars, tableVars, T!vars
<1>2. CASE PanesNext
  <2>1. 0 .. 1 + T!Max(Heights) \subseteq Nat
    OBVIOUS
  <2> QED BY <1>2, <2>1 DEF PanesNext, ShellStep, OverlaysStep, TableStep, DetailTextStep,
              TerminalPaneStep, TableSteps
<1> QED BY <1>1, <1>2

TablePart == part = "table" => TableInv

LEMMA TablePartInv == PanesSpec => []TablePart
<1>1. PanesInit => TablePart
  BY TableInitInv DEF PanesInit, TablePart
<1>2. TablePart /\ [PanesNext]_panesVars => TablePart'
  BY StepOfTable, PartStays, TableKeepsInv DEF TablePart
<1> QED BY <1>1, <1>2, PTL DEF PanesSpec

\* However a key, a click or a refresh moves it, the cursor is on the screen, and the
\* matches on the screen are painted.
THEOREM TableStaysDrawn == PanesSpec => []TableIsDrawn
<1>1. ASSUME TableInv PROVE T!CursorIsOnScreen /\ T!MatchesArePainted
  <2>1. T!CursorIsOnScreen
    BY <1>1 DEF TableInv, InView, T!CursorIsOnScreen
  <2>2. \A i \in T!OnScreen(list) : i \in T!Start(list) .. T!End(list) - 1
    BY DEF T!OnScreen
  <2>3. T!MatchesArePainted
    BY <1>1, <2>2 DEF TableInv, Painted, T!MatchesArePainted
  <2> QED BY <2>1, <2>3
<1>2. TablePart => TableIsDrawn
  BY <1>1 DEF TablePart, TableIsDrawn
<1> QED BY <1>2, TablePartInv, PTL

LEMMA SelectionStays ==
  ASSUME TableInv, TableInv'
  PROVE  T!SelectionStep
<1> SUFFICES ASSUME NEW o \in {T!Selected(list)} \ {None},
                    \E i \in T!Rows(list') : NameOf[T!At(list', i)] = NameOf[o],
                    T!Refresh(T!Objects(list')) \/ T!Sort(list'.sort.column)
             PROVE  NameOf[T!Selected(list')] = NameOf[o]
  BY DEF T!SelectionStep
<1>1. list' \in ListRecord /\ o = T!Selected(list) /\ o # None
  BY DEF TableInv, Good, Placed
<1>2. CASE T!Refresh(T!Objects(list'))
  <2> DEFINE S == T!Objects(list')
  <2>1. S \in SUBSET Object /\ IsFiniteSet(S)
    BY <1>1, ObjectsFinite DEF ListRecord, T!Objects
  <2>2. T!Listable(S) /\ list' = T!SetObjects(list, S)
    BY <1>2 DEF T!Refresh
  <2> HIDE DEF S
  <2>3. Loose(list)
    BY GoodIsLoose DEF TableInv
  <2> QED BY <1>1, <2>1, <2>2, <2>3, SetObjectsRepaints
<1>3. CASE T!Sort(list'.sort.column)
  <2> DEFINE c == list'.sort.column
  <2>1. c \in SortColumns /\ list' = T!SetSort(list, c)
    BY <1>1, <1>3 DEF ListRecord, SortState, T!Sort
  <2> HIDE DEF c
  <2> QED BY <1>1, <2>1, SortRefreshes
<1> QED BY <1>2, <1>3

\* A refresh or another order leaves the selected object selected, wherever it goes
\* among the rows, as long as the filter shows it.
THEOREM SelectionStaysOnItsObject == PanesSpec => SelectionFollows
<1>1. TablePart /\ [PanesNext]_panesVars => TablePart'
  BY StepOfTable, PartStays, TableKeepsInv DEF TablePart
<1>2. TablePart /\ TablePart' /\ [PanesNext]_panesVars => (part = "table" => T!SelectionStep)
  BY PartStays, SelectionStays DEF TablePart
<1> QED BY <1>1, <1>2, TablePartInv, PTL DEF PanesSpec, SelectionFollows
-----------------------------------------------------------------------------
(* The terminal pane.                                                      *)

PaneRecord ==
    [w : Int, h : Int, borderless : BOOLEAN, focused : BOOLEAN, mode : {"typing", "nav"},
     exited : BOOLEAN, scroll : Nat]
EmuRecord ==
    [cols : Int, rows : Int, screen : Seq(Int), back : Seq(Int), x : Nat, y : Nat,
     shown : BOOLEAN]

\* A pane where the layout puts it, bare when it is the zoomed one.
PutWhere(f, z, p) ==
    LET at == E!Place(f, z, p.focused)
    IN  /\ p.w = at.w /\ p.h = IF z /\ p.focused THEN at.h + 1 ELSE at.h
        /\ p.borderless = (z /\ p.focused)

\* A scrollback no shorter than the pane is scrolled, and a prefix that waits with the
\* focus only.
Steady(p, e) ==
    /\ p \in PaneRecord /\ e \in EmuRecord
    /\ p.scroll <= Len(e.back) /\ (p.mode = "nav" => p.focused)

\* An emulator with the grid the pane has room for, and its cursor on it.
FitsIn(p, e) ==
    /\ e.cols = E!innerDims(p).cols /\ e.rows = E!innerDims(p).rows
    /\ Len(e.screen) = e.rows /\ e.x <= e.cols /\ e.y < e.rows

\* The bytes last sent are those of the key, unless none were.
Told ==
    sent.bytes = <<>> \/ (sent.key \in Typed /\ sent.bytes = E!encodeKey(sent.key))

TermInv ==
    /\ frame \in Frames /\ zoomed \in BOOLEAN /\ written \in Nat
    /\ Steady(pane, emu) /\ PutWhere(frame, zoomed, pane) /\ FitsIn(pane, emu)
    /\ Told

LEMMA DimsTyped ==
  ASSUME NEW p \in PaneRecord
  PROVE  E!innerDims(p).cols \in Nat \ {0} /\ E!innerDims(p).rows \in Nat \ {0}
BY DEF PaneRecord, E!innerDims, E!innerSize, E!AtLeast

LEMMA FrameTyped == ASSUME NEW f \in Frames PROVE f.w \in Nat /\ f.h \in Nat
BY TerminalAssumption

\* The emulator is given a grid of the size asked for, whatever it was; its history
\* stays.
LEMMA ResizedFits ==
  ASSUME NEW e \in EmuRecord, NEW d, d.cols \in Nat \ {0}, d.rows \in Nat \ {0}
  PROVE  LET g == E!Resized(e, d)
         IN  /\ g \in EmuRecord /\ g.back = e.back
             /\ g.cols = d.cols /\ g.rows = d.rows
             /\ Len(g.screen) = g.rows /\ g.x <= g.cols /\ g.y < g.rows
<1> DEFINE t == [i \in 1 .. d.rows |-> IF i <= Len(e.screen) THEN e.screen[i] ELSE 0]
           g == E!Resized(e, d)
<1>1. e.screen \in Seq(Int) /\ e.x \in Nat /\ e.y \in Nat /\ e.back \in Seq(Int)
  BY DEF EmuRecord
<1>2. t \in Seq(Int) /\ Len(t) = d.rows
  <2> DEFINE n == d.rows
  <2>1. n \in Nat
    OBVIOUS
  <2> HIDE DEF n
  <2>2. \A i \in 1 .. n : (IF i <= Len(e.screen) THEN e.screen[i] ELSE 0) \in Int
    BY <1>1
  <2>3. [i \in 1 .. n |-> IF i <= Len(e.screen) THEN e.screen[i] ELSE 0] \in Seq(Int)
    BY <2>1, <2>2
  <2> QED BY <2>1, <2>3 DEF n
<1> HIDE DEF t
<1> DEFINE x == E!AtMost(e.x, d.cols)
           y == E!AtMost(e.y, d.rows - 1)
<1>3. g = [e EXCEPT !.cols = d.cols, !.rows = d.rows, !.screen = t, !.x = x, !.y = y]
  BY DEF E!Resized, t
<1>4. x \in Nat /\ y \in Nat /\ x <= d.cols /\ y < d.rows
  BY <1>1 DEF E!AtMost
<1> HIDE DEF x, y, g
<1>5. g = [cols |-> d.cols, rows |-> d.rows, screen |-> t, back |-> e.back, x |-> x, y |-> y,
           shown |-> e.shown] /\ e.shown \in BOOLEAN
  BY <1>3 DEF EmuRecord
<1>6. g \in EmuRecord
  BY <1>1, <1>2, <1>4, <1>5 DEF EmuRecord
<1>7. /\ g.back = e.back /\ g.cols = d.cols /\ g.rows = d.rows /\ g.screen = t
      /\ g.x = x /\ g.y = y
  BY <1>5
<1>8. g.x <= g.cols /\ g.y < g.rows /\ Len(g.screen) = g.rows
  BY <1>2, <1>4, <1>7
<1> QED BY <1>6, <1>7, <1>8 DEF g

\* recalcSizes puts a pane where it belongs, and the emulator follows, whatever their
\* sizes were; nothing else of them changes.
LEMMA RecalculatedFits ==
  ASSUME NEW f \in Frames, NEW z \in BOOLEAN, NEW p, NEW e, Steady(p, e),
         p.borderless = (z /\ p.focused)
  PROVE  LET r == E!Recalculated(f, z, [p |-> p, e |-> e])
         IN  Steady(r.p, r.e) /\ PutWhere(f, z, r.p) /\ FitsIn(r.p, r.e)
<1> DEFINE at == E!Place(f, z, p.focused)
           h == IF z /\ p.focused THEN at.h + 1 ELSE at.h
           q == [p EXCEPT !.w = at.w, !.h = h]
           g == E!Resized(e, E!innerDims(q))
<1>0. p \in PaneRecord /\ f.w \in Nat /\ f.h \in Nat
  BY FrameTyped DEF Steady
<1>1. at.w \in Int /\ h \in Int
  <2> DEFINE half == (f.h - 1) \div 2
  <2>1. half \in Int
    BY <1>0
  <2> HIDE DEF half
  <2>2. /\ at.w = IF z /\ ~p.focused THEN 0 ELSE f.w
        /\ at.h = IF z THEN IF p.focused THEN f.h - 1 ELSE 0 ELSE f.h - 1 - half
    BY DEF E!Place, E!StatusBar, half
  <2>3. at.w \in Int /\ at.h \in Int
    BY <1>0, <2>1, <2>2
  <2> HIDE DEF at
  <2> QED BY <2>3
<1>2. E!Recalculated(f, z, [p |-> p, e |-> e]) = [p |-> q, e |-> g]
  BY DEF E!Recalculated, E!SetSize, E!StatusBar
<1>3. /\ q \in PaneRecord /\ q.w = at.w /\ q.h = h /\ q.borderless = p.borderless
      /\ q.focused = p.focused /\ q.scroll = p.scroll /\ q.mode = p.mode
  <2> DEFINE v == at.w
  <2>1. q = [p EXCEPT !.w = v, !.h = h] /\ v \in Int
    BY <1>1
  <2> HIDE DEF q, v, h
  <2>2. /\ q \in PaneRecord /\ q.w = v /\ q.h = h /\ q.borderless = p.borderless
        /\ q.focused = p.focused /\ q.scroll = p.scroll /\ q.mode = p.mode
    BY <1>0, <1>1, <2>1 DEF PaneRecord
  <2> QED BY <2>2 DEF v
<1> HIDE DEF q
<1>4. PutWhere(f, z, q)
  BY <1>3 DEF PutWhere
<1>5. Steady(q, g) /\ FitsIn(q, g)
  BY <1>3, DimsTyped, ResizedFits DEF Steady, FitsIn
<1> QED BY <1>2, <1>4, <1>5

-----------------------------------------------------------------------------
(* Its steps.                                                              *)

\* A step that leaves sizes and grids alone.
LEMMA SameSizes ==
  ASSUME TermInv, UNCHANGED <<frame, zoomed>>, emu'.cols = emu.cols, emu'.rows = emu.rows,
         Len(emu'.screen) = Len(emu.screen), emu'.x <= emu.cols, emu'.y < emu.rows,
         pane'.w = pane.w, pane'.h = pane.h, pane'.borderless = pane.borderless,
         pane'.focused = pane.focused, Steady(pane', emu'), written' \in Nat, Told'
  PROVE  TermInv'
<1>1. E!innerDims(pane') = E!innerDims(pane)
  BY DEF E!innerDims
<1> QED BY <1>1 DEF TermInv, PutWhere, FitsIn

LEMMA ToShellTells ==
  ASSUME TermInv, NEW k \in Typed, E!ToShell(k) PROVE Told'
BY DEF TermInv, Told, E!ToShell

\* The pane with another mode, scrolled elsewhere.
Turned(m, s) == [pane EXCEPT !.mode = m, !.scroll = s]

\* A step that does no more than scroll, or hear of the prefix.
LEMMA ScrollKeeps ==
  ASSUME TermInv, UNCHANGED <<frame, zoomed, emu, written>>, Told',
         NEW m \in {"typing", "nav"}, NEW s \in Nat, s <= Len(emu.back),
         m = "nav" => pane.focused, pane' = Turned(m, s)
  PROVE  TermInv'
<1>1. Steady(pane, emu) /\ pane \in PaneRecord
  BY DEF TermInv, Steady
<1>2. Steady(pane', emu')
  BY <1>1 DEF Steady, PaneRecord, Turned
<1>3. /\ pane'.w = pane.w /\ pane'.h = pane.h /\ pane'.borderless = pane.borderless
      /\ pane'.focused = pane.focused
  BY <1>1 DEF PaneRecord, Turned
<1> QED BY <1>2, <1>3, SameSizes DEF TermInv, FitsIn

\* Scrolling stays within the history.
LEMMA ShellScrolls ==
  ASSUME Steady(pane, emu), NEW n \in Nat, NEW m \in {"typing", "nav"}, NEW p,
         p = [pane EXCEPT !.mode = m]
  PROVE  \A q \in {E!ScrollUp(p, n), E!ScrollDown(p, n)} :
           \E s \in Nat : q = Turned(m, s) /\ s <= Len(emu.back)
<1> DEFINE top == E!AtMost(pane.scroll + n, Len(emu.back))
           low == E!AtLeast(pane.scroll - n, 0)
<1>1. p.scroll = pane.scroll /\ pane.scroll \in Nat /\ pane.scroll <= Len(emu.back)
  BY DEF Steady, PaneRecord
<1>2. emu.back \in Seq(Int)
  BY DEF Steady, EmuRecord
<1>3. top \in Nat /\ top <= Len(emu.back) /\ low \in Nat /\ low <= Len(emu.back)
  BY <1>1, <1>2 DEF E!AtMost, E!AtLeast
<1>4. /\ E!ScrollUp(p, n) = Turned(m, top)
      /\ E!ScrollDown(p, n) = Turned(m, low)
  BY <1>1 DEF E!ScrollUp, E!ScrollDown, PaneRecord, Turned
<1> HIDE DEF top, low
<1> QED BY <1>3, <1>4

LEMMA SteadyNow ==
  ASSUME TermInv
  PROVE  /\ pane \in PaneRecord /\ emu \in EmuRecord /\ emu.back \in Seq(Int)
         /\ emu.screen \in Seq(Int) /\ Steady(pane, emu) /\ Told
         /\ pane.mode \in {"typing", "nav"} /\ pane.scroll \in Nat
         /\ pane.scroll <= Len(emu.back) /\ (pane.mode = "nav" => pane.focused)
         /\ E!PageLines \in Nat /\ written \in Nat
<1>1. pane \in PaneRecord
  BY DEF TermInv, Steady
<1>2. E!PageLines \in Nat
  BY <1>1, DimsTyped DEF E!PageLines, E!AtLeast
<1> QED BY <1>1, <1>2 DEF TermInv, Steady, PaneRecord, EmuRecord

LEMMA PrefixKeeps == ASSUME TermInv, E!PressPrefix PROVE TermInv'
<1>1. pane' = Turned("nav", pane.scroll) /\ pane.focused
  BY SteadyNow DEF E!PressPrefix, E!Takes, PaneRecord, Turned
<1>2. UNCHANGED <<frame, zoomed, emu, written, sent>> /\ Told'
  BY SteadyNow DEF E!PressPrefix, Told
<1> QED BY <1>1, <1>2, SteadyNow, ScrollKeeps

LEMMA TypeKeeps == ASSUME TermInv, NEW k \in Typed, E!Type(k) PROVE TermInv'
<1>1. pane' = Turned(pane.mode, 0)
  BY SteadyNow DEF E!Type, E!Bottom, PaneRecord, Turned
<1>2. UNCHANGED <<frame, zoomed, emu, written>> /\ Told'
  BY ToShellTells DEF E!Type
<1> QED BY <1>1, <1>2, SteadyNow, ScrollKeeps

LEMMA ShellCommandKeeps == ASSUME TermInv, NEW k \in Typed, E!Command(k) PROVE TermInv'
<1> DEFINE p == [pane EXCEPT !.mode = "typing"]
           n == E!PageLines
<1>1. UNCHANGED <<frame, zoomed, emu, written>>
  BY DEF E!Command
<1>2. Told'
  BY SteadyNow, ToShellTells DEF E!Command, Told
<1>3. pane' = p \/ pane' \in {E!ScrollUp(p, n), E!ScrollDown(p, n)}
  BY DEF E!Command
<1>4. p = Turned("typing", pane.scroll)
  BY SteadyNow DEF PaneRecord, Turned
<1>5. \A q \in {E!ScrollUp(p, n), E!ScrollDown(p, n)} :
        \E s \in Nat : q = Turned("typing", s) /\ s <= Len(emu.back)
  BY SteadyNow, ShellScrolls
<1> HIDE DEF p, n
<1>6. \E s \in Nat : pane' = Turned("typing", s) /\ s <= Len(emu.back)
  BY <1>3, <1>4, <1>5, SteadyNow
<1> QED BY <1>1, <1>2, <1>6, ScrollKeeps

LEMMA WheelKeeps ==
  ASSUME TermInv, NEW up \in BOOLEAN, E!Wheel(up) \/ E!Page(up) PROVE TermInv'
<1>1. UNCHANGED <<frame, zoomed, emu, written, sent>> /\ Told'
  BY SteadyNow DEF E!Wheel, E!Page, Told
<1>2. PICK n \in Nat : pane' \in {E!ScrollUp(pane, n), E!ScrollDown(pane, n)}
  BY SteadyNow DEF E!Wheel, E!Page, E!WheelLines
<1>3. pane = [pane EXCEPT !.mode = pane.mode]
  BY SteadyNow DEF PaneRecord
<1>4. \E s \in Nat : pane' = Turned(pane.mode, s) /\ s <= Len(emu.back)
  BY <1>2, <1>3, SteadyNow, ShellScrolls
<1> QED BY <1>1, <1>4, SteadyNow, ScrollKeeps

LEMMA ExitKeeps == ASSUME TermInv, E!Exit PROVE TermInv'
<1>1. UNCHANGED <<frame, zoomed, emu, written, sent>> /\ pane' = [pane EXCEPT !.exited = TRUE]
  BY DEF E!Exit
<1>2. Steady(pane', emu') /\ Told'
  BY <1>1, SteadyNow DEF Steady, PaneRecord, Told
<1>3. /\ pane'.w = pane.w /\ pane'.h = pane.h /\ pane'.borderless = pane.borderless
      /\ pane'.focused = pane.focused
  BY <1>1, SteadyNow DEF PaneRecord
<1> QED BY <1>1, <1>2, <1>3, SteadyNow, SameSizes DEF TermInv, FitsIn

\* Whatever is written, the view is the live screen, and no history is needed.
LEMMA WriteKeeps ==
  ASSUME TermInv, NEW e \in EmuRecord, e.cols = emu.cols, e.rows = emu.rows,
         Len(e.screen) = Len(emu.screen), e.x <= emu.cols, e.y < emu.rows,
         E!Write(e), written' \in Nat
  PROVE  TermInv'
<1>1. UNCHANGED <<frame, zoomed, sent>> /\ pane' = [pane EXCEPT !.scroll = 0] /\ emu' = e
  BY DEF E!Write, E!Bottom
<1>2. e.back \in Seq(Int)
  BY DEF EmuRecord
<1>3. Told'
  BY <1>1, SteadyNow DEF Told
<1>4. /\ pane'.w = pane.w /\ pane'.h = pane.h /\ pane'.borderless = pane.borderless
      /\ pane'.focused = pane.focused /\ pane'.mode = pane.mode /\ pane'.scroll = 0
      /\ pane' \in PaneRecord
  BY <1>1, SteadyNow DEF PaneRecord
<1>5. Steady(pane', emu')
  BY <1>1, <1>2, <1>4, SteadyNow DEF Steady
<1> QED BY <1>1, <1>3, <1>4, <1>5, SameSizes

LEMMA GridNow ==
  ASSUME TermInv
  PROVE  /\ emu.cols \in Nat \ {0} /\ emu.rows \in Nat \ {0}
         /\ Len(emu.screen) = emu.rows /\ emu.x \in Nat /\ emu.y \in Nat
         /\ emu.x <= emu.cols /\ emu.y < emu.rows
BY SteadyNow, DimsTyped DEF TermInv, FitsIn, EmuRecord

LEMMA WriteLineKeeps == ASSUME TermInv, E!WriteLine PROVE TermInv'
<1> DEFINE back == E!Kept(Append(emu.back, emu.screen[1]))
           screen == Append(Tail(emu.screen), written + 1)
           e == [emu EXCEPT !.back = back, !.screen = screen]
<1>1. emu.screen # <<>> /\ emu.screen[1] \in Int
  BY GridNow, SteadyNow
<1>2. back \in Seq(Int)
  <2> DEFINE first == emu.screen[1]
             s == Append(emu.back, first)
  <2>0. emu.back \in Seq(Int) /\ first \in Int
    BY <1>1, SteadyNow
  <2> HIDE DEF first
  <2>1. s \in Seq(Int) /\ Len(s) = Len(emu.back) + 1
    BY <2>0
  <2> HIDE DEF s
  <2>2. Tail(s) \in Seq(Int)
    BY <2>0, <2>1
  <2>3. E!Kept(s) \in {s, Tail(s)}
    BY DEF E!Kept
  <2> QED BY <2>1, <2>2, <2>3 DEF s, first
<1>3. screen \in Seq(Int) /\ Len(screen) = Len(emu.screen)
  BY <1>1, SteadyNow
<1> HIDE DEF back, screen
<1>4. /\ e \in EmuRecord /\ e.cols = emu.cols /\ e.rows = emu.rows /\ e.screen = screen
      /\ e.x = emu.x /\ e.y = emu.y
  BY <1>2, <1>3, SteadyNow DEF EmuRecord
<1>5. E!Write(e) /\ written' = written + 1
  BY DEF E!WriteLine, back, screen
<1> HIDE DEF e
<1>6. Len(e.screen) = Len(emu.screen) /\ written' \in Nat /\ e.x <= emu.cols /\ e.y < emu.rows
  BY <1>3, <1>4, <1>5, GridNow, SteadyNow
<1> QED BY <1>4, <1>5, <1>6, WriteKeeps

LEMMA ClearHistoryKeeps == ASSUME TermInv, E!ClearHistory PROVE TermInv'
<1> DEFINE e == [emu EXCEPT !.back = <<>>]
<1>1. E!Write(e) /\ written' = written
  BY DEF E!ClearHistory
<1>2. <<>> \in Seq(Int)
  OBVIOUS
<1>3. /\ e \in EmuRecord /\ e.cols = emu.cols /\ e.rows = emu.rows
      /\ e.screen = emu.screen /\ e.x = emu.x /\ e.y = emu.y
  BY <1>2, SteadyNow DEF EmuRecord
<1> HIDE DEF e
<1> QED BY <1>1, <1>3, GridNow, SteadyNow, WriteKeeps

LEMMA MoveCursorKeeps == ASSUME TermInv, E!MoveCursor PROVE TermInv'
<1>1. PICK x \in {0, emu.x, emu.cols}, y \in {0, emu.y, emu.rows - 1}, b \in BOOLEAN :
        E!Write([emu EXCEPT !.x = x, !.y = y, !.shown = b])
  <2>1. [emu EXCEPT !.shown = FALSE] = [emu EXCEPT !.x = emu.x, !.y = emu.y, !.shown = FALSE]
    BY SteadyNow DEF EmuRecord
  <2> QED BY <2>1 DEF E!MoveCursor
<1>2. x \in Nat /\ y \in Nat /\ x <= emu.cols /\ y < emu.rows
  BY GridNow
<1> DEFINE e == [emu EXCEPT !.x = x, !.y = y, !.shown = b]
<1>3. /\ e \in EmuRecord /\ e.cols = emu.cols /\ e.rows = emu.rows
      /\ e.screen = emu.screen /\ e.x = x /\ e.y = y
  BY <1>2, SteadyNow DEF EmuRecord
<1>4. E!Write(e) /\ written' = written
  BY <1>1 DEF E!MoveCursor
<1> HIDE DEF e
<1> QED BY <1>2, <1>3, <1>4, SteadyNow, WriteKeeps

-----------------------------------------------------------------------------
(* Its sizes.                                                              *)

LEMMA BareSteady ==
  ASSUME NEW p, NEW e, Steady(p, e), NEW b \in BOOLEAN
  PROVE  LET r == E!SetBorderless(b, p, e)
         IN  r = [p |-> r.p, e |-> r.e] /\ Steady(r.p, r.e) /\ r.p.borderless = b
             /\ r.p.focused = p.focused
<1> DEFINE q == [p EXCEPT !.borderless = b]
           g == E!Resized(e, E!innerDims(q))
<1>1. E!SetBorderless(b, p, e) = [p |-> q, e |-> g]
  BY DEF E!SetBorderless
<1>2. /\ q \in PaneRecord /\ q.borderless = b /\ q.focused = p.focused
      /\ q.scroll = p.scroll /\ q.mode = p.mode
  BY DEF Steady, PaneRecord
<1> HIDE DEF q
<1>3. Steady(q, g)
  BY <1>2, DimsTyped, ResizedFits DEF Steady
<1> QED BY <1>1, <1>2, <1>3

\* What recalcSizes leaves keeps the invariant.
LEMMA RecalculatedKeeps ==
  ASSUME frame' \in Frames, zoomed' \in BOOLEAN, written' \in Nat, Told',
         NEW p, NEW e, Steady(p, e), p.borderless = (zoomed' /\ p.focused),
         E!Becomes(E!Recalculated(frame', zoomed', [p |-> p, e |-> e]))
  PROVE  TermInv'
BY RecalculatedFits DEF TermInv, E!Becomes

LEMMA WindowSizeKeeps == ASSUME TermInv, NEW f \in Frames, E!WindowSize(f) PROVE TermInv'
<1>1. /\ frame' \in Frames /\ zoomed' \in BOOLEAN /\ written' \in Nat /\ Told'
      /\ pane.borderless = (zoomed' /\ pane.focused)
      /\ E!Becomes(E!Recalculated(frame', zoomed', [p |-> pane, e |-> emu]))
  BY DEF TermInv, E!WindowSize, Told, PutWhere
<1> QED BY <1>1, SteadyNow, RecalculatedKeeps

LEMMA PaneZoomKeeps == ASSUME TermInv, E!Zoom PROVE TermInv'
<1> DEFINE r == IF pane.focused THEN E!SetBorderless(zoomed', pane, emu) ELSE [p |-> pane, e |-> emu]
<1>1. frame' \in Frames /\ zoomed' \in BOOLEAN /\ written' \in Nat /\ Told'
  BY DEF TermInv, E!Zoom, Told
<1>2. pane.borderless = (zoomed /\ pane.focused)
  BY DEF TermInv, PutWhere
<1>3. /\ r = [p |-> r.p, e |-> r.e] /\ Steady(r.p, r.e)
      /\ r.p.borderless = (zoomed' /\ r.p.focused)
  <2>1. CASE pane.focused
    <3>1. r = E!SetBorderless(zoomed', pane, emu)
      BY <2>1
    <3> HIDE DEF r
    <3>2. /\ r = [p |-> r.p, e |-> r.e] /\ Steady(r.p, r.e)
          /\ r.p.borderless = zoomed' /\ r.p.focused = pane.focused
      BY <1>1, <3>1, SteadyNow, BareSteady
    <3>3. pane.focused = TRUE
      BY <2>1, SteadyNow DEF PaneRecord
    <3>4. r.p.borderless = (zoomed' /\ r.p.focused)
      BY <1>1, <3>2, <3>3
    <3> QED BY <3>2, <3>4
  <2>2. CASE ~pane.focused
    <3>1. r = [p |-> pane, e |-> emu]
      BY <2>2
    <3> HIDE DEF r
    <3>2. r.p = pane /\ r.e = emu
      BY <3>1
    <3>3. pane.borderless = FALSE /\ pane.focused = FALSE
      BY <1>2, <2>2, SteadyNow DEF PaneRecord
    <3>4. r.p.borderless = (zoomed' /\ r.p.focused)
      BY <3>2, <3>3
    <3>5. r = [p |-> r.p, e |-> r.e]
      BY <3>1
    <3> QED BY <3>2, <3>4, <3>5, SteadyNow
  <2> QED BY <2>1, <2>2
<1>4. E!Becomes(E!Recalculated(frame', zoomed', r))
  BY DEF E!Zoom
<1> HIDE DEF r
<1> QED BY <1>1, <1>3, <1>4, RecalculatedKeeps

LEMMA MoveFocusKeeps == ASSUME TermInv, E!MoveFocus PROVE TermInv'
<1> DEFINE p == IF pane.focused THEN E!Blurred(pane) ELSE E!Focused(pane)
           r == IF zoomed THEN E!SetBorderless(p.focused, p, emu) ELSE [p |-> p, e |-> emu]
<1>1. /\ frame' \in Frames /\ zoomed' \in BOOLEAN /\ written' \in Nat /\ Told'
      /\ UNCHANGED zoomed
  BY DEF TermInv, E!MoveFocus, Told
<1>2. pane.borderless = (zoomed /\ pane.focused)
  BY DEF TermInv, PutWhere
<1>3. Steady(p, emu) /\ p.focused \in BOOLEAN /\ p.borderless = pane.borderless
  BY SteadyNow DEF Steady, PaneRecord, E!Blurred, E!Focused
<1>4. E!Becomes(E!Recalculated(frame', zoomed', r))
  BY <1>1 DEF E!MoveFocus
<1> HIDE DEF p
<1>5. /\ r = [p |-> r.p, e |-> r.e] /\ Steady(r.p, r.e)
      /\ r.p.borderless = (zoomed' /\ r.p.focused)
  BY <1>1, <1>2, <1>3, BareSteady
<1> HIDE DEF r
<1> QED BY <1>1, <1>4, <1>5, RecalculatedKeeps

-----------------------------------------------------------------------------
(* What it shows.                                                          *)

\* The viewport is as many lines of the history and the screen as there are rows, the
\* last of them as far back as the pane is scrolled.
LEMMA ViewportIsPart ==
  ASSUME TermInv
  PROVE  E!RenderViewport(pane.scroll)
           = LET all == emu.back \o emu.screen
             IN  SubSeq(all, Len(emu.back) - pane.scroll + 1, Len(emu.back) - pane.scroll + emu.rows)
<1> DEFINE s == emu.back
           t == emu.screen
           back == Len(s)
           n == emu.rows
           a == back - pane.scroll
           f == [i \in 1 .. n |-> IF a + i <= back THEN s[a + i] ELSE t[a + i - back]]
<1>1. s \in Seq(Int) /\ t \in Seq(Int) /\ Len(t) = n
  BY SteadyNow, GridNow
<1>2. n \in Nat \ {0} /\ back \in Nat /\ a \in Nat /\ pane.scroll \in Nat /\ a <= back
  BY SteadyNow, GridNow
<1>3. f = SubSeq(s \o t, a + 1, a + n)
  <2>1. \A i \in 1 .. n : f[i] = IF a + i <= Len(s) THEN s[a + i] ELSE t[a + i - Len(s)]
    OBVIOUS
  <2>2. f = [i \in 1 .. n |-> f[i]]
    OBVIOUS
  <2> HIDE DEF s, t, n, a, f
  <2>3. n \in Nat /\ n = Len(t) /\ a <= Len(s)
    BY <1>1, <1>2
  <2> DEFINE view == SubSeq(s \o t, a + 1, a + n)
  <2>4. view \in Seq(Int) /\ Len(view) = n
    BY <1>1, <1>2, <2>3, JoinedTyped
  <2>5. ASSUME NEW i \in 1 .. n PROVE view[i] = f[i]
    <3>1. SubSeq(s \o t, a + 1, a + n)[i] = IF a + i <= Len(s) THEN s[a + i] ELSE t[a + i - Len(s)]
      BY <1>1, <1>2, <2>3, JoinedPart
    <3> QED BY <2>1, <3>1
  <2> HIDE DEF view
  <2>6. \A i \in 1 .. n : f[i] \in Int
    BY <2>3, <2>4, <2>5
  <2>7. f \in Seq(Int) /\ Len(f) = n
    BY <2>2, <2>3, <2>6, Counted
  <2>8. f = view
    BY <2>4, <2>5, <2>7, SameLines
  <2> QED BY <2>8 DEF view
<1>4. E!RenderViewport(pane.scroll) = f
  <2>1. CASE pane.scroll <= 0 \/ s = <<>>
    <3>1. pane.scroll = 0
      BY <1>2, <2>1, SteadyNow
    <3>2. E!RenderViewport(pane.scroll) = t
      BY <2>1 DEF E!RenderViewport
    <3>3. a = back
      BY <1>2, <3>1
    <3> HIDE DEF a, n, t, s
    <3>4. \A i \in 1 .. n : ~(a + i <= back) /\ a + i - back = i
      BY <1>2, <3>3
    <3>5. f = [i \in 1 .. n |-> t[i]]
      BY <3>4
    <3>6. t = [i \in 1 .. n |-> t[i]]
      BY <1>1
    <3> QED BY <3>2, <3>5, <3>6
  <2>2. CASE ~(pane.scroll <= 0 \/ s = <<>>)
    <3> DEFINE end == back + Len(t) - E!AtMost(pane.scroll, back)
               start == E!AtLeast(end - n, 0)
    <3>1. E!AtMost(pane.scroll, back) = pane.scroll
      BY <1>2, SteadyNow DEF E!AtMost
    <3>2. end - n = a /\ a >= 0
      BY <1>1, <1>2, <3>1
    <3>3. start = a /\ end - a = n
      BY <1>1, <1>2, <3>1, <3>2 DEF E!AtLeast
    <3>4. E!RenderViewport(pane.scroll)
            = [i \in 1 .. (end - start) |->
                 IF start + i <= back THEN s[start + i] ELSE t[start + i - back]]
      BY <2>2 DEF E!RenderViewport
    <3> HIDE DEF end, start
    <3> QED BY <3>3, <3>4
  <2> QED BY <2>1, <2>2
<1> QED BY <1>3, <1>4

LEMMA ViewShown == ASSUME TermInv PROVE E!ViewIsWhereTitleSays
<1> DEFINE all == emu.back \o emu.screen
           last == Len(all) - pane.scroll
<1>1. E!AtLeast(pane.scroll, 0) = pane.scroll
  BY SteadyNow DEF E!AtLeast
<1>2. E!Title.scrolled = pane.scroll
  BY <1>1 DEF E!Title
<1>3. E!innerDims(pane).rows = emu.rows
  BY DEF TermInv, FitsIn
<1>4. Len(all) = Len(emu.back) + emu.rows
  <2>1. emu.back \in Seq(Int) /\ emu.screen \in Seq(Int) /\ Len(emu.screen) = emu.rows
    BY SteadyNow, GridNow
  <2> QED BY <2>1, JoinedLen
<1>5. /\ last - emu.rows + 1 = Len(emu.back) - pane.scroll + 1
      /\ last = Len(emu.back) - pane.scroll + emu.rows
  <2> HIDE DEF all
  <2>1. Len(emu.back) \in Nat /\ emu.rows \in Nat /\ pane.scroll \in Nat
    BY SteadyNow, GridNow
  <2> QED BY <1>4, <2>1
<1>6. E!RenderViewport(pane.scroll) = SubSeq(all, last - emu.rows + 1, last)
  BY <1>5, ViewportIsPart
<1> HIDE DEF all, last
<1>7. E!Drawn = IF pane.exited THEN [SubSeq(all, last - emu.rows + 1, last) EXCEPT ![1] = E!Banner]
                ELSE SubSeq(all, last - emu.rows + 1, last)
  BY <1>6 DEF E!Drawn
<1> QED BY <1>2, <1>3, <1>7, SteadyNow DEF E!ViewIsWhereTitleSays, all, last

\* The pane's place leaves the cursor its cell.
LEMMA CursorShown == ASSUME TermInv PROVE E!CursorIsOnItsCell
<1> SUFFICES ASSUME NEW c \in E!terminalCursor
             PROVE  LET top == E!Place(frame, zoomed, TRUE).y + 1
                        left == IF zoomed THEN 0 ELSE 1
                    IN  /\ c.y = top + emu.y
                        /\ c.x = left + E!AtMost(emu.x, E!innerDims(pane).cols - 1)
                        /\ c.y < (IF zoomed THEN frame.h ELSE E!Body)
                        /\ c.x < frame.w
  BY DEF E!CursorIsOnItsCell
<1> DEFINE r == E!Place(frame, zoomed, TRUE)
           d == E!ContentOffset(pane)
           cols == emu.cols
           rows == emu.rows
<1>1. /\ pane.focused = TRUE /\ d.x < r.w /\ d.y < r.h
      /\ c = [x |-> d.x + E!AtMost(emu.x, E!AtMost(cols, r.w - d.x) - 1),
              y |-> r.y + d.y + E!AtMost(emu.y, rows - 1)]
  <2>1. E!innerDims(pane).cols = cols /\ E!innerDims(pane).rows = rows
    BY DEF TermInv, FitsIn
  <2>2. /\ ~(~E!CursorVisible \/ r.w <= d.x \/ r.h <= d.y)
        /\ c = [x |-> d.x + E!AtMost(emu.x, E!AtMost(E!innerDims(pane).cols, r.w - d.x) - 1),
                y |-> r.y + d.y + E!AtMost(emu.y, E!innerDims(pane).rows - 1)]
    BY DEF E!terminalCursor
  <2>3. pane.focused = TRUE
    BY <2>2, SteadyNow DEF E!CursorVisible, PaneRecord
  <2>4. d.x \in Int /\ d.y \in Int /\ r.w \in Int /\ r.h \in Int
    BY FrameTyped DEF E!ContentOffset, E!Place, E!StatusBar, TermInv
  <2> HIDE DEF r, d, cols, rows
  <2> QED BY <2>1, <2>2, <2>3, <2>4
<1>2. frame.w \in Nat /\ frame.h \in Nat /\ zoomed \in BOOLEAN
  BY FrameTyped DEF TermInv
<1>3. pane.borderless = zoomed /\ pane.w = r.w /\ pane.h = IF zoomed THEN r.h + 1 ELSE r.h
  BY <1>1, <1>2 DEF TermInv, PutWhere
<1>4. /\ cols = E!innerDims(pane).cols /\ rows = E!innerDims(pane).rows
      /\ cols \in Nat \ {0} /\ rows \in Nat \ {0} /\ emu.x \in Nat /\ emu.y \in Nat /\ emu.y < rows
  BY GridNow DEF TermInv, FitsIn
<1>5. d.y = 1 /\ d.x = (IF zoomed THEN 0 ELSE 1) /\ r.w = frame.w
  BY <1>3 DEF E!ContentOffset, E!Place
<1>6. /\ r.y \in Int /\ r.h \in Int
      /\ r.y + r.h = E!Body
      /\ E!Body = frame.h - 1
      /\ zoomed => r.y = 0
  <2> DEFINE half == (frame.h - 1) \div 2
  <2>1. half \in Int
    BY <1>2
  <2> HIDE DEF half
  <2>2. r.y = (IF zoomed THEN 0 ELSE half) /\ r.h = frame.h - 1 - (IF zoomed THEN 0 ELSE half)
    BY <1>2 DEF E!Place, E!StatusBar, half
  <2> HIDE DEF r
  <2> QED BY <1>2, <2>1, <2>2 DEF E!Body, E!StatusBar
<1>7. /\ zoomed => cols = E!AtLeast(r.w, 1) /\ rows = E!AtLeast(r.h, 1)
      /\ ~zoomed => cols = E!AtLeast(r.w - 2, 1) /\ rows = E!AtLeast(r.h - 2, 1)
  <2> HIDE DEF r, d, cols, rows
  <2>1. r.h + 1 - 1 = r.h
    BY <1>6
  <2>2. CASE zoomed
    <3>a. zoomed = TRUE
      BY <1>2, <2>2
    <3>b. pane.borderless = TRUE /\ pane.w = r.w /\ pane.h = r.h + 1
      BY <1>3, <3>a
    <3>0. pane.borderless = TRUE /\ pane.w = r.w /\ pane.h - 1 = r.h
      BY <1>6, <3>b
    <3>1. E!innerDims(pane) = [cols |-> E!AtLeast(pane.w, 1), rows |-> E!AtLeast(pane.h - 1, 1)]
      BY <3>0 DEF E!innerDims
    <3>2. cols = E!AtLeast(pane.w, 1) /\ rows = E!AtLeast(pane.h - 1, 1)
      BY <1>4, <3>1
    <3> QED BY <2>2, <3>0, <3>2
  <2>3. CASE ~zoomed
    <3>1. E!innerDims(pane) = [cols |-> E!AtLeast(r.w - 2, 1), rows |-> E!AtLeast(r.h - 2, 1)]
      BY <1>3, <2>3 DEF E!innerDims, E!innerSize
    <3> QED BY <1>4, <2>3, <3>1
  <2> QED BY <2>2, <2>3
<1> HIDE DEF r, d, cols, rows
<1>8. E!AtMost(cols, r.w - d.x) = cols /\ cols <= r.w - d.x
  BY <1>1, <1>2, <1>4, <1>5, <1>7 DEF E!AtMost, E!AtLeast
<1>9. E!AtMost(emu.y, rows - 1) = emu.y
  BY <1>4 DEF E!AtMost
<1>10. E!AtMost(emu.x, cols - 1) \in 0 .. cols - 1
  BY <1>4 DEF E!AtMost
<1>11. c.x = d.x + E!AtMost(emu.x, cols - 1) /\ c.y = r.y + 1 + emu.y
  BY <1>1, <1>5, <1>8, <1>9
<1>12. c.x < frame.w
  BY <1>2, <1>4, <1>5, <1>8, <1>10, <1>11
<1>13. c.y < (IF zoomed THEN frame.h ELSE E!Body)
  BY <1>1, <1>2, <1>4, <1>5, <1>6, <1>7, <1>11 DEF E!AtLeast
<1>14. c.y = r.y + 1 + emu.y /\ c.x = (IF zoomed THEN 0 ELSE 1) + E!AtMost(emu.x, E!innerDims(pane).cols - 1)
  BY <1>4, <1>5, <1>11
<1> QED BY <1>12, <1>13, <1>14 DEF r

-----------------------------------------------------------------------------
(* Together.                                                               *)

TermSteps ==
    \/ E!PressPrefix \/ E!MoveFocus \/ E!Zoom \/ E!WriteLine \/ E!ClearHistory
    \/ E!MoveCursor \/ E!Exit
    \/ \E k \in Typed : E!Type(k) \/ E!Command(k)
    \/ \E up \in BOOLEAN : E!Wheel(up) \/ E!Page(up)
    \/ \E f \in Frames : E!WindowSize(f)

LEMMA TermKeepsInv == ASSUME TermInv, [TermSteps]_terminalVars PROVE TermInv'
<1>1. CASE UNCHANGED terminalVars
  <2>1. UNCHANGED <<frame, zoomed, pane, emu, written, sent>>
    BY <1>1 DEF terminalVars
  <2>2. Told'
    BY <2>1, SteadyNow DEF Told
  <2> QED BY <2>1, <2>2, SteadyNow, GridNow, SameSizes
<1>2. CASE E!PressPrefix \/ E!MoveFocus \/ E!Zoom
  BY <1>2, PrefixKeeps, MoveFocusKeeps, PaneZoomKeeps
<1>3. CASE E!WriteLine \/ E!ClearHistory \/ E!MoveCursor \/ E!Exit
  BY <1>3, WriteLineKeeps, ClearHistoryKeeps, MoveCursorKeeps, ExitKeeps
<1>4. CASE \E k \in Typed : E!Type(k) \/ E!Command(k)
  BY <1>4, TypeKeeps, ShellCommandKeeps
<1>5. CASE \E up \in BOOLEAN : E!Wheel(up) \/ E!Page(up)
  BY <1>5, WheelKeeps
<1>6. CASE \E f \in Frames : E!WindowSize(f)
  BY <1>6, WindowSizeKeeps
<1> QED BY <1>1, <1>2, <1>3, <1>4, <1>5, <1>6 DEF TermSteps

\* The bytes change when what the key means does.
LEMMA KeyTells == ASSUME TermInv, [TermSteps]_terminalVars PROVE E!KeyStep
<1>1. CASE UNCHANGED sent
  BY <1>1 DEF E!KeyStep
<1>2. CASE \E k \in Typed : E!ToShell(k) /\ sent' # sent
  <2>1. PICK k \in Typed : E!ToShell(k) /\ sent' # sent
    BY <1>2
  <2>2. E!encodeKey(k) # <<>> /\ sent' = [key |-> k, bytes |-> E!encodeKey(k)]
    BY <2>1 DEF E!ToShell
  <2>3. sent'.key = k /\ sent'.bytes = E!encodeKey(k)
    BY <2>2
  <2>4. CASE sent.bytes = <<>>
    BY <2>2, <2>3, <2>4 DEF E!KeyStep
  <2>5. CASE sent.key \in Typed /\ sent.bytes = E!encodeKey(sent.key)
    <3>1. KeyTyped(sent.key) /\ KeyTyped(k)
      BY <2>5, TerminalAssumption DEF KeyTyped, KeyRecord
    <3>2. E!encodeKey(sent.key) = E!encodeKey(k) => E!Meant(sent.key) = E!Meant(k)
      BY <2>2, <3>1, KeysDiffer
    <3> QED BY <2>3, <2>5, <3>2 DEF E!KeyStep
  <2> QED BY <2>4, <2>5, SteadyNow DEF Told
<1>3. UNCHANGED sent \/ \E k \in Typed : E!ToShell(k)
  <2>1. CASE UNCHANGED terminalVars
    BY <2>1 DEF terminalVars
  <2>2. CASE E!PressPrefix \/ E!MoveFocus \/ E!Zoom
    BY <2>2 DEF E!PressPrefix, E!MoveFocus, E!Zoom
  <2>3. CASE E!WriteLine \/ E!ClearHistory \/ E!MoveCursor \/ E!Exit
    BY <2>3 DEF E!WriteLine, E!ClearHistory, E!MoveCursor, E!Exit, E!Write
  <2>4. CASE \E k \in Typed : E!Type(k) \/ E!Command(k)
    BY <2>4 DEF E!Type, E!Command
  <2>5. CASE \E up \in BOOLEAN : E!Wheel(up) \/ E!Page(up)
    BY <2>5 DEF E!Wheel, E!Page
  <2>6. CASE \E f \in Frames : E!WindowSize(f)
    BY <2>6 DEF E!WindowSize
  <2> QED BY <2>1, <2>2, <2>3, <2>4, <2>5, <2>6 DEF TermSteps
<1> QED BY <1>1, <1>2, <1>3

\* A pane just inserted has its first size, and its shell has printed nothing.
LEMMA TermInitInv == ASSUME E!Init PROVE TermInv
<1>1. /\ frame \in Frames /\ zoomed = FALSE /\ written = 0
      /\ sent = [key |-> Prefix, bytes |-> <<>>]
      /\ LET r == E!Recalculated(frame, FALSE, [p |-> E!Started, e |-> E!Blank])
         IN  pane = r.p /\ emu = r.e
  BY DEF E!Init
<1>2. << 0 >> \in Seq(Int) /\ <<>> \in Seq(Int) /\ Len(<<>>) = 0
  OBVIOUS
<1>3. E!Started \in PaneRecord /\ E!Blank \in EmuRecord
  BY <1>2 DEF E!Started, E!Blank, PaneRecord, EmuRecord
<1>4. /\ E!Started.scroll = 0 /\ E!Started.mode = "typing" /\ E!Blank.back = <<>>
      /\ E!Started.borderless = (FALSE /\ E!Started.focused)
  BY DEF E!Started, E!Blank
<1>5. Steady(E!Started, E!Blank)
  BY <1>2, <1>3, <1>4 DEF Steady
<1>6. Steady(pane, emu) /\ PutWhere(frame, FALSE, pane) /\ FitsIn(pane, emu)
  BY <1>1, <1>4, <1>5, RecalculatedFits
<1> QED BY <1>1, <1>6 DEF TermInv, Told

LEMMA StepOfTerminal ==
  ASSUME [PanesNext]_panesVars, part = "terminal"
  PROVE  [TermSteps]_terminalVars /\ part' = part
<1>1. CASE UNCHANGED panesVars
  BY <1>1, ZenonT(40) DEF panesVars
<1>2. CASE PanesNext
  BY <1>2 DEF PanesNext, ShellStep, OverlaysStep, TableStep, DetailTextStep, TerminalPaneStep,
              TermSteps
<1> QED BY <1>1, <1>2

TermPart == part = "terminal" => TermInv

LEMMA TermPartInv == PanesSpec => []TermPart
<1>1. PanesInit => TermPart
  BY TermInitInv DEF PanesInit, TermPart
<1>2. TermPart /\ [PanesNext]_panesVars => TermPart'
  BY StepOfTerminal, PartStays, TermKeepsInv DEF TermPart
<1> QED BY <1>1, <1>2, PTL DEF PanesSpec

\* Whatever is written, scrolled, resized, zoomed or typed, a terminal pane shows the
\* lines its title says and the cursor on its cell, and its prefix ends with the focus;
\* and two keys are sent as the same bytes only if they have the same name, control code
\* or character, both with alt or both without.
THEOREM TerminalStaysTrue == PanesSpec => TerminalIsTrue
<1>1. TermPart => (part = "terminal" => E!ScreenIsTrue /\ E!PrefixEndsWithFocus)
  BY ViewShown, CursorShown, SteadyNow DEF TermPart, E!ScreenIsTrue, E!PrefixEndsWithFocus
<1>2. TermPart /\ [PanesNext]_panesVars => (part = "terminal" => E!KeyStep)
  BY StepOfTerminal, KeyTells DEF TermPart
<1> QED BY <1>1, <1>2, TermPartInv, PTL DEF PanesSpec, TerminalIsTrue
=============================================================================
