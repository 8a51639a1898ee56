--------------------------- MODULE LogView_proofs ---------------------------
(***************************************************************************)
(* Proofs about the ring buffer, for any capacity and any lines, and about *)
(* the log panel, which drives its ring through Append and Reset only: what*)
(* is proved of the ring holds in the panel.                               *)
(***************************************************************************)
EXTENDS LogView, FiniteSetTheorems, SequenceTheorems, TLAPS

USE RingAssumption

\* The only remainders physIdx and the head need.
LEMMA Remainder ==
  ASSUME NEW x \in 0..(2 * Capacity - 1)
  PROVE  x % Capacity = IF x < Capacity THEN x ELSE x - Capacity
  BY SMT

\* The indices stay in range.
THEOREM RingTyped == RingSpec => []RingTypeOK
<1>1. RingInit => RingTypeOK
  BY DEF RingInit, RingTypeOK, Slot
<1>2. RingTypeOK /\ [RingNext]_ringVars => RingTypeOK'
  <2> SUFFICES ASSUME RingTypeOK, [RingNext]_ringVars
               PROVE  RingTypeOK'
    OBVIOUS
  <2> USE DEF RingTypeOK, Slot
  <2>1. CASE RingReset
    BY <2>1 DEF RingReset
  <2>2. ASSUME NEW l \in Line, Add(l)
        PROVE  RingTypeOK'
    <3>1. (head + 1) % Capacity \in Slot
      BY Remainder
    <3> QED
      BY <2>2, <3>1 DEF Add
  <2>3. CASE UNCHANGED ringVars
    BY <2>3 DEF ringVars
  <2> QED
    BY <2>1, <2>2, <2>3 DEF RingNext
<1> QED
  BY <1>1, <1>2, PTL DEF RingSpec

\* The slot of a stored line, without a remainder.
LEMMA SlotOf ==
  ASSUME RingTypeOK, NEW i \in 0..(count - 1)
  PROVE  /\ PhysIdx(i) = IF head - count + i < 0 THEN head - count + Capacity + i
                                                 ELSE head - count + i
         /\ PhysIdx(i) \in Slot
<1> DEFINE x == head - count + Capacity + i
<1>1. x \in 0..(2 * Capacity - 1) /\ (x < Capacity <=> head - count + i < 0)
  BY DEF RingTypeOK, Slot
<1>2. PhysIdx(i) = IF x < Capacity THEN x ELSE x - Capacity
  <2> HIDE DEF x
  <2>1. x % Capacity = IF x < Capacity THEN x ELSE x - Capacity
    BY <1>1, Remainder
  <2> QED BY <2>1 DEF PhysIdx, x
<1> QED
  BY <1>1, <1>2 DEF RingTypeOK, Slot

SlotsKnown == \A i \in 0..(count - 1) :
    PhysIdx(i) = IF head - count + i < 0 THEN head - count + Capacity + i
                                         ELSE head - count + i

\* The same for all stored lines at once.
LEMMA Slots == RingTypeOK => SlotsKnown
  BY SlotOf DEF SlotsKnown

\* The bulk copy returns what reading line by line would, in the same order:
\* the seam between the two copies is where the array wraps.
THEOREM SliceReadsLines ==
  ASSUME RingTypeOK, NEW start \in Nat, NEW end \in Nat, start < end, end <= count
  PROVE  Slice(start, end) = [n \in 1..(end - start) |-> Get(start + n - 1)]
<1> USE DEF RingTypeOK, Slot
<1>1. start \in 0..(count - 1)
  OBVIOUS
<1>2. ASSUME NEW n \in 1..(end - start)
      PROVE  (IF PhysIdx(start) + n <= Capacity THEN slots[PhysIdx(start) + n - 1]
                ELSE slots[PhysIdx(start) + n - 1 - Capacity])
             = Get(start + n - 1)
  <2>1. start + n - 1 \in 0..(count - 1)
    OBVIOUS
  <2>2. PhysIdx(start + n - 1) = IF PhysIdx(start) + n <= Capacity
                                   THEN PhysIdx(start) + n - 1
                                   ELSE PhysIdx(start) + n - 1 - Capacity
    <3> DEFINE h == head - count + start  a == PhysIdx(start)  b == PhysIdx(start + n - 1)
    <3>1. a = IF h < 0 THEN h + Capacity ELSE h
      BY <1>1, SlotOf
    <3>2. b = IF h + n - 1 < 0 THEN h + n - 1 + Capacity ELSE h + n - 1
      BY <2>1, SlotOf
    <3>3. h \in Int /\ n \in Nat /\ n >= 1 /\ h + n - 1 < Capacity /\ h + Capacity >= 0
      BY <1>2
    <3> HIDE DEF a, b, h
    <3> QED BY <3>1, <3>2, <3>3 DEF a, b
  <2> QED
    BY <2>1, <2>2 DEF Get
<1>3. Slice(start, end) = [n \in 1..(end - start) |->
                             IF PhysIdx(start) + n <= Capacity
                               THEN slots[PhysIdx(start) + n - 1]
                               ELSE slots[PhysIdx(start) + n - 1 - Capacity]]
  BY DEF Slice
<1> QED
  BY <1>2, <1>3

\* All stored lines, as a sequence.
AllIsListed == /\ \A n \in 1..count : All[n] = slots[PhysIdx(n - 1)]
               /\ All \in Seq(Line \cup {NoLine})
               /\ Len(All) = count

\* Reading everything at once returns line by line what is stored.
LEMMA AllLines == RingTypeOK => AllIsListed
<1> SUFFICES ASSUME RingTypeOK
             PROVE  AllIsListed
  OBVIOUS
<1> USE DEF RingTypeOK, AllIsListed
<1>1. CASE count = 0
  BY <1>1 DEF All, Slice
<1>2. CASE count # 0
  <2>1. All = [n \in 1..(count - 0) |-> Get(0 + n - 1)]
    BY <1>2, SliceReadsLines DEF All
  <2>2. ASSUME NEW n \in 1..count
        PROVE  /\ Get(0 + n - 1) = slots[PhysIdx(n - 1)]
               /\ slots[PhysIdx(n - 1)] \in Line \cup {NoLine}
    BY SlotOf DEF Get
  <2>3. All = [n \in 1..count |-> slots[PhysIdx(n - 1)]]
    BY <2>1, <2>2
  <2> QED
    BY <2>2, <2>3
<1> QED
  BY <1>1, <1>2

\* The head moves on by one slot, around the array.
LEMMA HeadMoves ==
  ASSUME RingTypeOK, NEW l \in Line, Add(l)
  PROVE  head' = IF head + 1 < Capacity THEN head + 1 ELSE 0
<1> DEFINE x == head + 1
<1>1. x \in 0..(2 * Capacity - 1) /\ x <= Capacity
  BY DEF RingTypeOK, Slot
<1>2. head' = IF x < Capacity THEN x ELSE x - Capacity
  <2> HIDE DEF x
  <2>1. x % Capacity = IF x < Capacity THEN x ELSE x - Capacity
    BY <1>1, Remainder
  <2> QED BY <2>1 DEF Add, x
<1> QED
  BY <1>1, <1>2

\* The lines that stay when one more comes: all, or all but the oldest.
LEMMA KeptLines ==
  ASSUME RingTypeOK
  PROVE  /\ Log!Kept \in Seq(Line \cup {NoLine})
         /\ Len(Log!Kept) = IF count = Capacity THEN count - 1 ELSE count
         /\ \A n \in 1..Len(Log!Kept) :
              Log!Kept[n] = IF count = Capacity THEN All[n + 1] ELSE All[n]
<1>1. All \in Seq(Line \cup {NoLine}) /\ Len(All) = count
  BY AllLines DEF AllIsListed
<1>2. CASE count = Capacity
  <2>1. All # <<>>
    BY <1>1, <1>2, EmptySeq DEF RingTypeOK
  <2> QED
    BY <1>1, <1>2, <2>1, HeadTailProperties DEF Log!Kept
<1>3. CASE count # Capacity
  BY <1>1, <1>3 DEF Log!Kept
<1> QED
  BY <1>2, <1>3

\* The newest line is in the slot the head was at.
LEMMA NewestLine ==
  ASSUME RingTypeOK, RingTypeOK', NEW l \in Line, Add(l), NEW i \in 0..(count' - 1), i = count' - 1
  PROVE  slots'[PhysIdx(i)'] = l
<1>1. head' = IF head + 1 < Capacity THEN head + 1 ELSE 0
  BY HeadMoves
<1>2. PhysIdx(i)' = IF head' - 1 < 0 THEN head' - 1 + Capacity ELSE head' - 1
  <2>1. SlotsKnown'
    BY Slots, PTL
  <2>2. PhysIdx(i)' = IF head' - count' + i < 0 THEN head' - count' + Capacity + i
                                              ELSE head' - count' + i
    BY <2>1 DEF SlotsKnown
  <2>3. head' - count' + i = head' - 1 /\ head' - count' + Capacity + i = head' - 1 + Capacity
    BY DEF RingTypeOK, Slot
  <2> QED BY <2>2, <2>3
<1>3. PhysIdx(i)' = head
  BY <1>1, <1>2 DEF RingTypeOK, Slot
<1> QED
  BY <1>3 DEF Add, RingTypeOK

\* The arithmetic of one step: head and count before are h and c, the i-th line
\* after it was the j-th.
LEMMA OneOlder ==
  ASSUME NEW h \in 0..(Capacity - 1), NEW c \in 0..Capacity, NEW h1, NEW c1, NEW j,
         h1 = IF h + 1 < Capacity THEN h + 1 ELSE 0,
         c1 = IF c < Capacity THEN c + 1 ELSE c,
         NEW i \in 0..(c1 - 2),
         j = IF c = Capacity THEN i + 1 ELSE i
  PROVE  /\ (IF h1 - c1 + i < 0 THEN h1 - c1 + Capacity + i ELSE h1 - c1 + i)
              = (IF h - c + j < 0 THEN h - c + Capacity + j ELSE h - c + j)
         /\ (IF h - c + j < 0 THEN h - c + Capacity + j ELSE h - c + j) # h
<1>1. CASE c = Capacity
  BY <1>1
<1>2. CASE c < Capacity
  BY <1>2
<1> QED
  BY <1>1, <1>2

\* The other lines stay in their slots; in a full buffer each is one older.
LEMMA OlderLines ==
  ASSUME RingTypeOK, RingTypeOK', NEW l \in Line, Add(l), NEW i \in 0..(count' - 2)
  PROVE  slots'[PhysIdx(i)'] = IF count = Capacity THEN slots[PhysIdx(i + 1)]
                                                   ELSE slots[PhysIdx(i)]
<1> DEFINE j == IF count = Capacity THEN i + 1 ELSE i
<1>1. head' = IF head + 1 < Capacity THEN head + 1 ELSE 0
  BY HeadMoves
<1>2. /\ count' = IF count < Capacity THEN count + 1 ELSE count
      /\ i \in 0..(count' - 1) /\ j \in 0..(count - 1)
  BY DEF Add, RingTypeOK
<1>3. PhysIdx(i)' = IF head' - count' + i < 0 THEN head' - count' + Capacity + i
                                            ELSE head' - count' + i
  <2>1. SlotsKnown'
    BY Slots, PTL
  <2> QED BY <1>2, <2>1 DEF SlotsKnown
<1>4. /\ PhysIdx(j) = IF head - count + j < 0 THEN head - count + Capacity + j
                                              ELSE head - count + j
      /\ PhysIdx(j) \in Slot
  <2> HIDE DEF j
  <2> QED BY <1>2, SlotOf
<1>5. PhysIdx(i)' = PhysIdx(j) /\ PhysIdx(j) # head
  <2>1. count' \in 0..Capacity /\ head \in 0..(Capacity - 1) /\ count \in 0..Capacity
    BY DEF RingTypeOK, Slot
  <2> QED
    BY <1>1, <1>2, <1>3, <1>4, <2>1, OneOlder
<1>6. slots'[PhysIdx(j)] = slots[PhysIdx(j)]
  BY <1>4, <1>5 DEF Add, RingTypeOK
<1> QED
  BY <1>5, <1>6

\* Lines are numbered from 1, indices from 0.
LEMMA FromZero ==
  ASSUME NEW c \in Nat, NEW n \in 1..c
  PROVE  n - 1 \in 0..(c - 1)
  OBVIOUS

\* One line joins at the end, and the oldest leaves a full buffer.
LEMMA AddLines ==
  ASSUME RingTypeOK, RingTypeOK', NEW l \in Line, Add(l)
  PROVE  All' = Append(Log!Kept, l)
<1>1. AllIsListed /\ AllIsListed'
  BY AllLines, PTL
<1>2. count' = Len(Log!Kept) + 1 /\ Len(Log!Kept) \in Nat
  BY KeptLines DEF Add, RingTypeOK
<1>3. /\ Append(Log!Kept, l) \in Seq(Line \cup {NoLine})
      /\ Len(Append(Log!Kept, l)) = count'
      /\ \A n \in 1..count' :
            Append(Log!Kept, l)[n] = IF n = count' THEN l ELSE Log!Kept[n]
  BY <1>2, KeptLines, AppendProperties
<1>4. ASSUME NEW n \in 1..count'
      PROVE  All'[n] = Append(Log!Kept, l)[n]
  <2>1. /\ All'[n] = slots'[PhysIdx(n - 1)']
        /\ n - 1 \in 0..(count' - 1)
    <3>1. All'[n] = slots'[PhysIdx(n - 1)']
      BY <1>1 DEF AllIsListed
    <3>2. count' \in Nat
      BY DEF RingTypeOK
    <3>3. n - 1 \in 0..(count' - 1)
      BY <3>2, FromZero
    <3> QED BY <3>1, <3>3
  <2>2. CASE n = count'
    BY <1>3, <2>1, <2>2, NewestLine
  <2>3. CASE n # count'
    <3>1. n - 1 \in 0..(count' - 2) /\ n \in 1..Len(Log!Kept)
      BY <1>2, <2>3 DEF RingTypeOK
    <3>2. All'[n] = IF count = Capacity THEN slots[PhysIdx((n - 1) + 1)]
                                        ELSE slots[PhysIdx(n - 1)]
      BY <2>1, <3>1, OlderLines
    <3>3. CASE count = Capacity
      <4>1. n + 1 \in 1..count /\ (n - 1) + 1 = (n + 1) - 1
        BY <1>2, <3>1, <3>3, KeptLines DEF RingTypeOK
      <4> QED
        BY <1>1, <1>3, <2>3, <3>1, <3>2, <3>3, <4>1, KeptLines DEF AllIsListed
    <3>4. CASE count # Capacity
      <4>1. n \in 1..count
        BY <3>1, <3>4, KeptLines
      <4> QED
        BY <1>1, <1>3, <2>3, <3>1, <3>2, <3>4, <4>1, KeptLines DEF AllIsListed
    <3> QED BY <3>3, <3>4
  <2> QED BY <2>2, <2>3
<1> QED
  <2>1. All' \in Seq(Line \cup {NoLine}) /\ Len(All') = count'
    BY <1>1 DEF AllIsListed
  <2> QED BY <1>3, <1>4, <2>1, SeqEqual

\* The circular buffer implements the buffer of the last lines: each of its
\* operations is that operation on the lines a reader sees.
THEOREM RingKeepsTheLast == RingSpec => KeepsTheLast
<1>1. RingInit => Log!Init
  BY DEF RingInit, Log!Init, All, Slice
<1>2. RingTypeOK /\ RingTypeOK' /\ [RingNext]_ringVars => [Log!Next]_<<All, dropped>>
  <2> SUFFICES ASSUME RingTypeOK, RingTypeOK', [RingNext]_ringVars
               PROVE  [Log!Next]_<<All, dropped>>
    OBVIOUS
  <2>1. CASE RingReset
    BY <2>1 DEF RingReset, All, Slice, Log!Next, Log!Reset
  <2>2. ASSUME NEW l \in Line, Add(l)
        PROVE  Log!Add(l)
    <3>1. All' = Append(Log!Kept, l)
      BY <2>2, AddLines
    <3>2. Len(All) = count
      BY AllLines DEF AllIsListed
    <3>3. dropped' = dropped + (Len(All) - Len(Log!Kept))
      BY <2>2, <3>2, KeptLines DEF Add, RingTypeOK
    <3> QED
      BY <3>1, <3>3 DEF Log!Add
  <2>3. CASE UNCHANGED ringVars
    BY <2>3 DEF ringVars, All, Slice, PhysIdx
  <2> QED
    BY <2>1, <2>2, <2>3 DEF RingNext, Log!Next
<1> QED
  BY <1>1, <1>2, RingTyped, PTL DEF RingSpec, KeepsTheLast, Log!Spec
-----------------------------------------------------------------------------
(* The panel.                                                              *)

\* Lines arrive by Append, and a restart resets the ring.
LEMMA ArriveMovesRing == Arrive => RingNext
BY LogViewAssumption DEF Arrive, AppendLine, InsertMarker, Track, ClearAndRestart, RingNext

\* Searching and filtering read the ring.
LEMMA FindKeepsRing == Find => UNCHANGED ringVars
BY DEF Find, ApplyFilter, ApplySearch, ClearSearch, ClearFilter, SearchNext, SearchPrev, GoToMatch

\* So do scrolling, toggling and resizing.
LEMMA LookKeepsRing == Look => UNCHANGED ringVars
BY DEF Look, ScrollUp, ScrollDown, GotoTop, GotoBottom, ToggleAutoscroll, ToggleWrap,
       ToggleSyntax, SetSize, contentVars

\* The panel refines its buffer.
LEMMA PanelIsRing == Spec => RingSpec
<1>1. Init => RingInit
  BY DEF Init
<1>2. [Next]_vars => [RingNext]_ringVars
  BY ArriveMovesRing, FindKeepsRing, LookKeepsRing DEF Next, vars
<1> QED
  BY <1>1, <1>2, PTL DEF Spec, RingSpec

\* Under every search, filter, wrap and scroll the lines the panel reads are the
\* last ones AppendLine and InsertMarker put there, and "n lines dropped" is true.
THEOREM LogViewKeepsTheLast == Spec => KeepsTheLast
BY PanelIsRing, RingKeepsTheLast
-----------------------------------------------------------------------------
(* The view.                                                               *)

Shape == Line \cup {NoLine}

\* A line takes at least one row.
LEMMA HeightTyped ==
  ASSUME width \in Nat \ {0}, NEW l \in Shape
  PROVE  WrapHeight(l) \in Nat \ {0}
<1>1. ContinuationWidth \in Nat \ {0}
  BY DEF ContinuationWidth
<1>2. CASE l = NoLine \/ LineWidth[l] <= width
  BY <1>2 DEF WrapHeight
<1>3. CASE ~(l = NoLine \/ LineWidth[l] <= width)
  <2> DEFINE c == ContinuationWidth
             x == LineWidth[l] - width + c - 1
  <2>1. LineWidth[l] \in Nat /\ c \in Nat \ {0} /\ x \in Nat
    BY <1>1, <1>3, LogViewAssumption DEF Shape
  <2> HIDE DEF c, x
  <2>2. x \div c \in Nat
    BY <2>1
  <2>3. WrapHeight(l) = 1 + x \div c
    BY <1>3 DEF WrapHeight, x, c
  <2> QED BY <2>2, <2>3
<1> QED BY <1>2, <1>3

\* The rows of one line.
LEMMA RowsOfLine ==
  ASSUME NEW n, NEW h \in Nat
  PROVE  IsFiniteSet({n} \X (1..h)) /\ Cardinality({n} \X (1..h)) = h
<1>1. IsFiniteSet({n}) /\ Cardinality({n}) = 1
  BY FS_Singleton
<1>2. IsFiniteSet(1..h) /\ Cardinality(1..h) = h
  BY FS_Interval
<1>3. 1 * h = h
  OBVIOUS
<1> DEFINE a == {n}
           b == 1..h
<1> HIDE DEF a, b
<1>4. IsFiniteSet(a \X b) /\ Cardinality(a \X b) = Cardinality(a) * Cardinality(b)
  BY <1>1, <1>2, FS_Product DEF a, b
<1> QED BY <1>1, <1>2, <1>3, <1>4 DEF a, b

\* The rows of lines can be counted.
LEMMA RowsFinite ==
  ASSUME width \in Nat \ {0}, NEW s \in Seq(Shape)
  PROVE  IsFiniteSet(RowsIn(s)) /\ RowsOf(s) \in Nat
<1> DEFINE n == Len(s)
           f == [k \in 1..n |-> {k} \X (1..WrapHeight(s[k]))]
           W == {f[k] : k \in 1..n}
<1>1. n \in Nat /\ DOMAIN s = 1..n /\ \A k \in 1..n : s[k] \in Shape
  OBVIOUS
<1>2. \A k \in 1..n : f[k] = {k} \X (1..WrapHeight(s[k]))
  OBVIOUS
<1>3. RowsIn(s) = UNION W
  BY <1>1, <1>2 DEF RowsIn
<1>4. \A k \in 1..n : IsFiniteSet(f[k])
  BY <1>1, <1>2, HeightTyped, RowsOfLine
<1>5. f \in Surjection(1..n, W)
  BY DEF Surjection
<1> HIDE DEF n, f
<1>6. IsFiniteSet(W)
  BY <1>1, <1>5, FS_NatSurjection DEF ExistsSurjection
<1>7. \A w \in W : IsFiniteSet(w)
  BY <1>4
<1>8. IsFiniteSet(UNION W)
  BY <1>6, <1>7, FS_UNION
<1> QED BY <1>3, <1>8, FS_CardinalityType DEF RowsOf

\* A line more brings its rows.
LEMMA RowsAppend ==
  ASSUME width \in Nat \ {0}, NEW s \in Seq(Shape), NEW l \in Shape
  PROVE  RowsOf(Append(s, l)) = RowsOf(s) + WrapHeight(l)
<1> DEFINE n == Len(s)
           t == Append(s, l)
           last == {n + 1} \X (1..WrapHeight(l))
<1>1. /\ n \in Nat /\ DOMAIN s = 1..n /\ DOMAIN t = 1..(n + 1)
      /\ t[n + 1] = l /\ \A k \in 1..n : t[k] = s[k]
  OBVIOUS
<1>2. RowsIn(t) = RowsIn(s) \cup last
  BY <1>1 DEF RowsIn
<1>3. RowsIn(s) \cap last = {}
  BY <1>1 DEF RowsIn
<1> HIDE DEF last, t, n
<1>4. IsFiniteSet(last) /\ Cardinality(last) = WrapHeight(l) /\ WrapHeight(l) \in Nat
  BY HeightTyped, RowsOfLine DEF last
<1>5. IsFiniteSet(RowsIn(s)) /\ Cardinality(RowsIn(s)) \in Nat
  BY RowsFinite DEF RowsOf
<1>6. Cardinality(RowsIn(s) \cup last)
        = Cardinality(RowsIn(s)) + Cardinality(last) - Cardinality(RowsIn(s) \cap last)
  BY <1>4, <1>5, FS_Union
<1>7. Cardinality(RowsIn(s) \cap last) = 0
  BY <1>3, FS_EmptySet
<1>8. RowsOf(t) = Cardinality(RowsIn(s)) + WrapHeight(l) - 0
  BY <1>2, <1>4, <1>6, <1>7 DEF RowsOf
<1>9. RowsOf(s) = Cardinality(RowsIn(s)) /\ RowsOf(s) \in Nat
  BY <1>5 DEF RowsOf
<1> QED BY <1>4, <1>8, <1>9 DEF t

\* Without the first line.
LEMMA RowsRest ==
  ASSUME width \in Nat \ {0}, NEW s \in Seq(Shape), NEW t \in Seq(Shape),
         Len(s) = Len(t) + 1, \A n \in 1..Len(t) : t[n] = s[n + 1]
  PROVE  RowsOf(s) = WrapHeight(s[1]) + RowsOf(t)
<1> DEFINE n == Len(t)
           first == {1} \X (1..WrapHeight(s[1]))
           rest == {x \in RowsIn(s) : x[1] # 1}
           f == [x \in rest |-> <<x[1] - 1, x[2]>>]
<1>1. /\ n \in Nat /\ DOMAIN t = 1..n /\ DOMAIN s = 1..(n + 1) /\ s[1] \in Shape
      /\ \A k \in 1..n : t[k] = s[k + 1] /\ k + 1 \in 1..(n + 1)
      /\ \A k \in 1..(n + 1) : k # 1 => k - 1 \in 1..n /\ s[k] = t[k - 1]
  OBVIOUS
<1>2. \A x : x \in RowsIn(s) <=> \E k \in 1..(n + 1) : \E r \in 1..WrapHeight(s[k]) : x = <<k, r>>
  BY <1>1 DEF RowsIn
<1>3. \A x : x \in RowsIn(t) <=> \E k \in 1..n : \E r \in 1..WrapHeight(t[k]) : x = <<k, r>>
  BY <1>1 DEF RowsIn
<1>4. RowsIn(s) = first \cup rest /\ first \cap rest = {}
  BY <1>1, <1>2
<1>5. f \in Bijection(rest, RowsIn(t))
  <2>1. ASSUME NEW x \in rest PROVE f[x] \in RowsIn(t)
    <3>1. PICK k \in 1..(n + 1) : \E r \in 1..WrapHeight(s[k]) : x = <<k, r>>
      BY <1>2
    <3>1a. PICK r \in 1..WrapHeight(s[k]) : x = <<k, r>>
      BY <3>1
    <3>2. k # 1 /\ f[x] = <<k - 1, r>>
      BY <3>1a
    <3> QED BY <1>1, <1>3, <3>2
  <2>2. ASSUME NEW x \in rest, NEW y \in rest, f[x] = f[y] PROVE x = y
    <3>1. PICK k \in 1..(n + 1) : \E r \in 1..WrapHeight(s[k]) : x = <<k, r>>
      BY <1>2
    <3>1a. PICK r \in 1..WrapHeight(s[k]) : x = <<k, r>>
      BY <3>1
    <3>2. PICK j \in 1..(n + 1) : \E q \in 1..WrapHeight(s[j]) : y = <<j, q>>
      BY <1>2
    <3>2a. PICK q \in 1..WrapHeight(s[j]) : y = <<j, q>>
      BY <3>2
    <3>3. f[x] = <<k - 1, r>> /\ f[y] = <<j - 1, q>>
      BY <3>1a, <3>2a
    <3> HIDE DEF f
    <3>4. <<k - 1, r>> = <<j - 1, q>>
      BY <2>2, <3>3
    <3>5. k - 1 = j - 1 /\ r = q
      BY <3>4
    <3> QED BY <3>1a, <3>2a, <3>5
  <2>3. ASSUME NEW y \in RowsIn(t) PROVE \E x \in rest : f[x] = y
    <3>1. PICK k \in 1..n : \E r \in 1..WrapHeight(t[k]) : y = <<k, r>>
      BY <1>3
    <3>1a. PICK r \in 1..WrapHeight(t[k]) : y = <<k, r>>
      BY <3>1
    <3> DEFINE x == <<k + 1, r>>
    <3>2. k + 1 \in 1..(n + 1) /\ k + 1 # 1 /\ r \in 1..WrapHeight(s[k + 1]) /\ (k + 1) - 1 = k
      BY <1>1
    <3>3. x \in rest
      BY <1>2, <3>2
    <3>4. f[x] = <<(k + 1) - 1, r>>
      BY <3>3
    <3> QED BY <3>1a, <3>2, <3>3, <3>4
  <2>4. f \in [rest -> RowsIn(t)]
    BY <2>1
  <2> HIDE DEF f, rest
  <2> QED BY <2>2, <2>3, <2>4 DEF Bijection, Injection, Surjection, IsInjective
<1> HIDE DEF first, rest, f
<1>6. IsFiniteSet(RowsIn(s)) /\ IsFiniteSet(RowsIn(t)) /\ RowsOf(s) \in Nat /\ RowsOf(t) \in Nat
  BY RowsFinite
<1>7. IsFiniteSet(rest) /\ Cardinality(rest) = Cardinality(RowsIn(t))
  <2>1. IsFiniteSet(rest)
    BY <1>4, <1>6, FS_Subset
  <2> QED BY <1>5, <2>1, FS_Bijection DEF ExistsBijection
<1>8. IsFiniteSet(first) /\ Cardinality(first) = WrapHeight(s[1]) /\ WrapHeight(s[1]) \in Nat
  BY <1>1, HeightTyped, RowsOfLine DEF first
<1>9. Cardinality(first \cup rest)
        = Cardinality(first) + Cardinality(rest) - Cardinality(first \cap rest)
  BY <1>7, <1>8, FS_Union
<1>10. Cardinality(first \cap rest) = 0
  BY <1>4, FS_EmptySet
<1>11. RowsOf(s) = WrapHeight(s[1]) + RowsOf(t) - 0
  BY <1>4, <1>7, <1>8, <1>9, <1>10 DEF RowsOf
<1> QED BY <1>6, <1>8, <1>11

\* Numbers can be put in order: each goes after as many as are less.
LEMMA AscendingExists ==
  ASSUME NEW S \in SUBSET Int, IsFiniteSet(S)
  PROVE  \E s \in [1..Cardinality(S) -> S] : IsAscending(s)
<1> DEFINE n == Cardinality(S)
           Under(o) == {q \in S : q < o}
           rank == [o \in S |-> 1 + Cardinality(Under(o))]
<1>0. \A x \in S : x \in Int
  OBVIOUS
<1>1. n \in Nat
  BY FS_CardinalityType
<1>2. ASSUME NEW o \in S
      PROVE  /\ Cardinality(Under(o)) \in Nat /\ Cardinality(Under(o)) < n
             /\ IsFiniteSet(Under(o))
  <2>1. Under(o) \subseteq S \ {o}
    OBVIOUS
  <2>2. IsFiniteSet(S \ {o}) /\ Cardinality(S \ {o}) = n - 1
    BY FS_RemoveElement
  <2> HIDE DEF Under
  <2>3. IsFiniteSet(Under(o)) /\ Cardinality(Under(o)) <= n - 1
    BY <2>1, <2>2, FS_Subset
  <2> QED BY <1>1, <2>3, FS_CardinalityType
<1>3. ASSUME NEW a \in S, NEW b \in S, a < b PROVE rank[a] < rank[b]
  <2>0. a \in Int /\ b \in Int
    BY <1>0
  <2>1. Under(a) \subseteq Under(b)
    <3>1. ASSUME NEW q \in S, q < a PROVE q < b
      <4>1. q \in Int
        BY <1>0
      <4> HIDE <1>0
      <4> QED BY <1>3, <2>0, <3>1, <4>1
    <3> QED BY <3>1
  <2>1a. a \in Under(b) /\ a \notin Under(a)
    BY <1>3, <2>0
  <2>2. Cardinality(Under(a)) \in Nat /\ Cardinality(Under(b)) \in Nat /\ IsFiniteSet(Under(b))
    BY <1>2
  <2>3. rank[a] = 1 + Cardinality(Under(a)) /\ rank[b] = 1 + Cardinality(Under(b))
    OBVIOUS
  <2> HIDE DEF Under, rank
  <2>4. Cardinality(Under(a)) <= Cardinality(Under(b))
        /\ (Cardinality(Under(b)) = Cardinality(Under(a)) => Under(b) = Under(a))
    BY <2>1, <2>2, FS_Subset
  <2>5. Cardinality(Under(b)) # Cardinality(Under(a))
    BY <2>1a, <2>4
  <2>6. Cardinality(Under(a)) < Cardinality(Under(b))
    BY <2>2, <2>4, <2>5
  <2> QED BY <2>2, <2>3, <2>6
<1>4. ASSUME NEW o \in S PROVE rank[o] \in 1..n
  <2>1. Cardinality(Under(o)) \in Nat /\ Cardinality(Under(o)) < n
    BY <1>2
  <2>2. rank[o] = 1 + Cardinality(Under(o))
    OBVIOUS
  <2> HIDE DEF rank, Under, n
  <2> QED BY <1>1, <2>1, <2>2
<1>5. rank \in [S -> 1..n]
  BY <1>4
<1> HIDE DEF rank, Under
<1>6. \A a, b \in S : rank[a] = rank[b] => a = b
  <2>1. ASSUME NEW a \in S, NEW b \in S, rank[a] = rank[b], a # b PROVE FALSE
    <3>1. a \in Int /\ b \in Int /\ (a < b \/ b < a)
      BY <2>1
    <3>2. rank[a] < rank[b] \/ rank[b] < rank[a]
      BY <1>3, <3>1
    <3> QED BY <1>4, <2>1, <3>2
  <2> QED BY <2>1
<1>7. rank \in Injection(S, 1..n)
  BY <1>5, <1>6 DEF Injection, IsInjective
<1>8. IsFiniteSet(1..n) /\ Cardinality(1..n) = n
  BY <1>1, FS_Interval
<1>9. rank \in Surjection(S, 1..n)
  BY <1>7, <1>8, FS_Injection
<1>10. \A i \in 1..n : \E o \in S : rank[o] = i
  BY <1>9 DEF Surjection
<1> DEFINE s == [i \in 1..n |-> CHOOSE o \in S : rank[o] = i]
<1>11. s \in [1..n -> S] /\ \A i \in 1..n : rank[s[i]] = i /\ s[i] \in S
  BY <1>10
<1> HIDE DEF s
<1>12. ASSUME NEW i \in 1..n, NEW j \in 1..n, i < j PROVE s[i] < s[j]
  <2>0. i \in Int /\ j \in Int /\ rank[s[i]] = i /\ rank[s[j]] = j
    BY <1>1, <1>11
  <2>0a. i # j
    BY <1>12, <2>0
  <2>0b. s[i] \in S /\ s[j] \in S
    BY <1>11
  <2>0c. s[i] # s[j]
    BY <2>0, <2>0a
  <2>1. s[i] \in S /\ s[j] \in S /\ s[i] # s[j] /\ s[i] \in Int /\ s[j] \in Int
    BY <1>0, <2>0b, <2>0c
  <2>2. ~(s[j] < s[i])
    <3>1. ASSUME s[j] < s[i] PROVE FALSE
      <4>1. rank[s[j]] < rank[s[i]]
        BY <1>3, <2>1, <3>1
      <4> QED BY <1>1, <1>11, <1>12, <4>1
    <3> QED BY <3>1
  <2> QED BY <2>1, <2>2
<1>13. IsAscending(s)
  BY <1>11, <1>12 DEF IsAscending
<1> QED BY <1>11, <1>13 DEF n

\* What is found is listed, in order.
LEMMA AscendingLists ==
  ASSUME NEW S \in SUBSET Int, IsFiniteSet(S)
  PROVE  /\ Ascending(S) \in Seq(S) /\ IsAscending(Ascending(S))
         /\ {Ascending(S)[k] : k \in DOMAIN Ascending(S)} = S
<1> DEFINE n == Cardinality(S)
           s == Ascending(S)
<1>0. \A x \in S : x \in Int
  OBVIOUS
<1>1. n \in Nat
  BY FS_CardinalityType
<1>2. s \in [1..n -> S] /\ IsAscending(s)
  BY AscendingExists DEF Ascending
<1> HIDE DEF n, s
<1>3. \A j, k \in 1..n : s[j] = s[k] => j = k
  <2> SUFFICES ASSUME NEW j \in 1..n, NEW k \in 1..n, s[j] = s[k], j # k PROVE FALSE
    OBVIOUS
  <2>0. s[j] \in S /\ s[k] \in S /\ j \in DOMAIN s /\ k \in DOMAIN s
    BY <1>2
  <2>1. s[j] \in Int /\ s[k] \in Int
    BY <1>0, <2>0
  <2>2. j < k \/ k < j
    BY <1>1
  <2> QED BY <1>2, <2>0, <2>1, <2>2 DEF IsAscending
<1>4. s \in Injection(1..n, S)
  BY <1>2, <1>3 DEF Injection, IsInjective
<1>5. IsFiniteSet(1..n) /\ Cardinality(1..n) = n
  BY <1>1, FS_Interval
<1>6. s \in Surjection(1..n, S)
  BY <1>4, <1>5, FS_Injection DEF n
<1>7. {s[k] : k \in DOMAIN s} = S
  BY <1>2, <1>6 DEF Surjection
<1>8. s \in Seq(S)
  BY <1>1, <1>2
<1> QED BY <1>2, <1>7, <1>8 DEF s

\* Indices s, counted from off, are those of the lines of a that are in F.
Filters(s, off, a, F) ==
    /\ IsAscending(s)
    /\ {s[k] - off + 1 : k \in DOMAIN s} = {n \in DOMAIN a : a[n] \in F}

\* The indices AppendLine drops, and those it keeps.
Below(s, offset) == {n \in DOMAIN s : \A m \in 1..n : s[m] < offset}
KeptIndices(s, offset) == SubSeq(s, Cardinality(Below(s, offset)) + 1, Len(s))

\* An index in each direction.
LEMMA FiltersMeans ==
  ASSUME NEW a, NEW F, NEW s, NEW off, Filters(s, off, a, F)
  PROVE  \A k \in DOMAIN s : s[k] - off + 1 \in DOMAIN a /\ a[s[k] - off + 1] \in F
<1>1. ASSUME NEW k \in DOMAIN s PROVE s[k] - off + 1 \in {n \in DOMAIN a : a[n] \in F}
  BY DEF Filters
<1> QED BY <1>1

\* And the other way round.
LEMMA FiltersFinds ==
  ASSUME NEW a, NEW F, NEW s, NEW off, Filters(s, off, a, F)
  PROVE  \A n \in DOMAIN a : a[n] \in F => \E k \in DOMAIN s : n = s[k] - off + 1
<1>1. ASSUME NEW n \in DOMAIN a, a[n] \in F PROVE n \in {s[k] - off + 1 : k \in DOMAIN s}
  BY <1>1 DEF Filters
<1> QED BY <1>1

\* A list without its first element.
LEMMA WithoutFirst ==
  ASSUME NEW T, NEW s \in Seq(T), NEW n \in Nat, Len(s) = n + 1
  PROVE  /\ SubSeq(s, 2, Len(s)) \in Seq(T)
         /\ Len(SubSeq(s, 2, Len(s))) = n
         /\ \A k \in 1..n : SubSeq(s, 2, Len(s))[k] = s[k + 1]
OBVIOUS

\* When the oldest line leaves, at most its index goes.
LEMMA KeptDrops ==
  ASSUME NEW s \in Seq(Nat), NEW off \in Nat, IsAscending(s),
         \A k \in 1..Len(s) : s[k] >= off,
         NEW e \in {0, 1}
  PROVE  \E d \in {0, e} :
            /\ d <= Len(s)
            /\ KeptIndices(s, off + e) \in Seq(Nat)
            /\ Len(KeptIndices(s, off + e)) = Len(s) - d
            /\ \A k \in 1..(Len(s) - d) : KeptIndices(s, off + e)[k] = s[k + d]
            /\ \A k \in 1..Len(s) : k <= d <=> s[k] < off + e
            /\ d = 0 => KeptIndices(s, off + e) = s
<1> DEFINE n == Len(s)
           B == Below(s, off + e)
           t == KeptIndices(s, off + e)
<1>1. n \in Nat /\ DOMAIN s = 1..n /\ \A k \in 1..n : s[k] \in Nat /\ s[k] >= off
  OBVIOUS
<1>2. CASE e = 1 /\ n > 0 /\ s[1] = off
  <2>1. \A k \in 1..n : k > 1 => s[k] > off
    <3> SUFFICES ASSUME NEW k \in 1..n, k > 1 PROVE s[k] > off
      OBVIOUS
    <3>1. 1 \in DOMAIN s /\ k \in DOMAIN s /\ 1 < k
      BY <1>1
    <3>2. s[1] < s[k]
      BY <3>1 DEF IsAscending
    <3> QED BY <1>1, <1>2, <3>2
  <2>2. ASSUME NEW k \in 1..n PROVE k \in B <=> k = 1
    <3>1. CASE k = 1
      BY <1>1, <1>2, <3>1 DEF Below
    <3>2. CASE k # 1
      <4>1. k \in 1..k /\ ~(s[k] < off + e)
        BY <1>1, <1>2, <2>1, <3>2
      <4> QED BY <3>2, <4>1 DEF Below
    <3> QED BY <3>1, <3>2
  <2>3. B = {1}
    BY <1>1, <1>2, <2>2 DEF Below
  <2>4. Cardinality(B) = 1
    BY <2>3, FS_Singleton
  <2>5. t = SubSeq(s, 2, Len(s))
    <3> HIDE DEF B
    <3>1. t = SubSeq(s, Cardinality(B) + 1, Len(s))
      BY DEF KeptIndices, B
    <3> HIDE DEF t
    <3>2. Cardinality(B) + 1 = 2
      BY <2>4
    <3> QED BY <3>1, <3>2
  <2>6. t \in Seq(Nat) /\ Len(t) = n - 1 /\ \A k \in 1..(n - 1) : t[k] = s[k + 1]
    <3> DEFINE c == n - 1
               r == SubSeq(s, 2, Len(s))
    <3>1. c \in Nat /\ Len(s) = c + 1
      BY <1>1, <1>2
    <3> HIDE DEF c, t, n
    <3>2. r \in Seq(Nat) /\ Len(r) = c /\ \A k \in 1..c : r[k] = s[k + 1]
      BY <3>1, WithoutFirst
    <3> HIDE DEF r
    <3>3. t = r
      BY <2>5 DEF r
    <3> QED BY <3>2, <3>3 DEF c
  <2>7. \A k \in 1..n : k <= 1 <=> s[k] < off + e
    BY <1>1, <1>2, <2>1
  <2> WITNESS e \in {0, e}
  <2>8. 1 <= n /\ e = 1
    BY <1>1, <1>2
  <2> HIDE DEF B, n
  <2> QED BY <2>6, <2>7, <2>8 DEF n
<1>3. CASE ~(e = 1 /\ n > 0 /\ s[1] = off)
  <2>1. ASSUME NEW k \in 1..n PROVE ~(s[k] < off + e)
    <3>1. CASE e = 0
      BY <1>1, <3>1
    <3>2. CASE e = 1 /\ k = 1
      BY <1>1, <1>3, <3>2
    <3>3. CASE e = 1 /\ k # 1
      <4>1. 1 \in DOMAIN s /\ k \in DOMAIN s /\ 1 < k /\ s[1] \in Nat /\ s[1] >= off
        BY <1>1, <3>3
      <4>2. s[1] < s[k] /\ s[k] \in Nat
        BY <1>1, <4>1 DEF IsAscending
      <4>3. s[1] # off
        BY <1>1, <1>3, <3>3
      <4> QED BY <3>3, <4>1, <4>2, <4>3
    <3> QED BY <3>1, <3>2, <3>3
  <2>2. B = {}
    <3>1. ASSUME NEW k \in B PROVE FALSE
      <4>1. k \in 1..n /\ k \in 1..k /\ s[k] < off + e
        BY <1>1 DEF Below
      <4> QED BY <2>1, <4>1
    <3> QED BY <3>1
  <2>3. Cardinality(B) = 0
    BY <2>2, FS_EmptySet
  <2>4. t = SubSeq(s, 1, n)
    BY <2>3 DEF KeptIndices
  <2>5. t = s
    BY <1>1, <2>4
  <2> WITNESS 0 \in {0, e}
  <2>6. Len(t) = n - 0 /\ 0 <= n /\ \A k \in 1..(n - 0) : t[k] = s[k + 0]
    BY <1>1, <2>5
  <2>7. \A k \in 1..n : k <= 0 <=> s[k] < off + e
    BY <1>1, <2>1
  <2> QED BY <2>5, <2>6, <2>7
<1> QED BY <1>2, <1>3

\* An ascending list goes on with a greater number.
LEMMA AscendingAppend ==
  ASSUME NEW s \in Seq(Nat), IsAscending(s), NEW x \in Nat, \A k \in 1..Len(s) : s[k] < x
  PROVE  Append(s, x) \in Seq(Nat) /\ IsAscending(Append(s, x))
<1> DEFINE n == Len(s)
           t == Append(s, x)
<1>1. /\ n \in Nat /\ t \in Seq(Nat) /\ Len(t) = n + 1 /\ DOMAIN t = 1..(n + 1)
      /\ t[n + 1] = x /\ \A k \in 1..n : t[k] = s[k] /\ k \in DOMAIN s
  OBVIOUS
<1> HIDE DEF t
<1>2. ASSUME NEW j \in 1..(n + 1), NEW k \in 1..(n + 1), j < k PROVE t[j] < t[k]
  <2>1. j \in 1..n
    BY <1>1, <1>2
  <2>2. CASE k = n + 1
    BY <1>1, <2>1, <2>2
  <2>3. CASE k # n + 1
    <3>1. k \in 1..n
      BY <1>1, <2>3
    <3> QED BY <1>1, <1>2, <2>1, <3>1 DEF IsAscending
  <2> QED BY <2>2, <2>3
<1> QED BY <1>1, <1>2 DEF IsAscending, t

\* A list with one element more, at m + 1.
LEMMA FiltersWhen ==
  ASSUME NEW a, NEW F, NEW s, NEW off, IsAscending(s),
         \A k \in DOMAIN s : s[k] - off + 1 \in DOMAIN a /\ a[s[k] - off + 1] \in F,
         \A n \in DOMAIN a : a[n] \in F => \E k \in DOMAIN s : n = s[k] - off + 1
  PROVE  Filters(s, off, a, F)
BY DEF Filters

\* The indices, once line b[Len(b)] has come.
FollowedIndices(s, offset, b, F) ==
    IF b[Len(b)] \in F THEN Append(KeptIndices(s, offset), offset + Len(b) - 1)
    ELSE KeptIndices(s, offset)

\* The filter follows a line that comes, and the oldest that leaves: e counts it.
LEMMA FilterFollows ==
  ASSUME NEW T, NEW a \in Seq(T), NEW F, NEW s \in Seq(Nat), NEW off \in Nat,
         Filters(s, off, a, F),
         NEW e \in {0, 1}, NEW b \in Seq(T), e <= Len(a), Len(b) = Len(a) - e + 1,
         \A n \in 1..(Len(a) - e) : b[n] = a[n + e]
  PROVE  /\ FollowedIndices(s, off + e, b, F) \in Seq(Nat)
         /\ Filters(FollowedIndices(s, off + e, b, F), off + e, b, F)
<1>f. DOMAIN a = 1..Len(a) /\ DOMAIN s = 1..Len(s)
  OBVIOUS
<1>e. ASSUME NEW n \in 1..Len(a), a[n] \in F PROVE \E k \in 1..Len(s) : n = s[k] - off + 1
  <2>1. n \in DOMAIN a
    BY <1>f
  <2>2. PICK k \in DOMAIN s : n = s[k] - off + 1
    BY <1>e, <2>1, FiltersFinds
  <2>3. k \in 1..Len(s)
    BY <1>f
  <2> QED BY <2>2, <2>3
<1>a. \A k \in 1..Len(s) : s[k] - off + 1 \in 1..Len(a) /\ a[s[k] - off + 1] \in F
  BY <1>f, FiltersMeans
<1>b. Len(a) \in Nat /\ Len(s) \in Nat /\ \A k \in 1..Len(s) : s[k] \in Nat
  OBVIOUS
<1>c. ASSUME NEW k \in 1..Len(s) PROVE s[k] >= off
  <2> DEFINE v == s[k]
             c == Len(a)
  <2>1. v - off + 1 \in 1..c
    BY <1>a
  <2>2. v \in Nat /\ c \in Nat
    BY <1>b
  <2> HIDE DEF v, c
  <2>3. v >= off
    BY <2>1, <2>2
  <2> QED BY <2>3 DEF v
<1>2. IsAscending(s)
  BY DEF Filters
<1>d. \E d \in {0, e} :
            /\ d <= Len(s)
            /\ KeptIndices(s, off + e) \in Seq(Nat)
            /\ Len(KeptIndices(s, off + e)) = Len(s) - d
            /\ \A k \in 1..(Len(s) - d) : KeptIndices(s, off + e)[k] = s[k + d]
            /\ \A k \in 1..Len(s) : k <= d <=> s[k] < off + e
            /\ d = 0 => KeptIndices(s, off + e) = s
  BY <1>2, <1>c, KeptDrops
<1> DEFINE c == Len(a)
           kept == KeptIndices(s, off + e)
           m == Len(kept)
           t == FollowedIndices(s, off + e, b, F)
<1>1. /\ c \in Nat /\ e <= c
      /\ \A k \in 1..Len(s) : /\ s[k] \in Nat /\ s[k] - off + 1 \in 1..c
                               /\ s[k] >= off
                               /\ a[s[k] - off + 1] \in F
      /\ \A n \in 1..c : a[n] \in F => \E k \in 1..Len(s) : n = s[k] - off + 1
  BY <1>a, <1>b, <1>c, <1>e
<1>3. PICK d \in {0, e} :
            /\ d <= Len(s)
            /\ kept \in Seq(Nat)
            /\ m = Len(s) - d
            /\ \A k \in 1..(Len(s) - d) : kept[k] = s[k + d]
            /\ \A k \in 1..Len(s) : k <= d <=> s[k] < off + e
  BY <1>d
<1>4. d \in Nat /\ d <= Len(s) /\ m \in Nat /\ Len(s) \in Nat /\ m = Len(s) - d /\ kept \in Seq(Nat)
  BY <1>3
<1> HIDE DEF kept, m, c, t
<1>5. ASSUME NEW k \in 1..m
      PROVE  k + d \in 1..Len(s) /\ kept[k] = s[k + d] /\ kept[k] \in Nat /\ kept[k] >= off + e
  <2>1. k + d \in 1..Len(s) /\ ~(k + d <= d) /\ k \in 1..(Len(s) - d)
    BY <1>4
  <2>2. kept[k] = s[k + d] /\ s[k + d] \in Nat /\ ~(s[k + d] < off + e)
    BY <1>1, <1>3, <2>1
  <2> QED BY <2>1, <2>2
<1>6. IsAscending(kept)
  <2>1. ASSUME NEW j \in 1..m, NEW k \in 1..m, j < k PROVE kept[j] < kept[k]
    <3>1. j + d \in 1..Len(s) /\ k + d \in 1..Len(s) /\ kept[j] = s[j + d] /\ kept[k] = s[k + d]
      BY <1>5
    <3>2. j + d < k + d
      <4>1. d \in Nat /\ m \in Nat
        BY <1>4
      <4>2. j \in Int /\ k \in Int /\ j < k
        BY <2>1, <4>1
      <4> QED BY <4>1, <4>2
    <3>3. DOMAIN s = 1..Len(s)
      OBVIOUS
    <3>4. s[j + d] < s[k + d]
      BY <1>2, <3>1, <3>2, <3>3 DEF IsAscending
    <3> QED BY <3>1, <3>4
  <2>2. DOMAIN kept = 1..m
    BY <1>4 DEF m
  <2> QED BY <2>1, <2>2 DEF IsAscending
<1>13. \A n \in 1..c : a[n] \in F => \E k \in 1..Len(s) : n = s[k] - off + 1
  BY <1>1
<1>12. c \in Nat /\ e <= c /\ e \in Nat /\ off \in Nat
  BY <1>1
<1>7. ASSUME NEW k \in 1..m
      PROVE  kept[k] - (off + e) + 1 \in 1..(c - e) /\ b[kept[k] - (off + e) + 1] \in F
  <2> DEFINE q == kept[k] - (off + e) + 1
  <2>1. /\ s[k + d] - off + 1 \in 1..c /\ a[s[k + d] - off + 1] \in F
        /\ kept[k] = s[k + d] /\ kept[k] \in Nat /\ kept[k] >= off + e
    BY <1>1, <1>5
  <2>1a. \A v \in Nat : v >= off + e /\ v - off + 1 \in 1..c
            => v - (off + e) + 1 \in 1..(c - e) /\ v - (off + e) + 1 + e = v - off + 1
    BY <1>1
  <2>2. q \in 1..(c - e) /\ q + e = s[k + d] - off + 1
    BY <2>1, <2>1a
  <2> HIDE DEF q
  <2>3. b[q] = a[q + e]
    BY <2>2 DEF c
  <2> QED BY <2>1, <2>2, <2>3 DEF q
<1>8. ASSUME NEW n \in 1..(c - e), b[n] \in F
      PROVE  \E k \in 1..m : n = kept[k] - (off + e) + 1
  <2>1. n + e \in 1..c /\ a[n + e] \in F
    <3>1. n + e \in 1..c
      BY <1>12
    <3>2. b[n] = a[n + e]
      BY DEF c
    <3> QED BY <1>8, <3>1, <3>2
  <2>2. PICK j \in 1..Len(s) : n + e = s[j] - off + 1
    BY <1>13, <2>1
  <2>2a. s[j] \in Nat
    BY <1>b, <2>2
  <2> DEFINE u == s[j]
  <2>2b. u \in Nat /\ n + e = u - off + 1
    BY <2>2, <2>2a
  <2> HIDE DEF u
  <2>2c. ~(u < off + e)
    BY <1>12, <2>2b
  <2>3. s[j] \in Nat /\ ~(s[j] < off + e)
    BY <2>2a, <2>2c DEF u
  <2>4a. j <= d <=> s[j] < off + e
    BY <1>3
  <2>4. j > d
    BY <1>4, <2>3, <2>4a
  <2>5. j - d \in 1..m /\ (j - d) + d = j
    BY <1>4, <2>4
  <2>6. kept[j - d] = s[j]
    BY <1>5, <2>5
  <2>6a. \A v \in Nat : n + e = v - off + 1 => n = v - (off + e) + 1
    OBVIOUS
  <2>7. n = kept[j - d] - (off + e) + 1
    BY <2>2, <2>3, <2>6, <2>6a
  <2> QED BY <2>5, <2>7
<1>9. Len(b) = c - e + 1 /\ Len(b) \in Nat /\ 1 <= Len(b) /\ DOMAIN b = 1..Len(b)
  BY <1>1 DEF c
<1>10. ASSUME b[Len(b)] \in F PROVE t \in Seq(Nat) /\ Filters(t, off + e, b, F)
  <2> DEFINE x == off + e + Len(b) - 1
  <2>0. x = off + c /\ x \in Nat /\ x - (off + e) + 1 = Len(b)
    <3>1. c \in Nat /\ off \in Nat /\ e \in Nat
      BY <1>1
    <3>2. Len(b) = c - e + 1 /\ Len(b) \in Nat
      BY <1>9
    <3> DEFINE z == Len(b)
    <3> HIDE DEF z
    <3>3. z = c - e + 1 /\ x = off + e + z - 1
      BY <3>2 DEF z
    <3>4. x = off + c /\ x - (off + e) + 1 = z
      BY <3>1, <3>3
    <3> QED BY <3>1, <3>4 DEF z
  <2>0a. ASSUME NEW k \in 1..m PROVE kept[k] < x
    <3>1. kept[k] \in Nat /\ kept[k] - (off + e) + 1 \in 1..(c - e)
      BY <1>5, <1>7
    <3> DEFINE v == kept[k]
    <3>2. v \in Nat /\ v - (off + e) + 1 <= c - e
      BY <1>12, <3>1
    <3>3. x = off + c
      BY <2>0
    <3> HIDE DEF x, v
    <3> QED BY <1>12, <3>2, <3>3 DEF v
  <2>1. x \in Nat /\ x - (off + e) + 1 = Len(b) /\ \A k \in 1..m : kept[k] < x
    BY <2>0, <2>0a
  <2>2. t = Append(kept, x)
    BY <1>10 DEF kept, t, FollowedIndices
  <2> HIDE DEF x
  <2>3. /\ t \in Seq(Nat) /\ IsAscending(t)
    BY <1>4, <1>6, <2>1, <2>2, AscendingAppend DEF m
  <2>4a. m = Len(kept)
    BY DEF m
  <2>4e. kept \in Seq(Nat) /\ x \in Nat
    BY <1>4, <2>1
  <2>4b. Len(t) = m + 1 /\ t[m + 1] = x
    BY <2>2, <2>4a, <2>4e
  <2>4c. \A k \in 1..m : t[k] = kept[k]
    BY <2>2, <2>4a, <2>4e
  <2>4d. DOMAIN t = 1..(m + 1)
    BY <2>3, <2>4b
  <2>4. /\ DOMAIN t = 1..(m + 1) /\ t[m + 1] = x /\ \A k \in 1..m : t[k] = kept[k]
    BY <2>4b, <2>4c, <2>4d
  <2>5. ASSUME NEW k \in 1..(m + 1)
        PROVE  t[k] - (off + e) + 1 \in 1..Len(b) /\ b[t[k] - (off + e) + 1] \in F
    <3>1. CASE k = m + 1
      <4>1. t[k] = x
        BY <2>4, <3>1
      <4>2. t[k] - (off + e) + 1 = Len(b)
        BY <2>1, <4>1
      <4>3. Len(b) \in 1..Len(b)
        BY <1>9
      <4> QED BY <1>10, <4>2, <4>3
    <3>2. CASE k # m + 1
      <4>1. k \in 1..m
        BY <1>4, <3>2
      <4>2. kept[k] - (off + e) + 1 \in 1..(c - e) /\ b[kept[k] - (off + e) + 1] \in F /\ t[k] = kept[k]
        BY <1>7, <2>4, <4>1
      <4>3. \A y \in 1..(c - e) : y \in 1..Len(b)
        BY <1>1, <1>9
      <4> QED BY <4>2, <4>3
    <3> QED BY <3>1, <3>2
  <2>6. ASSUME NEW n \in 1..Len(b), b[n] \in F PROVE \E k \in 1..(m + 1) : n = t[k] - (off + e) + 1
    <3>1. CASE n = Len(b)
      <4>1. m + 1 \in 1..(m + 1)
        BY <1>4
      <4>2. n = t[m + 1] - (off + e) + 1
        BY <2>1, <2>4, <3>1
      <4> QED BY <4>1, <4>2
    <3>2. CASE n # Len(b)
      <4>1. n \in 1..(c - e)
        BY <1>1, <1>9, <3>2
      <4>2. PICK k \in 1..m : n = kept[k] - (off + e) + 1
        BY <1>8, <2>6, <4>1
      <4>3. k \in 1..(m + 1)
        BY <1>4
      <4>4. t[k] = kept[k]
        BY <2>4
      <4> QED BY <4>2, <4>3, <4>4
    <3> QED BY <3>1, <3>2
  <2>7. \A k \in DOMAIN t : t[k] - (off + e) + 1 \in DOMAIN b /\ b[t[k] - (off + e) + 1] \in F
    BY <1>9, <2>4, <2>5
  <2>8. ASSUME NEW n \in DOMAIN b, b[n] \in F PROVE \E k \in DOMAIN t : n = t[k] - (off + e) + 1
    <3>1. PICK k \in 1..(m + 1) : n = t[k] - (off + e) + 1
      BY <1>9, <2>6, <2>8
    <3>2. k \in DOMAIN t
      BY <2>4
    <3> QED BY <3>1, <3>2
  <2> QED BY <2>3, <2>7, <2>8, FiltersWhen
<1>11. ASSUME b[Len(b)] \notin F PROVE t \in Seq(Nat) /\ Filters(t, off + e, b, F)
  <2>1. t = kept
    BY <1>11 DEF kept, t, FollowedIndices
  <2>2. DOMAIN t = 1..m
    BY <1>4, <2>1 DEF m
  <2>3. \A y \in 1..(c - e) : y \in 1..Len(b)
    BY <1>1, <1>9
  <2>4. \A y \in 1..Len(b) : y # Len(b) => y \in 1..(c - e)
    BY <1>1, <1>9
  <2>5. \A k \in 1..m : t[k] - (off + e) + 1 \in 1..Len(b) /\ b[t[k] - (off + e) + 1] \in F
    BY <1>7, <2>1, <2>3
  <2>6. ASSUME NEW n \in 1..Len(b), b[n] \in F PROVE \E k \in 1..m : n = t[k] - (off + e) + 1
    <3>1. n # Len(b)
      BY <1>11, <2>6
    <3> QED BY <1>8, <2>1, <2>4, <2>6, <3>1
  <2>7. \A k \in DOMAIN t : t[k] - (off + e) + 1 \in DOMAIN b /\ b[t[k] - (off + e) + 1] \in F
    BY <1>9, <2>2, <2>5
  <2>8. ASSUME NEW n \in DOMAIN b, b[n] \in F PROVE \E k \in DOMAIN t : n = t[k] - (off + e) + 1
    <3>1. PICK k \in 1..m : n = t[k] - (off + e) + 1
      BY <1>9, <2>6, <2>8
    <3>2. k \in DOMAIN t
      BY <2>2
    <3> QED BY <3>1, <3>2
  <2>9. t \in Seq(Nat) /\ IsAscending(t)
    BY <1>4, <1>6, <2>1
  <2> QED BY <2>7, <2>8, <2>9, FiltersWhen
<1> QED BY <1>10, <1>11 DEF t

\* A line read by its index.
LEMMA GetLine ==
  ASSUME RingTypeOK, NEW i \in 0..(count - 1)
  PROVE  Get(i) = All[i + 1] /\ Get(i) \in Shape
<1>1. AllIsListed
  BY AllLines
<1>2. /\ i + 1 \in 1..count /\ (i + 1) - 1 = i /\ 0 <= i /\ i < count
  BY DEF RingTypeOK
<1>3. All[i + 1] = slots[PhysIdx(i)]
  <2>1. All[i + 1] = slots[PhysIdx((i + 1) - 1)]
    BY <1>1, <1>2 DEF AllIsListed
  <2> QED BY <1>2, <2>1
<1>4. slots[PhysIdx(i)] \in Shape
  BY SlotOf DEF RingTypeOK, Shape
<1> QED BY <1>2, <1>3, <1>4 DEF Get

\* Any index reads a line, or a slot that was never written.
LEMMA GetAnything == RingTypeOK => \A i \in Int : Get(i) \in Shape
<1> SUFFICES ASSUME RingTypeOK, NEW i \in Int PROVE Get(i) \in Shape
  OBVIOUS
<1>1. CASE i \in 0..(count - 1)
  BY <1>1, GetLine
<1>2. CASE ~(i \in 0..(count - 1))
  BY <1>2 DEF Get, RingTypeOK, Shape
<1> QED BY <1>1, <1>2

ViewTyped ==
    /\ RingTypeOK
    /\ filter \in Pattern \cup {Off} /\ softWrap \in BOOLEAN
    /\ width \in Nat \ {0}
    /\ filteredIndexOffset \in Nat
    /\ filteredIndices \in Seq(Nat)

FilterHolds ==
    filter # Off => Filters(filteredIndices, filteredIndexOffset, All, filter \cup {Marker})

\* The property, in the terms of the lemmas above.
LEMMA FilterIs == FilterHolds <=> FilterIsExact
BY DEF FilterHolds, FilterIsExact, Filters

\* What is on display are lines, or slots that were never written.
LEMMA ShownTyped == ViewTyped => Shown \in Seq(Shape)
<1> SUFFICES ASSUME ViewTyped PROVE Shown \in Seq(Shape)
  OBVIOUS
<1>1. CASE filter = Off
  BY <1>1, AllLines DEF ViewTyped, Shown, AllIsListed, Shape
<1>2. CASE filter # Off
  <2> DEFINE n == Len(filteredIndices)
             f == [k \in 1..n |-> Get(filteredIndices[k] - filteredIndexOffset)]
  <2>1. n \in Nat /\ DOMAIN filteredIndices = 1..n
    BY DEF ViewTyped
  <2>2. Shown = f
    BY <1>2, <2>1 DEF Shown
  <2>3. ASSUME NEW k \in 1..n PROVE Get(filteredIndices[k] - filteredIndexOffset) \in Shape
    <3>1. filteredIndices[k] \in Nat /\ filteredIndexOffset \in Nat
      BY <2>1 DEF ViewTyped
    <3>2. filteredIndices[k] - filteredIndexOffset \in Int
      BY <3>1
    <3> QED BY <3>2, GetAnything DEF ViewTyped
  <2> HIDE DEF n
  <2> QED BY <2>1, <2>2, <2>3
<1> QED BY <1>1, <1>2

\* Under a filter, the lines on display are those the indices name.
ShownIsListed ==
    filter # Off =>
        Shown = [k \in DOMAIN filteredIndices |-> All[filteredIndices[k] - filteredIndexOffset + 1]]

\* Reading by index is reading the list of all lines.
LEMMA ShownLists == ViewTyped /\ FilterHolds => ShownIsListed
<1> SUFFICES ASSUME ViewTyped, FilterHolds, filter # Off PROVE ShownIsListed
  BY DEF ShownIsListed
<1>1. Len(All) = count /\ DOMAIN All = 1..count
  BY AllLines DEF ViewTyped, AllIsListed
<1>2. ASSUME NEW k \in DOMAIN filteredIndices
      PROVE  Get(filteredIndices[k] - filteredIndexOffset)
               = All[filteredIndices[k] - filteredIndexOffset + 1]
  <2>1. filteredIndices[k] - filteredIndexOffset + 1 \in DOMAIN All
    BY FiltersMeans DEF FilterHolds
  <2>2. filteredIndices[k] \in Nat /\ filteredIndexOffset \in Nat /\ count \in Nat
    BY DEF ViewTyped, RingTypeOK
  <2>3. filteredIndices[k] - filteredIndexOffset \in 0..(count - 1)
    BY <1>1, <2>1, <2>2
  <2> QED BY <2>3, GetLine DEF ViewTyped
<1> QED BY <1>2 DEF Shown, ShownIsListed

\* When a line comes the rest of the display moves up by what leaves.
Leaving == IF Evicting THEN 1 ELSE 0

\* The ring, before and after a line.
LEMMA RingGrows ==
  ASSUME RingTypeOK, NEW l \in Line, Add(l)
  PROVE  /\ RingTypeOK'
         /\ All \in Seq(Shape) /\ Len(All) = count /\ All' \in Seq(Shape)
         /\ All' = Append(Log!Kept, l)
         /\ Log!Kept \in Seq(Shape) /\ Len(Log!Kept) = count - Leaving
         /\ \A n \in 1..(count - Leaving) : Log!Kept[n] = All[n + Leaving]
         /\ count' = count - Leaving + 1 /\ Leaving \in {0, 1} /\ Leaving <= count
<1>1. RingTypeOK'
  <2>1. head' = IF head + 1 < Capacity THEN head + 1 ELSE 0
    BY HeadMoves
  <2> QED BY <2>1 DEF RingTypeOK, Slot, Add
<1>2. AllIsListed /\ AllIsListed'
  BY <1>1, AllLines, PTL
<1>3. Leaving \in {0, 1} /\ Leaving <= count /\ count' = count - Leaving + 1 /\ count \in Nat
  BY DEF Leaving, Evicting, Add, RingTypeOK
<1>4. All' = Append(Log!Kept, l)
  BY <1>1, AddLines
<1>5. Log!Kept \in Seq(Shape) /\ Len(Log!Kept) = count - Leaving
  BY <1>3, KeptLines DEF Shape, Leaving, Evicting
<1>6. ASSUME NEW n \in 1..(count - Leaving) PROVE Log!Kept[n] = All[n + Leaving]
  <2>1. n \in 1..Len(Log!Kept) /\ n + 0 = n
    BY <1>5
  <2>2. Log!Kept[n] = IF count = Capacity THEN All[n + 1] ELSE All[n]
    BY <2>1, KeptLines
  <2> QED BY <2>1, <2>2 DEF Leaving, Evicting
<1> QED BY <1>1, <1>2, <1>3, <1>4, <1>5, <1>6 DEF AllIsListed, Shape

\* What Track means for the filter: included says what becomes of the line.
Includes(l, included) ==
    included <=> (filter = Off \/ l \in filter \cup {Marker})

\* The indices stay those of the lines the filter lets through.
LEMMA TrackFilters ==
  ASSUME ViewTyped, FilterHolds, NEW l \in Line, NEW included \in BOOLEAN,
         Includes(l, included), Track(l, included)
  PROVE  ViewTyped' /\ FilterHolds'
<1>1. /\ RingTypeOK' /\ Len(All) = count /\ All \in Seq(Shape) /\ All' \in Seq(Shape)
      /\ All' = Append(Log!Kept, l) /\ Log!Kept \in Seq(Shape)
      /\ Len(Log!Kept) = count - Leaving
      /\ \A n \in 1..(count - Leaving) : Log!Kept[n] = All[n + Leaving]
      /\ count' = count - Leaving + 1 /\ Leaving \in {0, 1} /\ Leaving <= count
      /\ count \in Nat
  BY RingGrows DEF ViewTyped, Track, RingTypeOK
<1>2. filter' = filter /\ softWrap' = softWrap /\ width' = width
  BY DEF Track, sizeVars
<1>3. CASE filter = Off
  <2>1. filteredIndices' = filteredIndices /\ filteredIndexOffset' = filteredIndexOffset
    BY <1>3 DEF Track, TrackFilter, ViewTyped
  <2> QED BY <1>1, <1>2, <1>3, <2>1 DEF ViewTyped, FilterHolds
<1>4. CASE filter # Off
  <2> DEFINE a == All
             b == All'
             e == Leaving
             s == filteredIndices
             off == filteredIndexOffset
             F == filter \cup {Marker}
  <2>1. a \in Seq(Shape) /\ b \in Seq(Shape) /\ s \in Seq(Nat) /\ off \in Nat /\ e \in {0, 1}
    BY <1>1 DEF ViewTyped
  <2>2. Len(b) = count' /\ b[Len(b)] = l /\ \A n \in 1..(count - e) : b[n] = Log!Kept[n]
    <3>1. l \in Shape
      BY DEF Shape
    <3> DEFINE kept == Log!Kept
    <3>2. kept \in Seq(Shape) /\ Len(kept) = count - e /\ b = Append(kept, l) /\ count - e \in Nat
      BY <1>1
    <3>3. count' = count - e + 1
      BY <1>1
    <3> HIDE DEF kept, b, e
    <3>4. Len(b) = count - e + 1 /\ b[count - e + 1] = l /\ \A n \in 1..(count - e) : b[n] = kept[n]
      BY <3>1, <3>2, AppendProperties
    <3> QED BY <3>3, <3>4 DEF kept
  <2>3. e <= Len(a) /\ Len(b) = Len(a) - e + 1 /\ \A n \in 1..(Len(a) - e) : b[n] = a[n + e]
    BY <1>1, <2>2
  <2>4. Filters(s, off, a, F)
    BY <1>4 DEF FilterHolds
  <2>5. filteredIndexOffset' = off + e
    BY <1>4, <2>1 DEF Track, TrackFilter, Leaving
  <2>6. filteredIndices' = FollowedIndices(s, off + e, b, F)
    <3>1. included <=> l \in F
      BY <1>4 DEF Includes
    <3>2. filteredIndices' = IF included THEN Append(KeptIndices(s, off + e), off + e + count' - 1)
                                         ELSE KeptIndices(s, off + e)
      BY <1>4, <2>5 DEF Track, TrackFilter, KeptIndices, Below
    <3> QED BY <2>2, <3>1, <3>2 DEF FollowedIndices
  <2> HIDE DEF a, b, e, s, off, F
  <2>7. /\ FollowedIndices(s, off + e, b, F) \in Seq(Nat)
        /\ Filters(FollowedIndices(s, off + e, b, F), off + e, b, F)
    BY <2>1, <2>3, <2>4, FilterFollows
  <2>8. off + e \in Nat
    BY <2>1
  <2>9. filteredIndices' \in Seq(Nat) /\ filteredIndexOffset' \in Nat
    BY <2>5, <2>6, <2>7, <2>8
  <2>10. Filters(filteredIndices', filteredIndexOffset', b, F)
    BY <2>5, <2>6, <2>7
  <2>11. FilterHolds'
    BY <1>2, <2>10 DEF FilterHolds, b, F, Filters, IsAscending
  <2> QED BY <1>1, <1>2, <2>9, <2>11 DEF ViewTyped
<1> QED BY <1>3, <1>4

\* With room in the ring the display only grows, at its end.
LEMMA ShownGrows ==
  ASSUME ViewTyped, FilterHolds, NEW l \in Line, NEW included \in BOOLEAN,
         Includes(l, included), Track(l, included), ~Evicting
  PROVE  Shown' = IF included THEN Append(Shown, l) ELSE Shown
<1>1. /\ RingTypeOK' /\ Len(All) = count /\ All \in Seq(Shape) /\ All' = Append(Log!Kept, l)
      /\ Len(Log!Kept) = count - Leaving
      /\ \A n \in 1..(count - Leaving) : Log!Kept[n] = All[n + Leaving]
      /\ count' = count - Leaving + 1 /\ count \in Nat
  BY RingGrows DEF ViewTyped, Track, RingTypeOK
<1>2. filter' = filter
  BY DEF Track
<1>3. All' = Append(All, l)
  <2>1. Log!Kept = All
    BY <1>1 DEF Log!Kept, Evicting
  <2> QED BY <1>1, <2>1
<1>4. CASE filter = Off
  <2>1. included
    BY <1>4 DEF Includes
  <2> QED BY <1>2, <1>3, <1>4, <2>1 DEF Shown
<1>5. CASE filter # Off
  <2> DEFINE s == filteredIndices
             off == filteredIndexOffset
             n == Len(s)
  <2>1. s \in Seq(Nat) /\ off \in Nat /\ n \in Nat /\ DOMAIN s = 1..n
    BY DEF ViewTyped
  <2>2. Filters(s, off, All, filter \cup {Marker})
    BY <1>5 DEF FilterHolds
  <2>3. ASSUME NEW k \in 1..n PROVE s[k] - off + 1 \in 1..count /\ s[k] \in Nat /\ s[k] >= off
    <3>1. s[k] - off + 1 \in DOMAIN All
      BY <2>1, <2>2, FiltersMeans
    <3>2. s[k] \in Nat
      BY <2>1
    <3>3. DOMAIN All = 1..count
      BY <1>1
    <3> HIDE DEF s, off
    <3> QED BY <2>1, <3>1, <3>2, <3>3
  <2>4. off' = off
    BY <1>5, <2>1 DEF Track, TrackFilter
  <2>5. KeptIndices(s, off + 0) = s
    <3>1. IsAscending(s)
      BY <2>2 DEF Filters
    <3>2. PICK d \in {0, 0} : d = 0 => KeptIndices(s, off + 0) = s
      BY <2>1, <2>3, <3>1, KeptDrops
    <3> QED BY <3>2
  <2>6. s' = IF included THEN Append(s, off + count' - 1) ELSE s
    <3>1. s' = IF included THEN Append(KeptIndices(s, off'), off' + count' - 1)
                           ELSE KeptIndices(s, off')
      BY <1>5 DEF Track, TrackFilter, KeptIndices, Below
    <3>2. off + 0 = off
      BY <2>1
    <3> QED BY <2>4, <2>5, <3>1, <3>2
  <2>7. ViewTyped' /\ FilterHolds'
    BY TrackFilters
  <2>8. ShownIsListed /\ ShownIsListed'
    BY <2>7, ShownLists, PTL
  <2>9. Shown = [k \in 1..n |-> All[s[k] - off + 1]]
    BY <1>5, <2>1, <2>8 DEF ShownIsListed
  <2>10. Shown' = [k \in DOMAIN s' |-> All'[s'[k] - off + 1]]
    BY <1>2, <1>5, <2>4, <2>8 DEF ShownIsListed
  <2>11. \A i \in 1..count : All'[i] = All[i]
    BY <1>1, <1>3, AppendProperties DEF Shape
  <2>12. All'[count + 1] = l
    BY <1>1, <1>3, AppendProperties DEF Shape
  <2>13. CASE ~included
    BY <2>1, <2>3, <2>6, <2>9, <2>10, <2>11, <2>13
  <2>14. CASE included
    <3> DEFINE x == off + count' - 1
               t == s'
    <3>1. count' = count + 1 /\ x = off + count /\ x \in Nat
      BY <1>1, <2>1 DEF Leaving
    <3>2. x - off + 1 = count + 1
      BY <1>1, <2>1, <3>1
    <3>3. t = Append(s, x)
      BY <2>6, <2>14
    <3> HIDE DEF x, t, s
    <3>4. DOMAIN t = 1..(n + 1) /\ t[n + 1] = x /\ \A k \in 1..n : t[k] = s[k]
      BY <2>1, <3>1, <3>3 DEF s
    <3> DEFINE v == [k \in 1..(n + 1) |-> All'[t[k] - off + 1]]
               u == Append(Shown, l)
    <3>5. Shown' = v
      BY <2>10, <3>4 DEF t
    <3>6. v[n + 1] = l
      BY <2>1, <2>12, <3>2, <3>4
    <3>7. ASSUME NEW k \in 1..n PROVE v[k] = Shown[k]
      <4>1. k \in 1..(n + 1) /\ v[k] = All'[s[k] - off + 1]
        BY <2>1, <3>4
      <4> QED BY <2>3, <2>9, <2>11, <4>1 DEF s
    <3>8. Shown \in Seq(Shape) /\ l \in Shape /\ Len(Shown) = n
      <4>1. DOMAIN Shown = 1..n
        BY <2>9
      <4> QED BY <2>1, <4>1, ShownTyped DEF Shape
    <3>9. u \in Seq(Shape) /\ Len(u) = n + 1 /\ u[n + 1] = l /\ \A k \in 1..n : u[k] = Shown[k]
      BY <3>8, AppendProperties
    <3> HIDE DEF u
    <3>10. u = v
      <4>1. u = [k \in 1..(n + 1) |-> u[k]]
        BY <2>1, <3>9
      <4>2. ASSUME NEW k \in 1..(n + 1) PROVE u[k] = v[k]
        <5>1. k = n + 1 \/ k \in 1..n
          BY <2>1
        <5> QED BY <3>6, <3>7, <3>9, <5>1
      <4> QED BY <4>1, <4>2
    <3> QED BY <2>14, <3>5, <3>10 DEF u
  <2> QED BY <2>13, <2>14
<1> QED BY <1>4, <1>5

ViewInv == ViewTyped /\ FilterHolds /\ RowsAreCounted

\* What the view is about, but for the matches.
contentsVars == <<ringVars, filterVars, softWrap, width, totalWrappedRows>>

\* What leaves the contents of the view alone keeps it exact.
LEMMA ViewKept == ASSUME ViewInv, UNCHANGED contentsVars PROVE ViewInv'
<1> USE DEF contentsVars, ringVars, filterVars
<1>1. All' = All /\ Shown' = Shown /\ Indicator' = Indicator
  BY DEF Shown, All, Slice, Get, PhysIdx, Indicator
<1>2. ViewTyped'
  BY DEF ViewInv, ViewTyped, RingTypeOK
<1>3. FilterHolds'
  BY <1>1 DEF ViewInv, FilterHolds, Filters, IsAscending
<1>4. RowsAreCounted'
  BY <1>1 DEF ViewInv, RowsAreCounted, RowsIn, WrapHeight, ContinuationWidth
<1> QED BY <1>2, <1>3, <1>4 DEF ViewInv

\* A recount is right whatever came before.
LEMMA RecountCounts ==
  ASSUME ViewTyped', FilterHolds', totalWrappedRows' = IF softWrap' THEN WrappedRows' ELSE totalWrappedRows
  PROVE  ViewInv'
<1>1. RowsAreCounted'
  BY DEF RowsAreCounted, WrappedRows, RowsOf
<1> QED BY <1>1 DEF ViewInv

\* So does a recount when only wrapping or the width changes.
LEMMA RecountKeeps ==
  ASSUME ViewInv, UNCHANGED <<ringVars, filterVars>>, softWrap' \in BOOLEAN, width' \in Nat \ {0}, Recount
  PROVE  ViewInv'
<1>1. All' = All
  BY DEF ringVars, All, Slice, PhysIdx
<1>2. ViewTyped' /\ FilterHolds'
  BY <1>1 DEF ViewInv, ViewTyped, RingTypeOK, FilterHolds, Filters, IsAscending, ringVars, filterVars
<1> QED BY <1>2, RecountCounts DEF Recount

\* The empty panel is exact.
LEMMA ViewBegins == Init => ViewInv
<1> SUFFICES ASSUME Init PROVE ViewInv
  OBVIOUS
<1>1. RingTypeOK
  BY DEF Init, RingInit, RingTypeOK, Slot
<1>2. width \in Nat \ {0}
  BY LogViewAssumption DEF Init
<1>3. <<>> \in Seq(Nat)
  OBVIOUS
<1>4. ViewTyped
  BY <1>1, <1>2, <1>3 DEF Init, ViewTyped
<1>5. FilterHolds /\ RowsAreCounted
  BY DEF Init, FilterHolds, RowsAreCounted
<1> QED BY <1>4, <1>5 DEF ViewInv

\* A list of some is a list of more.
LEMMA SeqOfMore ==
  ASSUME NEW A, NEW B, A \in SUBSET B, NEW s \in Seq(A)
  PROVE  s \in Seq(B)
OBVIOUS

\* ApplySearch in filter mode lists the indices anew.
LEMMA ApplyFilterKeeps == ASSUME ViewInv, NEW p \in Pattern, ApplyFilter(p) PROVE ViewInv'
<1> DEFINE off == filteredIndexOffset
           H == {n \in DOMAIN All : All[n] \in p \cup {Marker}}
           S == {off + n - 1 : n \in H}
<1>1. /\ filter' = p /\ filteredIndices' = Ascending(S) /\ filteredIndexOffset' = off
      /\ UNCHANGED ringVars /\ UNCHANGED <<softWrap, width>> /\ Recount
  BY DEF ApplyFilter, RebuildViewportContent, sizeVars
<1>2. All' = All /\ RingTypeOK'
  BY <1>1 DEF ringVars, All, Slice, PhysIdx, ViewInv, ViewTyped, RingTypeOK
<1>3. off \in Nat /\ count \in Nat /\ DOMAIN All = 1..count
  BY AllLines DEF ViewInv, ViewTyped, RingTypeOK, AllIsListed
<1>4. S \in SUBSET Int /\ S \in SUBSET Nat /\ S \subseteq off..(off + count)
  BY <1>3
<1>5. IsFiniteSet(S)
  <2>1. off \in Int /\ off + count \in Int
    BY <1>3
  <2>2. IsFiniteSet(off..(off + count))
    BY <2>1, FS_Interval
  <2> HIDE DEF S, off
  <2> QED BY <1>4, <2>2, FS_Subset
<1> HIDE DEF S
<1>6. /\ filteredIndices' \in Seq(S) /\ IsAscending(Ascending(S))
      /\ {Ascending(S)[k] : k \in DOMAIN Ascending(S)} = S
  BY <1>1, <1>4, <1>5, AscendingLists
<1>7. filteredIndices' \in Seq(Nat)
  BY <1>4, <1>6, SeqOfMore
<1>8. Filters(Ascending(S), off, All, p \cup {Marker})
  <2> DEFINE s == Ascending(S)
             F == p \cup {Marker}
  <2>1. ASSUME NEW k \in DOMAIN s PROVE s[k] - off + 1 \in DOMAIN All /\ All[s[k] - off + 1] \in F
    <3>1. s[k] \in S
      BY <1>6
    <3>2. PICK n \in H : s[k] = off + n - 1
      BY <3>1 DEF S
    <3>3. n \in 1..count
      BY <1>3
    <3>4. s[k] - off + 1 = n
      BY <1>3, <3>2, <3>3
    <3> QED BY <3>4
  <2>2. ASSUME NEW n \in DOMAIN All, All[n] \in F PROVE \E k \in DOMAIN s : n = s[k] - off + 1
    <3>1. off + n - 1 \in S
      BY <2>2 DEF S
    <3>2. PICK k \in DOMAIN s : s[k] = off + n - 1
      BY <1>6, <3>1
    <3>3. n \in 1..count
      BY <1>3
    <3>4. n = s[k] - off + 1
      BY <1>3, <3>2, <3>3
    <3> QED BY <3>4
  <2> HIDE DEF s, F
  <2>3. IsAscending(s)
    BY <1>6 DEF s
  <2> QED BY <2>1, <2>2, <2>3, FiltersWhen DEF s, F
<1>9. FilterHolds'
  BY <1>1, <1>2, <1>8 DEF FilterHolds, Filters, IsAscending
<1>10. ViewTyped'
  BY <1>1, <1>2, <1>3, <1>7 DEF ViewInv, ViewTyped
<1> QED BY <1>1, <1>9, <1>10, RecountCounts DEF Recount

\* ClearFilter drops the indices and recounts.
LEMMA ClearFilterKeeps == ASSUME ViewInv, ClearFilter PROVE ViewInv'
<1>1. /\ filter' = Off /\ filteredIndices' = <<>> /\ filteredIndexOffset' = 0
      /\ UNCHANGED ringVars /\ UNCHANGED <<softWrap, width>> /\ Recount
  BY DEF ClearFilter, sizeVars
<1>2. <<>> \in Seq(Nat)
  OBVIOUS
<1>3. ViewTyped' /\ FilterHolds'
  BY <1>1, <1>2 DEF ringVars, ViewInv, ViewTyped, RingTypeOK, FilterHolds
<1> QED BY <1>1, <1>3, RecountCounts DEF Recount

\* ClearAndRestart empties the ring and the count with it.
LEMMA RestartKeeps == ASSUME ViewInv, ClearAndRestart PROVE ViewInv'
<1>1. /\ filter' = Off /\ filteredIndices' = <<>> /\ filteredIndexOffset' = 0
      /\ RingReset /\ totalWrappedRows' = 0 /\ UNCHANGED <<softWrap, width>>
  BY DEF ClearAndRestart, sizeVars
<1>2. <<>> \in Seq(Nat)
  OBVIOUS
<1>3. RingTypeOK'
  BY <1>1 DEF RingReset, RingTypeOK, Slot
<1>4. ViewTyped' /\ FilterHolds'
  BY <1>1, <1>2, <1>3 DEF ViewInv, ViewTyped, FilterHolds
<1>5. Shown' = <<>> /\ Indicator' = 0
  BY <1>1 DEF RingReset, Shown, All, Slice, Indicator
<1>6. RowsIn(Shown)' = {}
  BY <1>5 DEF RowsIn
<1>7. Cardinality(RowsIn(Shown))' = 0
  BY <1>6, FS_EmptySet
<1> QED BY <1>1, <1>4, <1>5, <1>7 DEF ViewInv, RowsAreCounted

\* The rows counted by differences when no filter is on.
LEMMA RowsFollow ==
  ASSUME ViewTyped, NEW l \in Line, Add(l), filter = Off
  PROVE  /\ RowsOf(All) \in Nat /\ WrapHeight(l) \in Nat
         /\ Evicting => WrapHeight(Get(0)) \in Nat
         /\ RowsOf(All') = RowsOf(All) + WrapHeight(l)
                              - (IF Evicting THEN WrapHeight(Get(0)) ELSE 0)
<1> DEFINE kept == Log!Kept
           e == Leaving
<1>1. /\ All \in Seq(Shape) /\ Len(All) = count /\ All' = Append(kept, l)
      /\ kept \in Seq(Shape) /\ Len(kept) = count - e
      /\ \A n \in 1..(count - e) : kept[n] = All[n + e]
      /\ e \in {0, 1} /\ e <= count /\ count \in Nat
  BY RingGrows DEF ViewTyped, RingTypeOK
<1>2. width \in Nat \ {0} /\ l \in Shape
  BY DEF ViewTyped, Shape
<1>3. RowsOf(All) \in Nat /\ RowsOf(kept) \in Nat /\ WrapHeight(l) \in Nat
  BY <1>1, <1>2, RowsFinite, HeightTyped
<1>4. RowsOf(Append(kept, l)) = RowsOf(kept) + WrapHeight(l)
  BY <1>1, <1>2, RowsAppend
<1>5. CASE Evicting
  <2>1. e = 1 /\ 0 \in 0..(count - 1)
    BY <1>1, <1>5 DEF Leaving
  <2>2. Get(0) = All[1] /\ Get(0) \in Shape
    <3>1. Get(0) = All[0 + 1] /\ Get(0) \in Shape
      BY <2>1, GetLine DEF ViewTyped
    <3> QED BY <3>1
  <2>3. WrapHeight(Get(0)) \in Nat
    BY <1>2, <2>2, HeightTyped
  <2>4. Len(All) = Len(kept) + 1 /\ \A n \in 1..Len(kept) : kept[n] = All[n + 1]
    BY <1>1, <2>1
  <2> HIDE DEF kept
  <2>5. RowsOf(All) = WrapHeight(All[1]) + RowsOf(kept)
    BY <1>1, <1>2, <2>4, RowsRest
  <2> QED BY <1>1, <1>3, <1>4, <1>5, <2>2, <2>3, <2>5
<1>6. CASE ~Evicting
  <2>1. kept = All
    BY <1>1, <1>6 DEF Log!Kept, Evicting
  <2> HIDE DEF kept
  <2> QED BY <1>1, <1>3, <1>4, <1>6, <2>1
<1> QED BY <1>5, <1>6

\* The count of rows follows every line.
LEMMA TrackKeeps ==
  ASSUME ViewInv, NEW l \in Line, NEW included \in BOOLEAN,
         Includes(l, included), Track(l, included)
  PROVE  ViewInv'
<1>1. ViewTyped' /\ FilterHolds'
  BY TrackFilters DEF ViewInv
<1>2. /\ filter' = filter /\ softWrap' = softWrap /\ width' = width /\ softWrap \in BOOLEAN
      /\ TrackRows(l, included) /\ Add(l)
  BY DEF Track, sizeVars, ViewInv, ViewTyped
<1>3. Cardinality(RowsIn(Shown))' = RowsOf(Shown')
  BY <1>2 DEF RowsOf, RowsIn, WrapHeight, ContinuationWidth
<1>4. WrappedRows' = RowsOf(Shown') + Indicator'
  BY <1>3 DEF WrappedRows, RowsOf
<1>5. ASSUME softWrap PROVE totalWrappedRows = RowsOf(Shown) + Indicator
  BY <1>5 DEF ViewInv, RowsAreCounted, RowsOf
<1>6. dropped \in Nat /\ dropped' = IF Evicting THEN dropped + 1 ELSE dropped
  BY <1>2 DEF Add, Evicting, ViewInv, ViewTyped, RingTypeOK
<1>7. Indicator \in {0, 1} /\ (Indicator = 0 <=> dropped = 0) /\ Indicator' = IF Evicting THEN 1 ELSE Indicator
  BY <1>6 DEF Indicator
<1>8. ASSUME softWrap PROVE totalWrappedRows' = RowsOf(Shown') + Indicator'
  <2>1. CASE filter = Off
    <3> DEFINE h == WrapHeight(l)
               g == WrapHeight(Get(0))
               r == RowsOf(Shown)
    <3>1. Shown = All /\ Shown' = All'
      BY <1>2, <2>1 DEF Shown
    <3>2. /\ r \in Nat /\ h \in Nat /\ (Evicting => g \in Nat)
          /\ RowsOf(Shown') = r + h - (IF Evicting THEN g ELSE 0)
      BY <1>2, <2>1, <3>1, RowsFollow DEF ViewInv
    <3>3. totalWrappedRows' = totalWrappedRows + h - (IF Evicting THEN g ELSE 0)
                                + (IF Evicting /\ dropped = 0 THEN 1 ELSE 0)
      BY <1>2, <1>8, <2>1 DEF TrackRows
    <3>4. totalWrappedRows = r + Indicator
      BY <1>5, <1>8
    <3> HIDE DEF r, g, h
    <3>5. CASE Evicting
      BY <1>7, <3>2, <3>3, <3>4, <3>5
    <3>6. CASE ~Evicting
      BY <1>7, <3>2, <3>3, <3>4, <3>6
    <3> QED BY <3>5, <3>6
  <2>2. CASE filter # Off /\ (included \/ Evicting)
    BY <1>2, <1>4, <1>8, <2>2 DEF TrackRows
  <2>3. CASE filter # Off /\ ~(included \/ Evicting)
    <3>1. totalWrappedRows' = totalWrappedRows
      BY <1>2, <1>8, <2>3 DEF TrackRows
    <3>2. Shown' = Shown
      BY <2>3, ShownGrows DEF ViewInv
    <3> QED BY <1>5, <1>7, <1>8, <2>3, <3>1, <3>2
  <2> QED BY <2>1, <2>2, <2>3
<1>9. RowsAreCounted'
  BY <1>2, <1>3, <1>8 DEF RowsAreCounted
<1> QED BY <1>1, <1>9 DEF ViewInv

\* AppendLine, InsertMarker and ClearAndRestart, in turn.
LEMMA ArriveKeeps == ASSUME ViewInv, Arrive PROVE ViewInv'
<1>1. ASSUME NEW l \in Line, AppendLine(l) PROVE ViewInv'
  <2> DEFINE included == filter = Off \/ l \in filter
  <2>1. Track(l, included) /\ l # Marker
    BY <1>1 DEF AppendLine
  <2>2. Includes(l, included)
    BY <2>1 DEF Includes
  <2> HIDE DEF included
  <2>3. included \in BOOLEAN
    BY DEF included
  <2> QED BY <2>1, <2>2, <2>3, TrackKeeps
<1>2. CASE InsertMarker
  <2>1. Track(Marker, TRUE) /\ Includes(Marker, TRUE) /\ Marker \in Line
    BY <1>2, LogViewAssumption DEF InsertMarker, Includes
  <2> QED BY <2>1, TrackKeeps
<1>3. CASE ClearAndRestart
  BY <1>3, RestartKeeps
<1> QED BY <1>1, <1>2, <1>3 DEF Arrive

\* Searching, filtering and stepping through matches.
LEMMA FindKeeps == ASSUME ViewInv, Find PROVE ViewInv'
<1>1. ASSUME NEW p \in Pattern, ApplyFilter(p) PROVE ViewInv'
  BY <1>1, ApplyFilterKeeps
<1>2. ASSUME NEW p \in Pattern, ApplySearch(p) PROVE ViewInv'
  <2>1. UNCHANGED <<ringVars, filterVars>> /\ softWrap' = softWrap /\ width' = width /\ Recount
    BY <1>2 DEF ApplySearch, RebuildViewportContent, sizeVars
  <2>2. softWrap' \in BOOLEAN /\ width' \in Nat \ {0}
    BY <2>1 DEF ViewInv, ViewTyped
  <2> QED BY <2>1, <2>2, RecountKeeps
<1>3. CASE ClearSearch
  BY <1>3, ViewKept DEF ClearSearch, contentsVars, sizeVars
<1>4. CASE ClearFilter
  BY <1>4, ClearFilterKeeps
<1>5. CASE SearchNext \/ SearchPrev
  BY <1>5, ViewKept DEF SearchNext, SearchPrev, GoToMatch, contentsVars, sizeVars
<1> QED BY <1>1, <1>2, <1>3, <1>4, <1>5 DEF Find

\* Scrolling, toggling and resizing.
LEMMA LookKeeps == ASSUME ViewInv, Look PROVE ViewInv'
<1> USE DEF contentVars, sizeVars
<1>1. ASSUME NEW n \in {1, height}, ScrollUp(n) \/ ScrollDown(n) PROVE ViewInv'
  BY <1>1, ViewKept DEF ScrollUp, ScrollDown, contentsVars
<1>2. CASE GotoTop \/ GotoBottom \/ ToggleAutoscroll
  BY <1>2, ViewKept DEF GotoTop, GotoBottom, ToggleAutoscroll, contentsVars
<1>3. softWrap \in BOOLEAN /\ width \in Nat \ {0}
  BY DEF ViewInv, ViewTyped
<1>4. CASE ToggleWrap
  <2>1. UNCHANGED <<ringVars, filterVars>> /\ softWrap' = ~softWrap /\ width' = width /\ Recount
    BY <1>4 DEF ToggleWrap
  <2>2. softWrap' \in BOOLEAN
    BY <2>1
  <2> QED BY <1>3, <2>1, <2>2, RecountKeeps
<1>5. CASE ToggleSyntax
  <2>1. UNCHANGED <<ringVars, filterVars>> /\ softWrap' = softWrap /\ width' = width /\ Recount
    BY <1>5 DEF ToggleSyntax, RebuildViewportContent
  <2> QED BY <1>3, <2>1, RecountKeeps
<1>6. ASSUME NEW w \in Width, NEW h \in Height, SetSize(w, h) PROVE ViewInv'
  <2>1. UNCHANGED <<ringVars, filterVars>> /\ softWrap' = softWrap /\ width' = w /\ Recount
    BY <1>6 DEF SetSize
  <2>2. w \in Nat \ {0}
    BY LogViewAssumption
  <2> QED BY <1>3, <2>1, <2>2, RecountKeeps
<1> QED BY <1>1, <1>2, <1>4, <1>5, <1>6 DEF Look

\* The inductive invariant of the view.
LEMMA ViewInvariant == Spec => []ViewInv
<1>1. Init => ViewInv
  BY ViewBegins
<1>2. ViewInv /\ [Next]_vars => ViewInv'
  <2> SUFFICES ASSUME ViewInv, [Next]_vars PROVE ViewInv'
    OBVIOUS
  <2>1. CASE UNCHANGED vars
    BY <2>1, ViewKept DEF vars, contentsVars, sizeVars
  <2> QED BY <2>1, ArriveKeeps, FindKeeps, LookKeeps DEF Next
<1> QED BY <1>1, <1>2, PTL DEF Spec

\* For any lines, patterns and sizes the panel shows the lines of the buffer the filter
\* lets through, in order, and counts their rows: AppendLine's moves of an offset and
\* its differences of row counts never drift from the buffer.
THEOREM ViewStaysExact == Spec => []ViewIsExact
<1>1. ViewInv => ViewIsExact
  BY FilterIs DEF ViewInv, ViewIsExact
<1> QED BY <1>1, ViewInvariant, PTL
-----------------------------------------------------------------------------
(* The matches.                                                            *)

MatchPosition == [line : Nat, col : Nat]

\* A match on a marker, and the match in line n, of the lines s on display.
IsOnMarker(pos, s, ind) ==
    pos.line - ind + 1 \in DOMAIN s /\ s[pos.line - ind + 1] = Marker
At(n, s, ind) == [line |-> n - 1 + ind, col |-> Column[s[n]]]

\* The matches mp, but for those on markers, are those of the lines s that are in S.
Finds(mp, s, ind, S) ==
    /\ \A j, k \in DOMAIN mp : j < k => mp[j].line < mp[k].line
    /\ {pos \in ToSet(mp) : ~IsOnMarker(pos, s, ind)}
          = {At(n, s, ind) : n \in {n \in DOMAIN s : s[n] \in S \ {Marker}}}

MatchesFound == search # Off => Finds(matchPositions, Shown, Indicator, search)

\* The property, in these terms.
LEMMA MatchesAre == MatchesFound <=> MatchesAreExact
BY DEF MatchesFound, MatchesAreExact, Finds, IsOnMarker, OnMarker, At, MatchAt, FoundLines

\* A match is on a marker or is that of a line found.
LEMMA FindsLines ==
  ASSUME NEW mp, NEW s, NEW ind, NEW S, Finds(mp, s, ind, S), NEW k \in DOMAIN mp
  PROVE  \/ IsOnMarker(mp[k], s, ind)
         \/ \E n \in DOMAIN s : s[n] \in S \ {Marker} /\ mp[k] = At(n, s, ind)
<1>1. mp[k] \in ToSet(mp)
  BY DEF ToSet
<1>2. CASE ~IsOnMarker(mp[k], s, ind)
  <2>1. mp[k] \in {At(n, s, ind) : n \in {n \in DOMAIN s : s[n] \in S \ {Marker}}}
    BY <1>1, <1>2 DEF Finds
  <2> QED BY <2>1
<1> QED BY <1>2

\* Each line found has its match.
LEMMA FindsMatches ==
  ASSUME NEW mp, NEW s, NEW ind, NEW S, Finds(mp, s, ind, S),
         NEW n \in DOMAIN s, s[n] \in S \ {Marker}
  PROVE  \E k \in DOMAIN mp : mp[k] = At(n, s, ind)
<1>1. At(n, s, ind) \in {pos \in ToSet(mp) : ~IsOnMarker(pos, s, ind)}
  BY DEF Finds
<1> QED BY <1>1 DEF ToSet

\* Both together.
LEMMA FindsWhen ==
  ASSUME NEW mp, NEW s \in Seq(Shape), NEW ind \in Nat, NEW S,
         \A j, k \in DOMAIN mp : j < k => mp[j].line < mp[k].line,
         \A k \in DOMAIN mp :
            \/ IsOnMarker(mp[k], s, ind)
            \/ \E n \in DOMAIN s : s[n] \in S \ {Marker} /\ mp[k] = At(n, s, ind),
         \A n \in DOMAIN s : s[n] \in S \ {Marker} => \E k \in DOMAIN mp : mp[k] = At(n, s, ind)
  PROVE  Finds(mp, s, ind, S)
<1> DEFINE L == {pos \in ToSet(mp) : ~IsOnMarker(pos, s, ind)}
           R == {At(n, s, ind) : n \in {n \in DOMAIN s : s[n] \in S \ {Marker}}}
<1>1. ASSUME NEW pos \in L PROVE pos \in R
  <2>1. PICK k \in DOMAIN mp : pos = mp[k]
    BY DEF ToSet
  <2>2. PICK n \in DOMAIN s : s[n] \in S \ {Marker} /\ mp[k] = At(n, s, ind)
    BY <2>1
  <2> QED BY <2>1, <2>2
<1>2. ASSUME NEW pos \in R PROVE pos \in L
  <2>1. PICK n \in DOMAIN s : s[n] \in S \ {Marker} /\ pos = At(n, s, ind)
    OBVIOUS
  <2>2. PICK k \in DOMAIN mp : mp[k] = pos
    BY <2>1
  <2>3. pos.line = n - 1 + ind
    BY <2>1 DEF At
  <2>4. pos.line - ind + 1 = n
    <3>1. n \in Int
      OBVIOUS
    <3> QED BY <2>3, <3>1
  <2>5. ~IsOnMarker(pos, s, ind)
    BY <2>1, <2>4 DEF IsOnMarker
  <2> QED BY <2>2, <2>5 DEF ToSet
<1>3. L = R
  BY <1>1, <1>2
<1> QED BY <1>3 DEF Finds

\* A match is on display.
LEMMA FindsInside ==
  ASSUME NEW mp \in Seq(MatchPosition), NEW s \in Seq(Shape), NEW ind \in Nat, NEW S,
         Finds(mp, s, ind, S), NEW k \in DOMAIN mp
  PROVE  mp[k].line \in Nat /\ mp[k].line - ind + 1 \in DOMAIN s
<1>1. mp[k] \in MatchPosition
  OBVIOUS
<1>2. mp[k].line \in Nat
  BY <1>1 DEF MatchPosition
<1>3. CASE IsOnMarker(mp[k], s, ind)
  BY <1>2, <1>3 DEF IsOnMarker
<1>4. ASSUME NEW n \in DOMAIN s, mp[k] = At(n, s, ind) PROVE mp[k].line - ind + 1 \in DOMAIN s
  <2>1. mp[k].line = n - 1 + ind
    BY <1>4 DEF At
  <2>2. n \in Int
    OBVIOUS
  <2>3. mp[k].line - ind + 1 = n
    BY <1>2, <2>1, <2>2
  <2> QED BY <2>3
<1> QED BY <1>2, <1>3, <1>4, FindsLines

\* A line at the end, searched unless it is a marker.
LEMMA FindsAppend ==
  ASSUME NEW mp \in Seq(MatchPosition), NEW s \in Seq(Shape), NEW ind \in Nat, NEW S \in SUBSET Line,
         Finds(mp, s, ind, S), NEW l \in Line
  PROVE  LET x == [line |-> Len(s) + ind, col |-> Column[l]]
             q == IF l \in S \ {Marker} THEN Append(mp, x) ELSE mp
         IN  q \in Seq(MatchPosition) /\ Finds(q, Append(s, l), ind, S)
<1> DEFINE m == Len(s)
           c == Len(mp)
           t == Append(s, l)
           x == [line |-> m + ind, col |-> Column[l]]
           q == IF l \in S \ {Marker} THEN Append(mp, x) ELSE mp
<1>1. m \in Nat /\ c \in Nat /\ DOMAIN s = 1..m /\ DOMAIN mp = 1..c
  OBVIOUS
<1>2. t \in Seq(Shape) /\ DOMAIN t = 1..(m + 1) /\ t[m + 1] = l /\ \A n \in 1..m : t[n] = s[n]
  <2>1. l \in Shape
    BY DEF Shape
  <2> QED BY <2>1
<1>3. x \in MatchPosition /\ x.line = m + ind
  BY <1>1, LogViewAssumption DEF MatchPosition
<1>4. ASSUME NEW k \in 1..c
      PROVE  mp[k].line \in Nat /\ mp[k].line - ind + 1 \in 1..m
  BY <1>1, FindsInside
<1>5. \A j, k \in 1..c : j < k => mp[j].line < mp[k].line
  BY <1>1 DEF Finds
<1>6. ASSUME NEW n \in 1..m PROVE At(n, t, ind) = At(n, s, ind) /\ n \in 1..(m + 1)
  BY <1>1, <1>2 DEF At
<1>7. x = At(m + 1, t, ind)
  <2>1. (m + 1) - 1 + ind = m + ind
    BY <1>1
  <2> QED BY <1>2, <2>1 DEF At
<1>8. ASSUME NEW k \in 1..c
      PROVE  \/ IsOnMarker(mp[k], t, ind)
             \/ \E n \in 1..(m + 1) : t[n] \in S \ {Marker} /\ mp[k] = At(n, t, ind)
  <2>1. CASE IsOnMarker(mp[k], s, ind)
    <3>1. mp[k].line - ind + 1 \in 1..m /\ mp[k].line - ind + 1 \in 1..(m + 1)
      BY <1>4, <1>6
    <3> QED BY <1>2, <2>1, <3>1 DEF IsOnMarker
  <2>2. ASSUME NEW n \in 1..m, s[n] \in S \ {Marker}, mp[k] = At(n, s, ind)
        PROVE  \E i \in 1..(m + 1) : t[i] \in S \ {Marker} /\ mp[k] = At(i, t, ind)
    <3>1. n \in 1..(m + 1) /\ t[n] \in S \ {Marker} /\ mp[k] = At(n, t, ind)
      BY <1>2, <1>6, <2>2
    <3> QED BY <3>1
  <2> QED BY <1>1, <2>1, <2>2, FindsLines
<1>9. ASSUME NEW n \in 1..m, s[n] \in S \ {Marker} PROVE \E k \in 1..c : mp[k] = At(n, t, ind)
  <2>1. \E k \in 1..c : mp[k] = At(n, s, ind)
    BY <1>1, <1>9, FindsMatches
  <2> QED BY <1>6, <2>1
<1> HIDE DEF m, c, t, x
<1>10. ASSUME l \in S \ {Marker} PROVE q \in Seq(MatchPosition) /\ Finds(q, t, ind, S)
  <2> DEFINE r == Append(mp, x)
  <2>1. r \in Seq(MatchPosition) /\ DOMAIN r = 1..(c + 1) /\ r[c + 1] = x /\ \A k \in 1..c : r[k] = mp[k]
    BY <1>3 DEF c
  <2>2. q = r
    BY <1>10
  <2> HIDE DEF r, q
  <2>3. ASSUME NEW j \in 1..(c + 1), NEW k \in 1..(c + 1), j < k PROVE r[j].line < r[k].line
    <3>1. j \in 1..c
      BY <1>1, <2>3
    <3>2. CASE k = c + 1
      <4>1. mp[j].line \in Nat /\ mp[j].line - ind + 1 \in 1..m
        BY <1>4, <3>1
      <4>2. mp[j].line < m + ind
        BY <1>1, <4>1
      <4> QED BY <1>3, <2>1, <3>1, <3>2, <4>2
    <3>3. CASE k # c + 1
      <4>1. k \in 1..c
        BY <1>1, <3>3
      <4> QED BY <1>5, <2>1, <2>3, <3>1, <4>1
    <3> QED BY <3>2, <3>3
  <2>4. ASSUME NEW k \in 1..(c + 1)
        PROVE  \/ IsOnMarker(r[k], t, ind)
               \/ \E n \in 1..(m + 1) : t[n] \in S \ {Marker} /\ r[k] = At(n, t, ind)
    <3>1. CASE k = c + 1
      <4>1. m + 1 \in 1..(m + 1) /\ t[m + 1] \in S \ {Marker} /\ r[k] = At(m + 1, t, ind)
        BY <1>1, <1>2, <1>7, <1>10, <2>1, <3>1
      <4> QED BY <4>1
    <3>2. CASE k # c + 1
      <4>1. k \in 1..c
        BY <1>1, <3>2
      <4> QED BY <1>8, <2>1, <4>1
    <3> QED BY <3>1, <3>2
  <2>5. ASSUME NEW n \in 1..(m + 1), t[n] \in S \ {Marker} PROVE \E k \in 1..(c + 1) : r[k] = At(n, t, ind)
    <3>1. CASE n = m + 1
      <4>1. c + 1 \in 1..(c + 1)
        BY <1>1
      <4> QED BY <1>7, <2>1, <3>1, <4>1
    <3>2. CASE n # m + 1
      <4>1. n \in 1..m /\ s[n] \in S \ {Marker}
        BY <1>1, <1>2, <2>5, <3>2
      <4>2. PICK k \in 1..c : mp[k] = At(n, t, ind)
        BY <1>9, <4>1
      <4>3. k \in 1..(c + 1)
        BY <1>1
      <4> QED BY <2>1, <4>2, <4>3
    <3> QED BY <3>1, <3>2
  <2>6. Finds(r, t, ind, S)
    BY <1>2, <2>1, <2>3, <2>4, <2>5, FindsWhen
  <2> QED BY <2>1, <2>2, <2>6
<1>11. ASSUME l \notin S \ {Marker} PROVE q \in Seq(MatchPosition) /\ Finds(q, t, ind, S)
  <2>1. q = mp
    BY <1>11
  <2>2. ASSUME NEW n \in 1..(m + 1), t[n] \in S \ {Marker} PROVE \E k \in 1..c : mp[k] = At(n, t, ind)
    <3>1. n # m + 1
      BY <1>2, <1>11, <2>2
    <3>2. n \in 1..m /\ s[n] \in S \ {Marker}
      BY <1>1, <1>2, <2>2, <3>1
    <3> QED BY <1>9, <3>2
  <2>3. Finds(mp, t, ind, S)
    BY <1>1, <1>2, <1>5, <1>8, <2>2, FindsWhen
  <2> QED BY <2>1, <2>3
<1> QED BY <1>10, <1>11 DEF t, x, m

\* rebuildMatchPositions finds the lines on display, markers and all.
LEMMA RebuiltFinds ==
  ASSUME NEW s \in Seq(Shape), NEW ind \in Nat, NEW S \in SUBSET Line
  PROVE  LET hits == Ascending({n \in DOMAIN s : s[n] \in S})
             mp == [k \in DOMAIN hits |-> At(hits[k], s, ind)]
         IN  mp \in Seq(MatchPosition) /\ Finds(mp, s, ind, S)
<1> DEFINE H == {n \in DOMAIN s : s[n] \in S}
           hits == Ascending(H)
           mp == [k \in DOMAIN hits |-> At(hits[k], s, ind)]
<1>1. DOMAIN s = 1..Len(s) /\ Len(s) \in Nat
  OBVIOUS
<1>2. H \in SUBSET Int /\ H \subseteq 1..Len(s)
  BY <1>1
<1>3. IsFiniteSet(1..Len(s))
  BY <1>1, FS_Interval
<1>4. IsFiniteSet(H)
  BY <1>2, <1>3, FS_Subset
<1> HIDE DEF H
<1>5. hits \in Seq(H) /\ IsAscending(hits) /\ {hits[k] : k \in DOMAIN hits} = H
  BY <1>2, <1>4, AscendingLists
<1> HIDE DEF hits
<1>6. Len(hits) \in Nat /\ DOMAIN hits = 1..Len(hits) /\ \A k \in DOMAIN hits : hits[k] \in H
  BY <1>5
<1>7. ASSUME NEW n \in H PROVE n \in DOMAIN s /\ s[n] \in S /\ n \in Nat /\ n >= 1
  BY <1>1 DEF H
<1>8. ASSUME NEW n \in H PROVE At(n, s, ind) \in MatchPosition /\ At(n, s, ind).line = n - 1 + ind
  <2>1. Column[s[n]] \in Nat
    BY <1>7, LogViewAssumption
  <2>2. n - 1 + ind \in Nat
    BY <1>7
  <2> QED BY <2>1, <2>2 DEF At, MatchPosition
<1>9. mp \in Seq(MatchPosition)
  BY <1>6, <1>8
<1>10. DOMAIN mp = DOMAIN hits /\ \A k \in DOMAIN hits : mp[k] = At(hits[k], s, ind)
  OBVIOUS
<1> HIDE DEF mp
<1>11. ASSUME NEW j \in DOMAIN mp, NEW k \in DOMAIN mp, j < k PROVE mp[j].line < mp[k].line
  <2>1. hits[j] \in H /\ hits[k] \in H /\ hits[j] < hits[k]
    BY <1>5, <1>6, <1>10, <1>11 DEF IsAscending
  <2>2. mp[j].line = hits[j] - 1 + ind /\ mp[k].line = hits[k] - 1 + ind
    BY <1>8, <1>10, <2>1
  <2>3. hits[j] \in Nat /\ hits[k] \in Nat
    BY <1>7, <2>1
  <2> QED BY <2>1, <2>2, <2>3
<1>12. ASSUME NEW k \in DOMAIN mp
       PROVE  \/ IsOnMarker(mp[k], s, ind)
              \/ \E n \in DOMAIN s : s[n] \in S \ {Marker} /\ mp[k] = At(n, s, ind)
  <2> DEFINE n == hits[k]
  <2>1. n \in H /\ mp[k] = At(n, s, ind)
    BY <1>6, <1>10
  <2>2. n \in DOMAIN s /\ s[n] \in S /\ n \in Nat /\ mp[k].line = n - 1 + ind
    BY <1>7, <1>8, <2>1
  <2> HIDE DEF n
  <2>3. CASE s[n] = Marker
    <3>1. mp[k].line - ind + 1 = n
      BY <2>2
    <3> QED BY <2>2, <2>3, <3>1 DEF IsOnMarker
  <2>4. CASE s[n] # Marker
    BY <2>1, <2>2, <2>4
  <2> QED BY <2>3, <2>4
<1>13. ASSUME NEW n \in DOMAIN s, s[n] \in S \ {Marker} PROVE \E k \in DOMAIN mp : mp[k] = At(n, s, ind)
  <2>1. n \in H
    BY <1>13 DEF H
  <2>2. PICK k \in DOMAIN hits : hits[k] = n
    BY <1>5, <2>1
  <2> QED BY <1>10, <2>2
<1>14. Finds(mp, s, ind, S)
  BY <1>11, <1>12, <1>13, FindsWhen
<1> QED BY <1>9, <1>14 DEF mp, hits, H

SearchTyped == search \in Pattern \cup {Off} /\ matchPositions \in Seq(MatchPosition)

Rebuilt == search \in Pattern \cup {Off} /\ matchPositions = RebuiltMatches

\* A rebuild is exact whatever came before.
LEMMA RebuiltIsExact == ViewTyped /\ Rebuilt => SearchTyped /\ MatchesFound
<1> SUFFICES ASSUME ViewTyped, Rebuilt PROVE SearchTyped /\ MatchesFound
  OBVIOUS
<1>0. search \in Pattern \cup {Off}
  BY DEF Rebuilt
<1>1. CASE search = Off
  <2>1. matchPositions = <<>>
    BY <1>1 DEF Rebuilt, RebuiltMatches
  <2>2. <<>> \in Seq(MatchPosition)
    OBVIOUS
  <2> QED BY <1>0, <1>1, <2>1, <2>2 DEF SearchTyped, MatchesFound
<1>2. CASE search # Off
  <2> DEFINE s == Shown
             ind == Indicator
             hits == Ascending({n \in DOMAIN s : s[n] \in search})
             mp == [k \in DOMAIN hits |-> At(hits[k], s, ind)]
  <2>1. s \in Seq(Shape) /\ ind \in Nat /\ search \in SUBSET Line
    BY <1>0, <1>2, ShownTyped, LogViewAssumption DEF Indicator
  <2>2. matchPositions = mp
    BY <1>2 DEF Rebuilt, RebuiltMatches, At
  <2> HIDE DEF s, ind
  <2>3. mp \in Seq(MatchPosition) /\ Finds(mp, s, ind, search)
    BY <2>1, RebuiltFinds
  <2> QED BY <1>0, <2>2, <2>3 DEF SearchTyped, MatchesFound, s, ind
<1> QED BY <1>1, <1>2

MatchInv == ViewInv /\ SearchTyped

\* What leaves the display and the search alone leaves the matches exact.
LEMMA MatchesKept ==
  ASSUME MatchInv, UNCHANGED <<ringVars, filterVars, search, matchPositions>>
  PROVE  SearchTyped' /\ (MatchesFound => MatchesFound')
<1>1. Shown' = Shown /\ Indicator' = Indicator
  BY DEF ringVars, filterVars, Shown, All, Slice, Get, PhysIdx, Indicator
<1>2. ASSUME MatchesFound PROVE MatchesFound'
  BY <1>1, <1>2 DEF MatchesFound, Finds, ToSet, IsOnMarker, At
<1> QED BY <1>2 DEF MatchInv, SearchTyped

\* A rebuild makes them exact.
LEMMA RebuildFinds ==
  ASSUME ViewInv', search' \in Pattern \cup {Off}, matchPositions' = RebuiltMatches'
  PROVE  SearchTyped' /\ MatchesFound'
<1>1. ViewTyped' /\ Rebuilt'
  BY DEF ViewInv, Rebuilt
<1> QED BY <1>1, RebuiltIsExact, PTL

\* Without an eviction the matches of the new line are added.
LEMMA ExtendFinds ==
  ASSUME MatchInv, NEW l \in Line, NEW included \in BOOLEAN,
         Includes(l, included), Track(l, included), ~Evicting, search # Off,
         matchPositions' = IF included /\ l \in search \ {Marker}
                             THEN Append(matchPositions, [line |-> Len(Shown) + Indicator, col |-> Column[l]])
                             ELSE matchPositions
  PROVE  SearchTyped' /\ (MatchesFound => MatchesFound')
<1>1. search' = search /\ search \in SUBSET Line
  BY LogViewAssumption DEF Track, MatchInv, SearchTyped
<1>2. Indicator' = Indicator /\ Indicator \in Nat
  BY DEF Indicator, Track, Add, Evicting
<1>3. Shown \in Seq(Shape) /\ Shown' = IF included THEN Append(Shown, l) ELSE Shown
  BY ShownTyped, ShownGrows DEF MatchInv, ViewInv
<1>4. matchPositions \in Seq(MatchPosition)
  BY DEF MatchInv, SearchTyped
<1> DEFINE mp == matchPositions
           s == Shown
           ind == Indicator
           x == [line |-> Len(s) + ind, col |-> Column[l]]
<1>5. matchPositions' \in Seq(MatchPosition)
  <2>1. x \in MatchPosition
    BY <1>2, <1>3, LogViewAssumption DEF MatchPosition
  <2> QED BY <1>4, <2>1
<1>6. ASSUME MatchesFound PROVE MatchesFound'
  <2>1. Finds(mp, s, ind, search)
    BY <1>6 DEF MatchesFound
  <2>2. CASE included
    <3> DEFINE q == IF l \in search \ {Marker} THEN Append(mp, x) ELSE mp
    <3>1. matchPositions' = q /\ Shown' = Append(s, l)
      BY <1>3, <2>2
    <3> HIDE DEF mp, s, ind
    <3>2. mp \in Seq(MatchPosition) /\ s \in Seq(Shape) /\ ind \in Nat
      BY <1>2, <1>3, <1>4 DEF mp, s, ind
    <3>3. Finds(q, Append(s, l), ind, search)
      BY <1>1, <2>1, <3>2, FindsAppend
    <3> HIDE DEF q
    <3>4. Finds(matchPositions', Shown', Indicator', search')
      BY <1>1, <1>2, <3>1, <3>3 DEF ind
    <3> QED BY <3>4 DEF MatchesFound, Finds, ToSet, IsOnMarker, At
  <2>3. CASE ~included
    <3>1. matchPositions' = mp /\ Shown' = s
      BY <1>3, <2>3
    <3> QED BY <1>1, <1>2, <2>1, <3>1 DEF MatchesFound, Finds, ToSet, IsOnMarker, At
  <2> QED BY <2>2, <2>3
<1> QED BY <1>1, <1>5, <1>6 DEF MatchInv, SearchTyped

\* Without a search there is nothing to find.
LEMMA NoSearch ==
  ASSUME MatchInv, search' = Off, matchPositions' = matchPositions \/ matchPositions' = <<>>
  PROVE  SearchTyped' /\ MatchesFound'
<1>1. <<>> \in Seq(MatchPosition)
  OBVIOUS
<1> QED BY <1>1 DEF MatchInv, SearchTyped, MatchesFound

\* A line that comes.
LEMMA LineKeepsMatches ==
  ASSUME MatchInv, NEW l \in Line, NEW included \in BOOLEAN,
         Includes(l, included), Track(l, included),
         search = Off => matchPositions' = matchPositions,
         search # Off /\ Evicting => matchPositions' = RebuiltMatches',
         search # Off /\ ~Evicting =>
            matchPositions' = IF included /\ l \in search \ {Marker}
                                THEN Append(matchPositions, [line |-> Len(Shown) + Indicator, col |-> Column[l]])
                                ELSE matchPositions
  PROVE  SearchTyped' /\ (MatchesFound => MatchesFound')
<1>1. search' = search /\ search' \in Pattern \cup {Off}
  BY DEF Track, MatchInv, SearchTyped
<1>2. ViewInv'
  BY TrackKeeps DEF MatchInv
<1>3. CASE search = Off
  BY <1>1, <1>3, NoSearch
<1>4. CASE search # Off /\ Evicting
  BY <1>1, <1>2, <1>4, RebuildFinds
<1>5. CASE search # Off /\ ~Evicting
  BY <1>5, ExtendFinds
<1> QED BY <1>3, <1>4, <1>5

\* AppendLine, InsertMarker, ClearAndRestart.
LEMMA ArriveKeepsMatches ==
  ASSUME MatchInv, Arrive
  PROVE  SearchTyped' /\ (MatchesFound => MatchesFound')
<1>1. ASSUME NEW l \in Line, AppendLine(l) PROVE SearchTyped' /\ (MatchesFound => MatchesFound')
  <2> DEFINE included == filter = Off \/ l \in filter
  <2>1. Track(l, included) /\ l # Marker
    BY <1>1 DEF AppendLine
  <2>2. Includes(l, included)
    BY <2>1 DEF Includes
  <2>3. ASSUME included \/ Evicting
        PROVE  matchPositions' = CASE search = Off -> matchPositions
                                   [] search # Off /\ Evicting -> RebuiltMatches'
                                   [] search # Off /\ ~Evicting ->
                                         matchPositions \o LineMatches(l, TotalDisplayLines' - 1)
    BY <1>1, <2>3 DEF AppendLine
  <2>4. ASSUME ~(included \/ Evicting) PROVE matchPositions' = matchPositions
    BY <1>1, <2>4 DEF AppendLine
  <2>4a. included \in BOOLEAN
    OBVIOUS
  <2> HIDE DEF included
  <2>5. ASSUME search # Off, ~Evicting
        PROVE  matchPositions' = IF included /\ l \in search \ {Marker}
                                   THEN Append(matchPositions, [line |-> Len(Shown) + Indicator, col |-> Column[l]])
                                   ELSE matchPositions
    <3>1. CASE ~included
      BY <2>4, <2>5, <3>1
    <3>2. CASE included
      <4>1. matchPositions' = matchPositions \o LineMatches(l, TotalDisplayLines' - 1)
        BY <2>3, <2>5, <3>2
      <4>2. Shown' = Append(Shown, l) /\ Shown \in Seq(Shape) /\ l \in Shape
        BY <2>1, <2>2, <2>5, <3>2, <2>4a, ShownGrows, ShownTyped DEF MatchInv, ViewInv, Shape
      <4>3. Indicator' = Indicator /\ Indicator \in Nat
        BY <2>1, <2>5 DEF Indicator, Track, Add, Evicting
      <4>4. TotalDisplayLines' - 1 = Len(Shown) + Indicator
        <5>1. Len(Shown') = Len(Shown) + 1 /\ Len(Shown) \in Nat
          BY <4>2
        <5>2. TotalDisplayLines' = Len(Shown') + Indicator
          BY <4>3 DEF TotalDisplayLines
        <5> QED BY <4>3, <5>1, <5>2
      <4> DEFINE x == [line |-> Len(Shown) + Indicator, col |-> Column[l]]
      <4>5. LineMatches(l, TotalDisplayLines' - 1) = IF l \in search THEN <<x>> ELSE <<>>
        BY <4>4 DEF LineMatches
      <4>6. x \in MatchPosition /\ matchPositions \in Seq(MatchPosition)
        BY <4>2, <4>3, LogViewAssumption DEF MatchPosition, MatchInv, SearchTyped
      <4> HIDE DEF x
      <4>7. matchPositions \o <<x>> = Append(matchPositions, x) /\ matchPositions \o <<>> = matchPositions
        BY <4>6
      <4> QED BY <2>1, <3>2, <4>1, <4>5, <4>7 DEF x
    <3> QED BY <3>1, <3>2
  <2>6. search = Off => matchPositions' = matchPositions
    BY <2>3, <2>4
  <2>7. search # Off /\ Evicting => matchPositions' = RebuiltMatches'
    BY <2>3
  <2> QED BY <2>1, <2>2, <2>4a, <2>5, <2>6, <2>7, LineKeepsMatches
<1>2. CASE InsertMarker
  <2>1. Track(Marker, TRUE) /\ Includes(Marker, TRUE) /\ Marker \in Line
    BY <1>2, LogViewAssumption DEF InsertMarker, Includes
  <2>2. matchPositions' = IF search # Off /\ Evicting THEN RebuiltMatches' ELSE matchPositions
    BY <1>2 DEF InsertMarker
  <2> QED BY <2>1, <2>2, LineKeepsMatches
<1>3. CASE ClearAndRestart
  BY <1>3, NoSearch DEF ClearAndRestart
<1> QED BY <1>1, <1>2, <1>3 DEF Arrive

\* Searching, filtering and stepping through matches.
LEMMA FindKeepsMatches ==
  ASSUME MatchInv, Find, ViewInv'
  PROVE  SearchTyped' /\ (MatchesFound => MatchesFound' \/ ClearFilter)
<1>1. ASSUME NEW p \in Pattern, ApplyFilter(p) \/ ApplySearch(p) PROVE SearchTyped' /\ MatchesFound'
  <2>1. search' \in {p, search} /\ matchPositions' = RebuiltMatches'
    BY <1>1 DEF ApplyFilter, ApplySearch, RebuildViewportContent
  <2>2. search' \in Pattern \cup {Off}
    BY <2>1 DEF MatchInv, SearchTyped
  <2> QED BY <2>1, <2>2, RebuildFinds
<1>2. CASE ClearSearch
  BY <1>2, NoSearch DEF ClearSearch
<1>3. CASE ClearFilter
  BY <1>3 DEF ClearFilter, searchVars, MatchInv, SearchTyped
<1>4. CASE SearchNext \/ SearchPrev
  BY <1>4, MatchesKept DEF SearchNext, SearchPrev, GoToMatch
<1> QED BY <1>1, <1>2, <1>3, <1>4 DEF Find

\* Scrolling, toggling and resizing.
LEMMA LookKeepsMatches ==
  ASSUME MatchInv, Look, ViewInv'
  PROVE  SearchTyped' /\ (MatchesFound => MatchesFound')
<1>1. CASE ToggleSyntax /\ search # Off
  <2>1. search' = search /\ matchPositions' = RebuiltMatches'
    BY <1>1 DEF ToggleSyntax, RebuildViewportContent
  <2>2. search' \in Pattern \cup {Off}
    BY <2>1 DEF MatchInv, SearchTyped
  <2> QED BY <2>1, <2>2, RebuildFinds
<1>2. ASSUME ~(ToggleSyntax /\ search # Off)
      PROVE  UNCHANGED <<ringVars, filterVars, search, matchPositions>>
  BY <1>2 DEF Look, ScrollUp, ScrollDown, GotoTop, GotoBottom, ToggleAutoscroll, ToggleWrap,
              ToggleSyntax, SetSize, contentVars, searchVars
<1> QED BY <1>1, <1>2, MatchesKept

\* Every step, in one.
LEMMA MatchStep ==
  ASSUME MatchInv, [Next]_vars
  PROVE  MatchInv' /\ (MatchesFound => MatchesFound' \/ ClearFilter)
<1>1. ViewInv'
  BY ArriveKeeps, FindKeeps, LookKeeps, ViewKept DEF MatchInv, Next, vars, contentsVars, sizeVars
<1>2. CASE UNCHANGED vars
  BY <1>1, <1>2, MatchesKept DEF MatchInv, vars, searchVars
<1> QED BY <1>1, <1>2, ArriveKeepsMatches, FindKeepsMatches, LookKeepsMatches DEF Next, MatchInv

\* The inductive invariant of the matches.
LEMMA MatchInvariant == Spec => []MatchInv
<1>1. Init => MatchInv
  <2>1. <<>> \in Seq(MatchPosition)
    OBVIOUS
  <2> QED BY <2>1, ViewBegins DEF Init, MatchInv, SearchTyped
<1>2. MatchInv /\ [Next]_vars => MatchInv'
  BY MatchStep
<1> QED BY <1>1, <1>2, PTL DEF Spec

\* For any lines, patterns and capacity the matches a search found stay those of the
\* lines on display, whatever arrives, leaves or is filtered away; only ClearFilter
\* loses them.
THEOREM MatchesFollowTheDisplay == Spec => MatchesStayExact
<1>1. MatchInv /\ [Next]_vars => [MatchesAreExact => MatchesAreExact' \/ ClearFilter]_vars
  <2> SUFFICES ASSUME MatchInv, [Next]_vars, MatchesAreExact PROVE MatchesAreExact' \/ ClearFilter
    OBVIOUS
  <2>1. MatchesFound
    BY MatchesAre
  <2>2. MatchesFound' \/ ClearFilter
    BY <2>1, MatchStep
  <2>3. MatchesFound' <=> MatchesAreExact'
    BY MatchesAre, PTL
  <2> QED BY <2>2, <2>3
<1> QED BY <1>1, MatchInvariant, PTL DEF Spec, MatchesStayExact
-----------------------------------------------------------------------------
(* The selected match.                                                     *)

\* A quotient, and what is not above it.
LEMMA Quotient ==
  ASSUME NEW a \in Nat, NEW c \in Nat \ {0}
  PROVE  a \div c \in Nat /\ (a \div c) * c <= a /\ a < (a \div c) * c + c
OBVIOUS

LEMMA QuotientAbove ==
  ASSUME NEW a \in Nat, NEW c \in Nat \ {0}, NEW q \in Nat, q * c <= a
  PROVE  q <= a \div c
<1> DEFINE d == a \div c
<1>1. d \in Nat /\ a < d * c + c
  BY Quotient
<1> HIDE DEF d
<1>2. ASSUME d + 1 <= q PROVE FALSE
  <2>1. (d + 1) * c <= q * c
    BY <1>1, <1>2
  <2>2. (d + 1) * c = d * c + c
    BY <1>1
  <2>3. d * c \in Nat /\ q * c \in Nat
    BY <1>1
  <2> QED BY <1>1, <2>1, <2>2, <2>3
<1>3. q <= d
  BY <1>1, <1>2
<1> QED BY <1>3 DEF d

\* The row of a line ensureMatchVisible takes a column to be in.
RowOf(col) == IF col >= width THEN 1 + (col - width) \div ContinuationWidth ELSE 0

LEMMA RowOfTyped ==
  ASSUME width \in Nat \ {0}, NEW col \in Nat PROVE RowOf(col) \in Nat
<1> DEFINE c == ContinuationWidth
           a == col - width
<1>1. c \in Nat \ {0}
  BY DEF ContinuationWidth
<1>2. CASE col >= width
  <2>1. a \in Nat
    BY <1>2
  <2> HIDE DEF a, c
  <2>2. a \div c \in Nat
    BY <1>1, <2>1, Quotient
  <2> QED BY <1>2, <2>2 DEF RowOf, a, c
<1>3. CASE ~(col >= width)
  BY <1>3 DEF RowOf
<1> QED BY <1>2, <1>3

\* That row is one of the line's, and holds the column.
LEMMA RowHolds ==
  ASSUME width \in Nat \ {0}, NEW l \in Line, NEW col \in Nat, col < LineWidth[l]
  PROVE  RowOf(col) + 1 \in 1..WrapHeight(l) /\ HoldsColumn(RowOf(col) + 1, col)
<1> DEFINE c == ContinuationWidth
           w == LineWidth[l]
           h == WrapHeight(l)
           r == RowOf(col)
<1>1. c \in Nat \ {0} /\ w \in Nat \ {0} /\ h \in Nat \ {0}
  BY HeightTyped, LogViewAssumption DEF ContinuationWidth, Shape
<1>2. l # NoLine
  BY RingAssumption
<1>3. w <= width => h = 1
  BY DEF WrapHeight
<1>4. w > width => h = 1 + (w - width + c - 1) \div c
  BY <1>1, <1>2 DEF WrapHeight
<1>5. r = IF col >= width THEN 1 + (col - width) \div c ELSE 0
  BY DEF RowOf
<1>6. HoldsColumn(r + 1, col) <=> /\ r + 1 > 1 => width + ((r + 1) - 2) * c <= col
                                  /\ col < width + ((r + 1) - 1) * c
  BY DEF HoldsColumn
<1>7. col < w
  OBVIOUS
<1> HIDE DEF c, w, h, r
<1>8. CASE col < width
  <2>1. r = 0
    BY <1>5, <1>8
  <2>2. ((r + 1) - 1) * c = 0
    BY <1>1, <2>1
  <2> QED BY <1>1, <1>6, <1>8, <2>1, <2>2 DEF r, h
<1>9. CASE col >= width
  <2> DEFINE a == col - width
             q == a \div c
             b == w - width + c - 1
  <2>1. a \in Nat /\ b \in Nat /\ a + c <= b /\ w > width
    BY <1>1, <1>7, <1>9
  <2>2. q \in Nat /\ q * c <= a /\ a < q * c + c
    BY <1>1, <2>1, Quotient
  <2>3. (q + 1) * c = q * c + c /\ q * c \in Nat
    BY <1>1, <2>2
  <2>4. r = 1 + q
    BY <1>5, <1>9
  <2>5. h = 1 + b \div c
    BY <1>4, <2>1
  <2>6. a = col - width
    OBVIOUS
  <2>7. b \div c \in Nat
    BY <1>1, <2>1, Quotient
  <2> HIDE DEF a, q, b
  <2>8. (q + 1) * c <= b
    BY <1>1, <2>1, <2>2, <2>3
  <2>9. q + 1 <= b \div c
    BY <1>1, <2>1, <2>2, <2>8, QuotientAbove
  <2>10. r + 1 \in 1..h
    BY <2>2, <2>4, <2>5, <2>7, <2>9
  <2>11. (r + 1) - 2 = q /\ (r + 1) - 1 = q + 1
    BY <2>2, <2>4
  <2> DEFINE u == q * c
  <2>12a. u \in Nat /\ u <= a /\ a < u + c /\ (q + 1) * c = u + c
    BY <2>2, <2>3
  <2> HIDE DEF u
  <2>12b. width + u <= col /\ col < width + (u + c)
    BY <1>1, <2>6, <2>12a
  <2>12. width + q * c <= col /\ col < width + (q + 1) * c
    BY <2>12a, <2>12b DEF u
  <2> QED BY <1>6, <2>10, <2>11, <2>12 DEF r, h
<1>10. CASE ~(col < width) /\ ~(col >= width)
  BY <1>10
<1> QED BY <1>8, <1>9, <1>10

\* The rows above the r-th of line n.
Above(s, n, r) == {x \in RowsIn(s) : x[1] < n \/ (x[1] = n /\ x[2] < r)}

\* They are those of the lines above, and r - 1 of the line's own; there are more rows.
LEMMA RowsAbove ==
  ASSUME width \in Nat \ {0}, NEW s \in Seq(Shape), NEW n \in DOMAIN s,
         NEW r \in 1..WrapHeight(s[n])
  PROVE  /\ Cardinality(Above(s, n, r)) = RowsOf(SubSeq(s, 1, n - 1)) + (r - 1)
         /\ Cardinality(Above(s, n, r)) \in Nat /\ Cardinality(Above(s, n, r)) < RowsOf(s)
<1> DEFINE t == SubSeq(s, 1, n - 1)
           own == {n} \X (1..(r - 1))
           h == WrapHeight(s[n])
<1>1. n \in Nat \ {0} /\ n <= Len(s) /\ Len(s) \in Nat /\ DOMAIN s = 1..Len(s) /\ s[n] \in Shape
  OBVIOUS
<1>2. t \in Seq(Shape) /\ Len(t) = n - 1 /\ DOMAIN t = 1..(n - 1)
      /\ \A k \in 1..(n - 1) : t[k] = s[k]
  BY <1>1
<1>3. h \in Nat /\ r \in Nat \ {0} /\ r <= h
  BY <1>1, HeightTyped
<1>4. \A x : x \in RowsIn(s) <=> \E k \in 1..Len(s) : \E i \in 1..WrapHeight(s[k]) : x = <<k, i>>
  BY <1>1 DEF RowsIn
<1> HIDE DEF t
<1>5a. \A x : x \in RowsIn(t) <=> \E k \in 1..(n - 1) : \E i \in 1..WrapHeight(t[k]) : x = <<k, i>>
  BY <1>2 DEF RowsIn
<1>5. \A x : x \in RowsIn(t) <=> \E k \in 1..(n - 1) : \E i \in 1..WrapHeight(s[k]) : x = <<k, i>>
  BY <1>2, <1>5a
<1>6. Above(s, n, r) = RowsIn(t) \cup own
  <2>1. ASSUME NEW x \in Above(s, n, r) PROVE x \in RowsIn(t) \cup own
    <3>1. x \in RowsIn(s) /\ (x[1] < n \/ (x[1] = n /\ x[2] < r))
      BY <2>1 DEF Above
    <3>2. PICK k \in 1..Len(s) : \E i \in 1..WrapHeight(s[k]) : x = <<k, i>>
      BY <1>4, <3>1
    <3>3. PICK i \in 1..WrapHeight(s[k]) : x = <<k, i>>
      BY <3>2
    <3>4. k < n \/ (k = n /\ i < r)
      BY <3>1, <3>3
    <3>5. CASE k < n
      <4>1. k \in 1..(n - 1)
        BY <1>1, <3>5
      <4> QED BY <1>5, <3>3, <4>1
    <3>6. CASE k = n /\ i < r
      <4>1. i \in 1..(r - 1)
        BY <1>3, <3>6
      <4> QED BY <3>3, <3>6, <4>1
    <3> QED BY <3>4, <3>5, <3>6
  <2>2. ASSUME NEW x \in RowsIn(t) PROVE x \in Above(s, n, r)
    <3>1. PICK k \in 1..(n - 1) : \E i \in 1..WrapHeight(s[k]) : x = <<k, i>>
      BY <1>5
    <3>2. k \in 1..Len(s) /\ k < n
      BY <1>1
    <3>3. x \in RowsIn(s) /\ x[1] = k
      BY <1>4, <3>1, <3>2
    <3> QED BY <3>2, <3>3 DEF Above
  <2>3. ASSUME NEW x \in own PROVE x \in Above(s, n, r)
    <3>1. PICK i \in 1..(r - 1) : x = <<n, i>>
      OBVIOUS
    <3>2. i \in 1..h /\ i < r
      BY <1>3
    <3>3. x \in RowsIn(s) /\ x[1] = n /\ x[2] = i
      BY <1>1, <1>4, <3>1, <3>2
    <3> QED BY <3>2, <3>3 DEF Above
  <2> QED BY <2>1, <2>2, <2>3
<1>7. RowsIn(t) \cap own = {}
  <2>1. ASSUME NEW x \in RowsIn(t), x \in own PROVE FALSE
    <3>1. PICK k \in 1..(n - 1) : \E i \in 1..WrapHeight(s[k]) : x = <<k, i>>
      BY <1>5
    <3>2. x[1] = k /\ x[1] = n
      BY <2>1, <3>1
    <3> QED BY <1>1, <3>2
  <2> QED BY <2>1
<1> HIDE DEF own
<1>8. IsFiniteSet(own) /\ Cardinality(own) = r - 1 /\ r - 1 \in Nat
  <2> DEFINE i == r - 1
  <2>1. i \in Nat
    BY <1>3
  <2>2. own = {n} \X (1..i)
    BY DEF own
  <2> HIDE DEF i
  <2>3. IsFiniteSet(own) /\ Cardinality(own) = i
    BY <2>1, <2>2, RowsOfLine
  <2> QED BY <2>1, <2>3 DEF i
<1>9. IsFiniteSet(RowsIn(t)) /\ Cardinality(RowsIn(t)) = RowsOf(t) /\ RowsOf(t) \in Nat
  BY <1>2, RowsFinite DEF RowsOf
<1>10. Cardinality(RowsIn(t) \cup own)
         = Cardinality(RowsIn(t)) + Cardinality(own) - Cardinality(RowsIn(t) \cap own)
  BY <1>8, <1>9, FS_Union
<1>11. Cardinality(RowsIn(t) \cap own) = 0
  BY <1>7, FS_EmptySet
<1>12. Cardinality(Above(s, n, r)) = RowsOf(t) + (r - 1)
  BY <1>6, <1>8, <1>9, <1>10, <1>11
<1>13. <<n, r>> \in RowsIn(s) /\ <<n, r>> \notin Above(s, n, r)
  <2>1. r \in 1..h
    BY <1>3
  <2>2. <<n, r>> \in RowsIn(s)
    BY <1>1, <1>4, <2>1
  <2> QED BY <1>1, <1>3, <2>2 DEF Above
<1>14. IsFiniteSet(RowsIn(s)) /\ RowsOf(s) = Cardinality(RowsIn(s)) /\ RowsOf(s) \in Nat
  BY RowsFinite DEF RowsOf
<1>15. Above(s, n, r) \subseteq RowsIn(s)
  BY DEF Above
<1>16. Cardinality(Above(s, n, r)) < Cardinality(RowsIn(s))
  <2> DEFINE A == Above(s, n, r)
             R == RowsIn(s)
  <2>1. A \subseteq R /\ A # R /\ IsFiniteSet(R)
    BY <1>13, <1>14, <1>15
  <2> HIDE DEF A, R
  <2>1a. A \in SUBSET R
    BY <2>1
  <2>1b. IsFiniteSet(A) /\ Cardinality(A) <= Cardinality(R) /\ Cardinality(R) # Cardinality(A)
    BY <2>1, <2>1a, FS_Subset
  <2>1c. Cardinality(A) \in Nat /\ Cardinality(R) \in Nat
    BY <2>1, <2>1b, FS_CardinalityType
  <2>2. Cardinality(A) < Cardinality(R)
    BY <2>1b, <2>1c
  <2> QED BY <2>2 DEF A, R
<1>17. Cardinality(Above(s, n, r)) \in Nat
  BY <1>8, <1>9, <1>12
<1> QED BY <1>12, <1>14, <1>16, <1>17 DEF t

\* Bring and Clamp leave x in the window, if it is one of total.
LEMMA Brings ==
  ASSUME height \in Nat \ {0}, NEW x \in Nat, NEW total \in Nat, x < total, NEW top \in Int,
         NEW y, y = Clamp(Bring(x, top), AtLeast0(total - height))
  PROVE  x \in y..(y + height - 1)
<1> DEFINE b == Bring(x, top)
           m == AtLeast0(total - height)
<1>1. b \in Int /\ b <= x /\ x < b + height
  BY DEF Bring
<1>2. m \in Nat /\ total <= m + height
  BY DEF AtLeast0
<1>3. y = IF b > m THEN m ELSE IF b < 0 THEN 0 ELSE b
  BY DEF Clamp, AtLeast0
<1> HIDE DEF b, m
<1>4. y \in Int /\ y <= x /\ x <= y + height - 1
  BY <1>1, <1>2, <1>3
<1> QED BY <1>4

\* The ring holds lines, and no empty slots between them.
LinesListed == All \in Seq(Line)

LEMMA RingHoldsLines == RingSpec => []LinesListed
<1>1. RingInit => LinesListed
  <2>1. <<>> \in Seq(Line)
    OBVIOUS
  <2>2. RingInit => All = <<>>
    BY DEF RingInit, All, Slice
  <2> QED BY <2>1, <2>2 DEF LinesListed
<1>2. RingTypeOK /\ LinesListed /\ [RingNext]_ringVars => LinesListed'
  <2> SUFFICES ASSUME RingTypeOK, LinesListed, [RingNext]_ringVars PROVE LinesListed'
    OBVIOUS
  <2>1. CASE UNCHANGED ringVars
    BY <2>1 DEF LinesListed, ringVars, All, Slice, PhysIdx
  <2>2. CASE RingReset
    <3>1. <<>> \in Seq(Line)
      OBVIOUS
    <3>2. All' = <<>>
      BY <2>2 DEF RingReset, All, Slice
    <3> QED BY <3>1, <3>2 DEF LinesListed
  <2>3. ASSUME NEW l \in Line, Add(l) PROVE LinesListed'
    <3> DEFINE kept == Log!Kept
               m == count - Leaving
    <3>1. /\ All' = Append(kept, l) /\ kept \in Seq(Shape) /\ Len(kept) = m
          /\ \A n \in 1..m : kept[n] = All[n + Leaving]
          /\ Leaving \in {0, 1} /\ Leaving <= count /\ Len(All) = count
      BY <2>3, RingGrows
    <3>2. count \in Nat /\ m \in Nat
      BY <3>1 DEF RingTypeOK
    <3>3. ASSUME NEW n \in 1..m PROVE kept[n] \in Line
      <4>1. n + Leaving \in 1..Len(All)
        BY <3>1, <3>2
      <4> QED BY <3>1, <4>1 DEF LinesListed
    <3> HIDE DEF kept, m
    <3>4. kept \in Seq(Line)
      BY <3>1, <3>2, <3>3
    <3> QED BY <3>1, <3>4 DEF LinesListed
  <2> QED BY <2>1, <2>2, <2>3 DEF RingNext
<1> QED BY <1>1, <1>2, RingTyped, PTL DEF RingSpec

\* So does the display, filtered or not.
LEMMA ShownHoldsLines ==
  ASSUME ViewInv, LinesListed, NEW n \in DOMAIN Shown PROVE Shown[n] \in Line
<1>1. CASE filter = Off
  <2>1. Shown = All
    BY <1>1 DEF Shown
  <2> QED BY <2>1 DEF LinesListed
<1>2. CASE filter # Off
  <2>1. ShownIsListed
    BY ShownLists DEF ViewInv
  <2>2. n \in DOMAIN filteredIndices /\ Shown[n] = All[filteredIndices[n] - filteredIndexOffset + 1]
    BY <1>2, <2>1 DEF ShownIsListed
  <2>3. filteredIndices[n] - filteredIndexOffset + 1 \in DOMAIN All
    BY <1>2, <2>2, FiltersMeans DEF ViewInv, FilterHolds
  <2> QED BY <2>2, <2>3 DEF LinesListed
<1> QED BY <1>1, <1>2

\* What the viewport is clamped with, and where it is.
Measured == TotalDisplayLines \in Nat /\ (softWrap => totalWrappedRows \in Nat)
ScrollTyped == height \in Nat \ {0} /\ scrollOffset \in Int /\ wrapYOffset \in Int

LEMMA ViewMeasured == ViewInv => Measured
<1> SUFFICES ASSUME ViewInv PROVE Measured
  OBVIOUS
<1>1. Shown \in Seq(Shape) /\ Indicator \in Nat /\ width \in Nat \ {0}
  BY ShownTyped DEF ViewInv, ViewTyped, Indicator
<1>2. RowsOf(Shown) \in Nat /\ (softWrap => totalWrappedRows = RowsOf(Shown) + Indicator)
  BY <1>1, RowsFinite DEF ViewInv, RowsAreCounted, RowsOf
<1>3. Len(Shown) \in Nat
  BY <1>1
<1> QED BY <1>1, <1>2, <1>3 DEF Measured, TotalDisplayLines

\* Every method that moves the viewport moves it to a place.
LEMMA ViewportPlaces ==
  ASSUME Measured', height' \in Nat \ {0}, NEW scroll \in Int, NEW row \in Int,
         UpdateViewport(scroll, row)
  PROVE  ScrollTyped'
<1>1. CASE softWrap'
  <2>1. scrollOffset' = scroll
    BY <1>1 DEF UpdateViewport
  <2>2. MaxWrapScroll' \in Int
    BY <1>1 DEF Measured, MaxWrapScroll, AtLeast0
  <2>3. wrapYOffset' = IF autoscroll' THEN MaxWrapScroll' ELSE Clamp(row, MaxWrapScroll')
    BY <1>1 DEF UpdateViewport
  <2>4. wrapYOffset' \in Int
    BY <2>2, <2>3 DEF Clamp, AtLeast0
  <2> QED BY <2>1, <2>4 DEF ScrollTyped
<1>2. CASE ~softWrap'
  <2>1. wrapYOffset' = row /\ scrollOffset' = Clamp(scroll, MaxScroll')
    BY <1>2 DEF UpdateViewport
  <2> DEFINE d == TotalDisplayLines' - height'
  <2>2a. d \in Int
    BY DEF Measured
  <2>2b. MaxScroll' = IF d < 0 THEN 0 ELSE d
    BY DEF MaxScroll, AtLeast0
  <2> HIDE DEF d
  <2>2. MaxScroll' \in Int
    BY <2>2a, <2>2b
  <2>3. scrollOffset' \in Int
    BY <2>1, <2>2 DEF Clamp, AtLeast0
  <2> QED BY <2>1, <2>3 DEF ScrollTyped
<1> QED BY <1>1, <1>2

LEMMA FollowedTyped ==
  ASSUME ScrollTyped, Measured', height' \in Nat \ {0} PROVE FollowedScroll \in Int
BY DEF ScrollTyped, Measured, FollowedScroll

LEMMA BringTyped ==
  ASSUME height \in Nat \ {0}, NEW x \in Int, NEW top \in Int PROVE Bring(x, top) \in Int
BY DEF Bring

MatchSeenInv == MatchInv /\ ScrollTyped

\* Every step leaves the viewport somewhere.
LEMMA ScrollStays ==
  ASSUME MatchSeenInv, [Next]_vars PROVE MatchSeenInv'
<1>0. MatchInv' /\ Measured' /\ Measured
  BY MatchStep, ViewMeasured, PTL DEF MatchSeenInv, MatchInv
<1> SUFFICES ScrollTyped'
  BY <1>0 DEF MatchSeenInv
<1>1. height \in Nat \ {0} /\ scrollOffset \in Int /\ wrapYOffset \in Int
  BY DEF MatchSeenInv, ScrollTyped
<1>2. ASSUME height' \in Nat \ {0} PROVE FollowedScroll \in Int
  BY <1>0, <1>2, FollowedTyped DEF MatchSeenInv
<1>3. ASSUME height' = height, UpdateViewport(FollowedScroll, wrapYOffset) PROVE ScrollTyped'
  BY <1>0, <1>1, <1>2, <1>3, ViewportPlaces
<1>4. ASSUME height' \in Nat \ {0}, UpdateViewport(scrollOffset, wrapYOffset) PROVE ScrollTyped'
  BY <1>0, <1>1, <1>4, ViewportPlaces
<1>5. ASSUME height' = height, UNCHANGED scrollVars PROVE ScrollTyped'
  BY <1>1, <1>5 DEF scrollVars, ScrollTyped
<1>6. CASE UNCHANGED vars
  BY <1>5, <1>6 DEF vars, sizeVars
<1>7. CASE Arrive
  <2>1. ASSUME NEW l \in Line, AppendLine(l) PROVE ScrollTyped'
    <3>1. height' = height
      BY <2>1 DEF AppendLine, Track, sizeVars
    <3>2. UpdateViewport(FollowedScroll, wrapYOffset) \/ UNCHANGED scrollVars
      BY <2>1 DEF AppendLine
    <3> QED BY <1>3, <1>5, <3>1, <3>2
  <2>2. CASE InsertMarker
    BY <1>3, <2>2 DEF InsertMarker, Track, sizeVars
  <2>3. CASE ClearAndRestart
    BY <1>1, <2>3 DEF ClearAndRestart, ScrollTyped, sizeVars
  <2> QED BY <1>7, <2>1, <2>2, <2>3 DEF Arrive
<1>8. CASE Find
  <2>1. ASSUME NEW p \in Pattern, ApplyFilter(p) \/ ApplySearch(p) PROVE ScrollTyped'
    <3>1. height' = height /\ UpdateViewport(scrollOffset, wrapYOffset)
      BY <2>1 DEF ApplyFilter, ApplySearch, RebuildViewportContent, sizeVars
    <3> QED BY <1>1, <1>4, <3>1
  <2>2. CASE ClearSearch \/ ClearFilter
    <3>1. height' = height /\ UpdateViewport(scrollOffset, wrapYOffset)
      BY <2>2 DEF ClearSearch, ClearFilter, sizeVars
    <3> QED BY <1>1, <1>4, <3>1
  <2>3. ASSUME NEW i, GoToMatch(i) PROVE ScrollTyped'
    <3>1. height' = height /\ UNCHANGED <<ringVars, filterVars, width>>
      BY <2>3 DEF GoToMatch, sizeVars
    <3>2. CASE i \in 0..(Len(matchPositions) - 1)
      <4> DEFINE pos == matchPositions[i + 1]
      <4>1. pos \in MatchPosition
        <5>1. matchPositions \in Seq(MatchPosition)
          BY DEF MatchSeenInv, MatchInv, SearchTyped
        <5>2. i + 1 \in 1..Len(matchPositions)
          BY <3>2, <5>1
        <5> QED BY <5>1, <5>2
      <4>2. \/ UpdateViewport(scrollOffset, Bring(VisualRow(pos), wrapYOffset)) /\ softWrap
            \/ UpdateViewport(Bring(pos.line, scrollOffset), wrapYOffset)
        BY <2>3, <3>2 DEF GoToMatch
      <4>3. VisualRow(pos) \in Int
        <5> DEFINE above == AtLeast0(pos.line - Indicator)
                   k == IF above < Len(Shown) THEN above ELSE Len(Shown)
                   t == SubSeq(Shown, 1, k)
        <5>1. Shown \in Seq(Shape) /\ Indicator \in Nat /\ width \in Nat \ {0}
          BY ShownTyped DEF MatchSeenInv, MatchInv, ViewInv, ViewTyped, Indicator
        <5>2. pos.line \in Nat /\ pos.col \in Nat
          BY <4>1 DEF MatchPosition
        <5>3. k \in 0..Len(Shown)
          BY <5>1, <5>2 DEF AtLeast0
        <5> HIDE DEF k
        <5>4. t \in Seq(Shape)
          BY <5>1, <5>3
        <5> HIDE DEF t
        <5>5. RowsOf(t) \in Nat
          BY <5>1, <5>4, RowsFinite
        <5>6. RowOf(pos.col) \in Nat
          BY <5>1, <5>2, RowOfTyped
        <5>7. VisualRow(pos) = Indicator + RowsOf(t) + RowOf(pos.col)
          BY DEF VisualRow, RowOf, t, k
        <5> QED BY <5>1, <5>5, <5>6, <5>7
      <4>4. pos.line \in Int
        BY <4>1 DEF MatchPosition
      <4>5. Bring(VisualRow(pos), wrapYOffset) \in Int /\ Bring(pos.line, scrollOffset) \in Int
        BY <1>1, <4>3, <4>4, BringTyped
      <4> QED BY <1>0, <1>1, <3>1, <4>2, <4>5, ViewportPlaces
    <3>3. CASE ~(i \in 0..(Len(matchPositions) - 1))
      <4>1. UpdateViewport(scrollOffset, wrapYOffset)
        BY <2>3, <3>3 DEF GoToMatch
      <4> QED BY <1>1, <1>4, <3>1, <4>1
    <3> QED BY <3>2, <3>3
  <2> QED BY <1>8, <2>1, <2>2, <2>3 DEF Find, SearchNext, SearchPrev
<1>9. CASE Look
  <2>1. ASSUME NEW n \in {1, height}, ScrollUp(n) \/ ScrollDown(n) PROVE ScrollTyped'
    <3>1a. height' = height
      BY <2>1 DEF ScrollUp, ScrollDown, sizeVars
    <3>1b. n \in Nat
      BY <1>1
    <3>1. wrapYOffset - n \in Int /\ wrapYOffset + n \in Int
          /\ scrollOffset - n \in Int /\ scrollOffset + n \in Int
      BY <1>1, <3>1b
    <3>2. \/ UpdateViewport(scrollOffset, wrapYOffset - n)
          \/ UpdateViewport(scrollOffset - n, wrapYOffset)
          \/ UpdateViewport(scrollOffset, wrapYOffset + n)
          \/ UpdateViewport(scrollOffset + n, wrapYOffset)
      BY <2>1 DEF ScrollUp, ScrollDown
    <3> QED BY <1>0, <1>1, <3>1, <3>1a, <3>2, ViewportPlaces
  <2>2. CASE GotoTop
    <3>1. height' = height /\ (UpdateViewport(scrollOffset, 0) \/ UpdateViewport(0, wrapYOffset))
      BY <2>2 DEF GotoTop, sizeVars
    <3> QED BY <1>0, <1>1, <3>1, ViewportPlaces
  <2>3. CASE GotoBottom
    BY <1>3, <2>3 DEF GotoBottom, sizeVars
  <2>4. CASE ToggleAutoscroll
    BY <1>3, <1>5, <2>4 DEF ToggleAutoscroll, sizeVars
  <2>5. CASE ToggleWrap
    <3>1. height' = height
          /\ (UpdateViewport(FollowedScroll, 0) \/ UpdateViewport(FollowedScroll, wrapYOffset))
      BY <2>5 DEF ToggleWrap, sizeVars
    <3> QED BY <1>0, <1>1, <1>2, <3>1, ViewportPlaces
  <2>6. CASE ToggleSyntax
    <3>1. height' = height /\ UpdateViewport(scrollOffset, wrapYOffset)
      BY <2>6 DEF ToggleSyntax, RebuildViewportContent, sizeVars
    <3> QED BY <1>1, <1>4, <3>1
  <2>7. ASSUME NEW w \in Width, NEW h \in Height, SetSize(w, h) PROVE ScrollTyped'
    <3>1. height' = h /\ UpdateViewport(scrollOffset, wrapYOffset) /\ h \in Nat \ {0}
      BY <2>7, LogViewAssumption DEF SetSize
    <3> QED BY <1>4, <3>1
  <2> QED BY <1>9, <2>1, <2>2, <2>3, <2>4, <2>5, <2>6, <2>7 DEF Look
<1> QED BY <1>6, <1>7, <1>8, <1>9 DEF Next

LEMMA MatchSeenInvariant == Spec => []MatchSeenInv
<1>1. Init => ScrollTyped
  BY LogViewAssumption DEF Init, ScrollTyped
<1>2. Init => MatchInv
  <2>1. <<>> \in Seq(MatchPosition)
    OBVIOUS
  <2> QED BY <2>1, ViewBegins DEF Init, MatchInv, SearchTyped
<1>3. MatchSeenInv /\ [Next]_vars => MatchSeenInv'
  BY ScrollStays
<1> QED BY <1>1, <1>2, <1>3, PTL DEF Spec, MatchSeenInv

LEMMA LinesInvariant == Spec => []LinesListed
BY PanelIsRing, RingHoldsLines, PTL

\* A step to a match brings its row into the window.
LEMMA GoToShows ==
  ASSUME MatchSeenInv, LinesListed, NEW i \in 0..(Len(matchPositions) - 1), GoToMatch(i),
         InALine(matchPositions[i + 1])
  PROVE  SelectedIsShown'
<1> DEFINE pos == matchPositions[i + 1]
           n == LineOf(pos)
           r == RowOf(pos.col) + 1
<1>1. /\ UNCHANGED <<ringVars, filterVars, search, matchPositions, softWrap,
                     totalWrappedRows, width, height>>
      /\ matchIndex' = i /\ autoscroll' = FALSE
  BY DEF GoToMatch, sizeVars
<1>2. Shown' = Shown /\ Indicator' = Indicator
  BY <1>1 DEF ringVars, filterVars, Shown, All, Slice, Get, PhysIdx, Indicator
<1>3. /\ pos \in MatchPosition /\ width \in Nat \ {0} /\ height \in Nat \ {0}
      /\ scrollOffset \in Int /\ wrapYOffset \in Int
      /\ Shown \in Seq(Shape) /\ Indicator \in Nat
  <2>1. matchPositions \in Seq(MatchPosition) /\ ViewTyped /\ ScrollTyped
    BY DEF MatchSeenInv, MatchInv, SearchTyped, ViewInv
  <2>2. i + 1 \in 1..Len(matchPositions)
    BY <2>1
  <2>3. pos \in MatchPosition
    BY <2>1, <2>2
  <2> QED BY <2>1, <2>3, ShownTyped DEF ViewTyped, ScrollTyped, Indicator
<1>4. n \in DOMAIN Shown /\ pos.col < LineWidth[Shown[n]]
  BY DEF InALine
<1>5. pos.line \in Nat /\ pos.col \in Nat /\ n = pos.line - Indicator + 1
  BY <1>3 DEF MatchPosition, LineOf
<1>6. n \in 1..Len(Shown) /\ Len(Shown) \in Nat
  BY <1>3, <1>4
<1>7. SelectedIsShown' <=>
        IF softWrap
          THEN \E q \in 1..WrapHeight(Shown[n]) :
                  /\ HoldsColumn(q, pos.col)
                  /\ RowNumber(n, q) \in wrapYOffset'..(wrapYOffset' + height - 1)
          ELSE pos.line \in scrollOffset'..(scrollOffset' + height - 1)
  BY <1>1, <1>2 DEF SelectedIsShown, LineOf, WrapHeight, HoldsColumn, ContinuationWidth,
                    RowNumber, RowsIn
<1>8. CASE ~softWrap
  <2>1. UpdateViewport(Bring(pos.line, scrollOffset), wrapYOffset) /\ ~softWrap'
    BY <1>1, <1>8 DEF GoToMatch
  <2>2. scrollOffset' = Clamp(Bring(pos.line, scrollOffset), MaxScroll')
    BY <2>1 DEF UpdateViewport
  <2>3. MaxScroll' = AtLeast0(TotalDisplayLines - height)
    BY <1>1, <1>2 DEF MaxScroll, TotalDisplayLines, AtLeast0
  <2>4. TotalDisplayLines = Len(Shown) + Indicator
    BY DEF TotalDisplayLines
  <2> DEFINE total == TotalDisplayLines
             line == pos.line
  <2>5. line \in Nat /\ total \in Nat /\ line < total
    BY <1>3, <1>5, <1>6, <2>4
  <2> HIDE DEF total, line
  <2>6. scrollOffset' = Clamp(Bring(line, scrollOffset), AtLeast0(total - height))
    BY <2>2, <2>3 DEF total, line
  <2>7. line \in scrollOffset'..(scrollOffset' + height - 1)
    BY <1>3, <2>5, <2>6, Brings
  <2> QED BY <1>7, <1>8, <2>7 DEF line
<1>9. CASE softWrap
  <2> DEFINE total == totalWrappedRows
             row == RowNumber(n, r)
  <2>1. r \in 1..WrapHeight(Shown[n]) /\ HoldsColumn(r, pos.col)
    BY <1>3, <1>4, <1>5, ShownHoldsLines, RowHolds DEF MatchSeenInv, MatchInv
  <2>2. row = Indicator + Cardinality(Above(Shown, n, r))
    BY DEF RowNumber, Above
  <2>3. /\ Cardinality(Above(Shown, n, r)) = RowsOf(SubSeq(Shown, 1, n - 1)) + (r - 1)
        /\ Cardinality(Above(Shown, n, r)) \in Nat
        /\ Cardinality(Above(Shown, n, r)) < RowsOf(Shown)
    BY <1>3, <1>4, <2>1, RowsAbove
  <2>4. total = RowsOf(Shown) + Indicator
    BY <1>9 DEF MatchSeenInv, MatchInv, ViewInv, RowsAreCounted, RowsOf
  <2>5. RowsOf(Shown) \in Nat
    BY <1>3, RowsFinite
  <2>6. row \in Nat /\ total \in Nat /\ row < total
    BY <1>3, <2>2, <2>3, <2>4, <2>5
  <2>7. VisualRow(pos) = row
    <3> DEFINE t == SubSeq(Shown, 1, n - 1)
    <3>1. AtLeast0(pos.line - Indicator) = n - 1 /\ n - 1 < Len(Shown)
      BY <1>3, <1>5, <1>6 DEF AtLeast0
    <3>2. VisualRow(pos) = Indicator + RowsOf(t) + RowOf(pos.col)
      BY <3>1 DEF VisualRow, RowOf
    <3>3. r - 1 = RowOf(pos.col) /\ RowOf(pos.col) \in Int
      <4>1. RowOf(pos.col) \in Nat
        BY <1>3, <1>5, RowOfTyped
      <4> QED BY <4>1
    <3>4. RowsOf(t) \in Nat
      <4>1. t \in Seq(Shape)
        BY <1>3, <1>6
      <4> HIDE DEF t
      <4> QED BY <1>3, <4>1, RowsFinite
    <3> HIDE DEF t, r
    <3>5. Cardinality(Above(Shown, n, r)) = RowsOf(t) + (r - 1)
      BY <2>3 DEF t
    <3> QED BY <1>3, <2>2, <3>2, <3>3, <3>4, <3>5
  <2>8. UpdateViewport(scrollOffset, Bring(VisualRow(pos), wrapYOffset)) /\ softWrap'
    BY <1>1, <1>9 DEF GoToMatch
  <2>9. wrapYOffset' = Clamp(Bring(VisualRow(pos), wrapYOffset), MaxWrapScroll')
    BY <1>1, <2>8 DEF UpdateViewport
  <2>10. MaxWrapScroll' = AtLeast0(total - height)
    BY <1>1 DEF MaxWrapScroll, AtLeast0
  <2> HIDE DEF total, row, r
  <2>11. wrapYOffset' = Clamp(Bring(row, wrapYOffset), AtLeast0(total - height))
    BY <2>7, <2>9, <2>10
  <2>12. row \in wrapYOffset'..(wrapYOffset' + height - 1)
    BY <1>3, <2>6, <2>11, Brings
  <2> QED BY <1>7, <1>9, <2>1, <2>12 DEF row
<1> QED BY <1>8, <1>9

\* A match that is exact, and on no marker, is in a line.
LEMMA ExactIsInALine ==
  ASSUME ViewInv, LinesListed, search # Off, MatchesAreExact,
         NEW k \in DOMAIN matchPositions, ~OnMarker(matchPositions[k])
  PROVE  InALine(matchPositions[k])
<1> DEFINE pos == matchPositions[k]
<1>1. pos \in ToSet(matchPositions)
  BY DEF ToSet
<1>2. PICK n \in FoundLines : pos = MatchAt(n)
  BY <1>1 DEF MatchesAreExact
<1>3. n \in DOMAIN Shown /\ Shown[n] \in Line
  BY ShownHoldsLines DEF FoundLines
<1>4. n \in Nat /\ Indicator \in Nat
  BY <1>3, ShownTyped DEF ViewInv, ViewTyped, Indicator
<1>5. pos.line = n - 1 + Indicator /\ pos.col = Column[Shown[n]]
  BY <1>2 DEF MatchAt
<1>6. LineOf(pos) = n
  BY <1>4, <1>5 DEF LineOf
<1> QED BY <1>3, <1>5, <1>6, LogViewAssumption DEF InALine

\* However wide the lines and whatever the size of the viewport, n and N bring the match
\* they step to into the window: of a wrapped view the row that holds its column, since
\* ensureMatchVisible counts wrapped rows as the view does, and of an unwrapped one its line,
\* whatever its column. The clamp of updateViewport never takes the row out again.
THEOREM MatchesAreShown == Spec => MatchIsShown
<1>1. MatchSeenInv /\ LinesListed /\ [Next]_vars => [ShowsMatch => SelectedIsShown']_vars
  <2> SUFFICES ASSUME MatchSeenInv, LinesListed, ShowsMatch PROVE SelectedIsShown'
    OBVIOUS
  <2>1. PICK i : GoToMatch(i)
    BY DEF ShowsMatch, SearchNext, SearchPrev
  <2>2. matchIndex' = i
    BY <2>1 DEF GoToMatch
  <2>3. i \in 0..(Len(matchPositions) - 1) /\ InALine(matchPositions[i + 1])
    BY <2>2 DEF ShowsMatch
  <2> QED BY <2>1, <2>3, GoToShows
<1> QED BY <1>1, MatchSeenInvariant, LinesInvariant, PTL DEF Spec, MatchIsShown
=============================================================================
