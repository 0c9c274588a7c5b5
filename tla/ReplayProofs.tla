---------------------------- MODULE ReplayProofs ----------------------------
(***************************************************************************)
(* Proofs about the recorder, for every set of programs, every number of   *)
(* blocks and every memory: that its assertions hold, and then, as Replay  *)
(* uses it, that the memo-sync tables hold what was read first, that only  *)
(* concrete blocks are dropped, and that the replay leaves the recorder    *)
(* alone.                                                                  *)
(*                                                                         *)
(* First what the steps of the recorder do to its state: to a memo sync    *)
(* table (addMemoSyncTableEntryInternal, for every table of entries that   *)
(* do not overlap), and to its sequences (the lengths that its assertions  *)
(* compare, and the order of the merge points).                            *)
(***************************************************************************)
EXTENDS Replay, WellFoundedInduction, TLAPS

\* A nonempty set of natural numbers has a least element.
LEMMA Least ==
  ASSUME NEW T \in SUBSET Nat, T # {}
  PROVE  \E x \in T : \A y \in T : x <= y
<1>1. PICK x \in T : \A y \in T : ~ (<<y, x>> \in OpToRel(<, Nat))
  BY Zenon, NatLessThanWellFounded, WFMin
<1>2. \A y \in T : ~ (y < x)
  BY Zenon, <1>1 DEF OpToRel
<1> QED BY <1>2

\* A bounded one has a greatest element.
LEMMA Greatest ==
  ASSUME NEW T \in SUBSET Nat, T # {}, NEW b \in Nat, \A y \in T : y <= b
  PROVE  \E x \in T : \A y \in T : y <= x
<1> DEFINE D == {b - y : y \in T}
<1>0. \A y \in T : b - y \in Nat
  OBVIOUS
<1>1. D \in SUBSET Nat /\ D # {}
  BY Zenon, <1>0
<1>2. PICK d \in D : \A e \in D : d <= e
  BY Zenon, <1>1, Least
<1>3. PICK x \in T : d = b - x
  BY <1>2
<1>4. \A y \in T : b - x <= b - y
  BY <1>2, <1>3
<1> QED BY <1>3, <1>4

-----------------------------------------------------------------------------
(* A table: entries of bytes that are not empty and do not overlap.        *)

Entry(B) == {e \in [addr : Nat, data : Seq(B)] : Len(e.data) > 0}
Disjoint(t) == \A e, f \in t : e # f => Covered(e) \cap Covered(f) = {}
InTable(t, x) == \E e \in t : x \in Covered(e)

\* Two entries of a table lie one behind the other.
LEMMA Apart ==
  ASSUME NEW B, NEW t \in SUBSET Entry(B), Disjoint(t), NEW e \in t, NEW f \in t, e # f
  PROVE  e.addr + Len(e.data) <= f.addr \/ f.addr + Len(f.data) <= e.addr
<1> DEFINE a == e.addr  b == f.addr  m == Len(e.data)  n == Len(f.data)
<1>1. a \in Nat /\ b \in Nat /\ m \in Nat /\ n \in Nat /\ m > 0 /\ n > 0
  BY DEF Entry
<1>2. \A x : ~ (x \in a .. (a + m - 1) /\ x \in b .. (b + n - 1))
  BY DEF Disjoint, Covered
<1> HIDE DEF a, b, m, n
<1>a. a \in a .. (a + m - 1) /\ b \in b .. (b + n - 1)
  BY <1>1
<1>3. ~ (a \in b .. (b + n - 1))
  BY <1>2, <1>a, Zenon
<1>4. ~ (b \in a .. (a + m - 1))
  BY <1>2, <1>a, Zenon
<1>5. a + m <= b \/ b + n <= a
  BY <1>1, <1>3, <1>4
<1> QED BY <1>5 DEF a, b, m, n

\* The scan of overlapsMemoSyncEntry finds every entry that overlaps the range.
LEMMA ScanComplete ==
  ASSUME NEW B, NEW t \in SUBSET Entry(B), Disjoint(t), NEW a \in Nat, NEW n \in Nat
  PROVE  overlapsMemoSyncEntry(a, n, t) = {e \in t : Overlap(a, n, e)}
<1>1. ASSUME NEW e \in t, Overlap(a, n, e), NEW f \in t, f.addr < a
      PROVE  f.addr <= e.addr
  <2>1. e.addr \in Nat /\ f.addr \in Nat /\ Len(e.data) \in Nat /\ Len(f.data) \in Nat
    BY DEF Entry
  <2>2. e # f => e.addr + Len(e.data) <= f.addr \/ f.addr + Len(f.data) <= e.addr
    BY Apart
  <2>3. e.addr + Len(e.data) > a
    BY <1>1 DEF Overlap
  <2>4. CASE e = f
    BY <2>1, <2>4
  <2>5. CASE e # f
    BY <1>1, <2>1, <2>2, <2>3, <2>5
  <2> QED BY <2>4, <2>5
<1> QED BY <1>1 DEF overlapsMemoSyncEntry

\* The first and the last of the overlapped entries.
LEMMA FirstAndLast ==
  ASSUME NEW B, NEW S \in SUBSET Entry(B), S # {}, NEW b \in Nat, \A e \in S : e.addr < b
  PROVE  /\ FirstEntry(S) \in S /\ \A e \in S : FirstEntry(S).addr <= e.addr
         /\ LastEntry(S) \in S /\ \A e \in S : e.addr <= LastEntry(S).addr
<1> DEFINE T == {e.addr : e \in S}
<1>1. T \in SUBSET Nat /\ T # {} /\ \A y \in T : y <= b
  BY DEF Entry
<1>2. \E e \in S : \A f \in S : e.addr <= f.addr
  <2>1. PICK x \in T : \A y \in T : x <= y
    BY Zenon, <1>1, Least
  <2> QED BY <2>1
<1>3. \E e \in S : \A f \in S : f.addr <= e.addr
  <2>1. PICK x \in T : \A y \in T : y <= x
    BY Zenon, <1>1, Greatest
  <2> QED BY <2>1
<1> QED BY <1>2, <1>3 DEF FirstEntry, LastEntry

\* The merged entry: it covers the overlapped entries and the new range and nothing else;
\* it keeps the bytes of the overlapped entries and takes the others from the new data.
LEMMA Merged ==
  ASSUME NEW B, NEW t \in SUBSET Entry(B), Disjoint(t), NEW a \in Nat,
         NEW data \in Seq(B), Len(data) > 0,
         NEW over \in SUBSET t, \A e \in over : Overlap(a, Len(data), e), over # {}
  PROVE  LET m == MergedEntry(a, data, over)
         IN  /\ m \in Entry(B)
             /\ \A x : x \in Covered(m) <=> InTable(over, x) \/ x \in a .. (a + Len(data) - 1)
             /\ \A x \in Covered(m) :
                  IF InTable(over, x) THEN \E e \in over : x \in Covered(e) /\ ByteAt(m, x) = ByteAt(e, x)
                                      ELSE ByteAt(m, x) = data[x - a + 1]
<1> DEFINE n == Len(data)  F == FirstEntry(over)  L == LastEntry(over)
           lo == IF F.addr < a THEN F.addr ELSE a
           last == L.addr + Len(L.data)
           hi == IF last > a + n THEN last ELSE a + n
           byte(x) == IF \E e \in over : x \in Covered(e)
                        THEN ByteAt(CHOOSE e \in over : x \in Covered(e), x)
                        ELSE data[x - a + 1]
           d == [i \in 1 .. (hi - lo) |-> byte(lo + i - 1)]
           m == MergedEntry(a, data, over)
<1>1. n \in Nat /\ n > 0 /\ a + n \in Nat
  OBVIOUS
<1>2. /\ over \in SUBSET Entry(B)
      /\ \A e \in over : e \in t /\ e.addr + Len(e.data) > a /\ e.addr < a + n
  BY DEF Overlap
<1>3. /\ F \in over /\ \A e \in over : F.addr <= e.addr
      /\ L \in over /\ \A e \in over : e.addr <= L.addr
  BY Zenon, <1>1, <1>2, FirstAndLast
<1>4. \A e \in over : e.addr \in Nat /\ Len(e.data) \in Nat /\ Len(e.data) > 0 /\ e.data \in Seq(B)
  BY <1>2 DEF Entry
<1>5. m = [addr |-> lo, data |-> d]
  BY DEF MergedEntry
<1> HIDE DEF n, F, L, m
<1>6. /\ lo \in Nat /\ hi \in Nat /\ lo < hi
      /\ lo <= a /\ a + n <= hi /\ lo <= F.addr /\ last <= hi /\ last \in Nat
  BY <1>1, <1>3, <1>4
<1>7. ASSUME NEW e \in over PROVE lo <= e.addr /\ e.addr + Len(e.data) <= hi
  <2>1. lo <= e.addr
    BY <1>3, <1>4, <1>6
  <2>2. e # L => e.addr + Len(e.data) <= L.addr \/ L.addr + Len(L.data) <= e.addr
    BY <1>2, <1>3, Apart
  <2>3. e.addr + Len(e.data) <= last
    <3>1. CASE e = L
      BY <1>3, <1>4, <3>1
    <3>2. CASE e # L
      BY <1>3, <1>4, <2>2, <3>2
    <3> QED BY <3>1, <3>2
  <2> QED BY <1>4, <1>6, <2>1, <2>3
<1>8. ASSUME NEW x \in lo .. (hi - 1), ~InTable(over, x) PROVE x \in a .. (a + n - 1)
  <2>1. x \in Int /\ x >= lo /\ x < hi
    BY <1>6
  <2>2. ~ (x \in Covered(F)) /\ ~ (x \in Covered(L))
    BY <1>3, <1>8 DEF InTable
  <2>3. x >= a
    <3> SUFFICES ASSUME x < a PROVE FALSE
      BY <1>1, <2>1
    <3>1. F.addr <= x /\ x <= F.addr + Len(F.data) - 1
      BY <1>2, <1>3, <1>4, <2>1
    <3> QED BY <1>3, <1>4, <2>1, <2>2, <3>1 DEF Covered
  <2>4. x < a + n
    <3> SUFFICES ASSUME x >= a + n PROVE FALSE
      BY <1>1, <2>1
    <3>1. L.addr <= x /\ x <= L.addr + Len(L.data) - 1
      BY <1>1, <1>2, <1>3, <1>4, <2>1
    <3> QED BY <1>3, <1>4, <2>1, <2>2, <3>1 DEF Covered
  <2> QED BY <1>1, <2>1, <2>3, <2>4
<1>9. ASSUME NEW x, InTable(over, x)
      PROVE  /\ x \in lo .. (hi - 1) /\ byte(x) \in B
             /\ \E e \in over : x \in Covered(e) /\ byte(x) = ByteAt(e, x)
  <2> DEFINE c == CHOOSE e \in over : x \in Covered(e)
  <2>1. c \in over /\ x \in Covered(c)
    BY <1>9 DEF InTable
  <2>2. byte(x) = ByteAt(c, x)
    BY <1>9 DEF InTable
  <2> HIDE DEF c
  <2>3. x \in Int /\ c.addr <= x /\ x <= c.addr + Len(c.data) - 1
    BY <1>4, <2>1 DEF Covered
  <2> HIDE DEF lo, hi, last
  <2>4. x \in lo .. (hi - 1)
    <3>1. lo <= c.addr /\ c.addr + Len(c.data) <= hi
      BY Zenon, <1>7, <2>1
    <3>2. c.addr \in Nat /\ Len(c.data) \in Nat
      BY Zenon, <1>4, <2>1
    <3> QED BY <1>6, <2>3, <3>1, <3>2
  <2>5. x - c.addr + 1 \in 1 .. Len(c.data)
    BY <1>4, <2>1, <2>3
  <2>6. ByteAt(c, x) \in B
    BY <1>4, <2>1, <2>5 DEF ByteAt
  <2> QED BY Zenon, <2>1, <2>2, <2>4, <2>6
<1>10. ASSUME NEW x \in lo .. (hi - 1), ~InTable(over, x) PROVE byte(x) = data[x - a + 1] /\ byte(x) \in B
  <2>1. byte(x) = data[x - a + 1]
    BY <1>10 DEF InTable
  <2>2. x - a + 1 \in 1 .. n
    BY <1>1, <1>8, <1>10
  <2> QED BY <2>1, <2>2 DEF n
<1> HIDE DEF byte
<1>11. \A x \in lo .. (hi - 1) : byte(x) \in B
  BY <1>9, <1>10
<1> DEFINE k == hi - lo
<1> HIDE DEF lo, hi, last
<1>12. k \in Nat /\ k > 0 /\ \A i \in 1 .. k : lo + i - 1 \in lo .. (hi - 1)
  BY <1>6
<1>13. d \in Seq(B) /\ Len(d) = k
  <2> DEFINE g(i) == byte(lo + i - 1)
  <2>1. d = [i \in 1 .. k |-> g(i)]
    BY DEF k
  <2>2. \A i \in 1 .. k : g(i) \in B
    BY <1>11, <1>12
  <2> HIDE DEF k, g
  <2>3. [i \in 1 .. k |-> g(i)] \in Seq(B) /\ Len([i \in 1 .. k |-> g(i)]) = k
    BY <1>12, <2>2
  <2> HIDE DEF d
  <2> QED BY Zenon, <2>1, <2>3
<1>14. m.addr = lo /\ m.data = d /\ m \in Entry(B)
  BY <1>5, <1>6, <1>12, <1>13 DEF Entry
<1>15. Covered(m) = lo .. (hi - 1)
  BY <1>6, <1>13, <1>14 DEF Covered, k
<1>16. ASSUME NEW x \in lo .. (hi - 1) PROVE ByteAt(m, x) = byte(x)
  <2>1. x - lo + 1 \in 1 .. k /\ lo + (x - lo + 1) - 1 = x
    BY <1>6 DEF k
  <2>2. d[x - lo + 1] = byte(lo + (x - lo + 1) - 1)
    BY <2>1 DEF k
  <2> QED BY <1>14, <2>1, <2>2 DEF ByteAt
<1>17. \A x \in a .. (a + n - 1) : x \in lo .. (hi - 1)
  BY <1>1, <1>6
<1> HIDE DEF d
<1>18. \A x : x \in Covered(m) <=> InTable(over, x) \/ x \in a .. (a + n - 1)
  BY <1>8, <1>9, <1>15, <1>17
<1>19. \A x \in Covered(m) :
         IF InTable(over, x) THEN \E e \in over : x \in Covered(e) /\ ByteAt(m, x) = ByteAt(e, x)
                             ELSE ByteAt(m, x) = data[x - a + 1]
  BY <1>9, <1>10, <1>15, <1>16
<1> QED BY <1>14, <1>18, <1>19 DEF m, n

\* A range is added to a table of entries that do not overlap: the entries still do not
\* overlap, they cover what they covered before and the new range, no byte that was there
\* changes, and the others come from the new data (addMemoSyncTableEntryInternal, whose
\* scan begins in the middle of the map and whose copy loop merges several entries).
THEOREM EntryAdded ==
  ASSUME NEW B, NEW t \in SUBSET Entry(B), Disjoint(t), NEW a \in Nat,
         NEW data \in Seq(B), Len(data) > 0
  PROVE  LET u == addMemoSyncTableEntryInternal(a, data, t)
         IN  /\ u \in SUBSET Entry(B) /\ Disjoint(u)
             /\ \A x : InTable(u, x) <=> InTable(t, x) \/ x \in a .. (a + Len(data) - 1)
             /\ \A e \in u : \A x \in Covered(e) :
                  IF InTable(t, x) THEN \E f \in t : x \in Covered(f) /\ ByteAt(e, x) = ByteAt(f, x)
                                   ELSE ByteAt(e, x) = data[x - a + 1]
<1> DEFINE n == Len(data)  over == overlapsMemoSyncEntry(a, n, t)
           m == IF over = {} THEN [addr |-> a, data |-> data] ELSE MergedEntry(a, data, over)
           u == addMemoSyncTableEntryInternal(a, data, t)
<1>1. n \in Nat /\ n > 0
  OBVIOUS
<1>2. over = {e \in t : Overlap(a, n, e)}
  BY <1>1, ScanComplete
<1>3. u = (t \ over) \cup {m}
  BY DEF addMemoSyncTableEntryInternal
<1>4. /\ m \in Entry(B)
      /\ \A x : x \in Covered(m) <=> InTable(over, x) \/ x \in a .. (a + n - 1)
      /\ \A x \in Covered(m) :
           IF InTable(over, x) THEN \E e \in over : x \in Covered(e) /\ ByteAt(m, x) = ByteAt(e, x)
                               ELSE ByteAt(m, x) = data[x - a + 1]
  <2>1. CASE over = {}
    <3>1. m = [addr |-> a, data |-> data]
      BY <2>1
    <3>2. m.addr = a /\ m.data = data /\ m \in Entry(B)
      BY <1>1, <3>1 DEF Entry
    <3>3. Covered(m) = a .. (a + n - 1) /\ \A x : ByteAt(m, x) = data[x - a + 1]
      BY <3>2 DEF Covered, ByteAt
    <3>4. \A x : ~InTable(over, x)
      BY <2>1 DEF InTable
    <3> HIDE DEF m, over, n
    <3> QED BY <3>2, <3>3, <3>4
  <2>2. CASE over # {}
    <3>1. m = MergedEntry(a, data, over)
      BY <2>2
    <3>2. over \in SUBSET t /\ \A e \in over : Overlap(a, n, e)
      BY <1>2
    <3> DEFINE g == MergedEntry(a, data, over)
    <3> HIDE DEF m, over
    <3>3. /\ g \in Entry(B)
          /\ \A x : x \in Covered(g) <=> InTable(over, x) \/ x \in a .. (a + n - 1)
          /\ \A x \in Covered(g) :
               IF InTable(over, x) THEN \E e \in over : x \in Covered(e) /\ ByteAt(g, x) = ByteAt(e, x)
                                   ELSE ByteAt(g, x) = data[x - a + 1]
      BY <2>2, <3>2, Merged
    <3> HIDE DEF g
    <3> QED BY <3>1, <3>3 DEF g
  <2> QED BY Zenon, <2>1, <2>2
<1> HIDE DEF m, over, u, n
<1>5. ASSUME NEW e \in t \ over, NEW x \in Covered(e) PROVE ~ (x \in Covered(m))
  <2>1. ~InTable(over, x)
    BY <1>2, <1>5 DEF InTable, Disjoint
  <2>2. e.addr \in Nat /\ Len(e.data) \in Nat /\ ~Overlap(a, n, e)
    BY <1>2 DEF Entry
  <2>3. ~ (x \in a .. (a + n - 1))
    BY <1>1, <2>2 DEF Overlap, Covered
  <2> QED BY <1>4, <2>1, <2>3
<1>6. Disjoint(u)
  BY <1>2, <1>3, <1>5 DEF Disjoint
<1>7. u \in SUBSET Entry(B)
  BY <1>3, <1>4
<1>8. \A x : InTable(t, x) <=> InTable(t \ over, x) \/ InTable(over, x)
  BY <1>2 DEF InTable
<1>9. \A x : InTable(u, x) <=> InTable(t \ over, x) \/ x \in Covered(m)
  BY <1>3 DEF InTable
<1>10. \A x : InTable(u, x) <=> InTable(t, x) \/ x \in a .. (a + n - 1)
  BY Zenon, <1>4, <1>8, <1>9
<1>11. ASSUME NEW e \in u, NEW x \in Covered(e)
       PROVE  IF InTable(t, x) THEN \E f \in t : x \in Covered(f) /\ ByteAt(e, x) = ByteAt(f, x)
                               ELSE ByteAt(e, x) = data[x - a + 1]
  <2>1. CASE e \in t \ over
    <3>1. InTable(t, x) /\ e \in t
      BY <1>11, <2>1 DEF InTable
    <3> QED BY <1>11, <3>1
  <2>2. CASE e = m
    <3>1. CASE InTable(over, x)
      <4>1. \E f \in over : x \in Covered(f) /\ ByteAt(m, x) = ByteAt(f, x)
        BY <1>4, <1>11, <2>2, <3>1
      <4>2. \E f \in t : x \in Covered(f) /\ ByteAt(e, x) = ByteAt(f, x)
        BY <1>2, <2>2, <4>1
      <4> QED BY <4>2 DEF InTable
    <3>2. CASE ~InTable(over, x)
      <4>1. ~InTable(t, x)
        BY <1>5, <1>8, <1>11, <2>2, <3>2 DEF InTable
      <4>2. ByteAt(m, x) = data[x - a + 1]
        BY <1>4, <1>11, <2>2, <3>2
      <4> QED BY <2>2, <4>1, <4>2
    <3> QED BY <3>1, <3>2
  <2> QED BY <1>3, <2>1, <2>2
<1> QED BY <1>6, <1>7, <1>10, <1>11 DEF u, n

-----------------------------------------------------------------------------
(* The sequences of the recorder.                                          *)

Leaders == {"BackToInterestTb", "OutAndBackTb"}
Kinds == Open \cup Leaders \cup {"OutofInterestTb"}

\* A sequence, whatever its elements are.
IsSequence(s) == s \in Seq(Range(s))

Types ==
  /\ IsSequence(cpuStates) /\ IsSequence(prolog_regs) /\ IsSequence(memoSyncTables)
  /\ IsSequence(tbExecSequ) /\ IsSequence(interruptStates)
  /\ memoMergePoints \in Seq(Kinds)
  /\ count \in Nat
  /\ interested \in BOOLEAN /\ interested_prev \in BOOLEAN /\ dump_enable \in BOOLEAN
  /\ dump_interrupt \in BOOLEAN /\ block \in BOOLEAN /\ asserted \in BOOLEAN

\* A point follows an open one exactly if it is no leader.
Linked(p) ==
  /\ Len(p) > 0 => p[1] \in Leaders
  /\ \A i \in 2 .. Len(p) : p[i] \in Leaders <=> p[i - 1] \notin Open

\* The lengths of the sequences: in a TB of interest, after it, and otherwise.
Lengths(in) ==
  /\ Len(cpuStates) = IF count = 0 THEN 0 ELSE 1
  /\ Len(prolog_regs) = count /\ Len(memoSyncTables) = count /\ Len(memoMergePoints) = count
  /\ interested /\ in =>
       /\ count > 0 /\ ~dump_interrupt
       /\ Len(tbExecSequ) = count - 1 /\ Len(interruptStates) = count - 1
       /\ memoMergePoints[count] = IF interested_prev THEN "NormalTb" ELSE "BackToInterestTb"
  /\ interested /\ ~in =>
       /\ count > 0
       /\ Len(tbExecSequ) = count
       /\ Len(interruptStates) = IF dump_interrupt THEN count ELSE count - 1
       /\ memoMergePoints[count] \in Open
  /\ ~interested =>
       /\ Len(tbExecSequ) = count /\ Len(interruptStates) = count
       /\ count > 0 => memoMergePoints[count] \notin Open
  /\ dump_interrupt => Len(interruptStates) > 0 /\ interruptStates[Len(interruptStates)].valid

\* What holds of the recorder in a TB of the target (in) and between TBs.
Recorder(in) == Types /\ Linked(memoMergePoints) /\ Lengths(in)

-----------------------------------------------------------------------------
(* Sequences.                                                              *)

\* A sequence over some set is a sequence over the set of its elements.
LEMMA OfRange == ASSUME NEW T, NEW s \in Seq(T) PROVE IsSequence(s) /\ Len(s) \in Nat
<1>1. Len(s) \in Nat /\ s \in [1 .. Len(s) -> T]
  OBVIOUS
<1>2. s \in [1 .. Len(s) -> Range(s)]
  BY <1>1 DEF Range
<1> QED BY <1>1, <1>2 DEF IsSequence

LEMMA EmptyIsSequence == IsSequence(<<>>) /\ Len(<<>>) = 0
<1>1. <<>> \in Seq({})
  OBVIOUS
<1> QED BY Zenon, <1>1, OfRange

\* What Append does to a sequence.
LEMMA Appending ==
  ASSUME NEW s, IsSequence(s), NEW x
  PROVE  /\ IsSequence(Append(s, x)) /\ Len(s) \in Nat
         /\ Len(Append(s, x)) = Len(s) + 1
         /\ Append(s, x)[Len(s) + 1] = x
         /\ \A i \in 1 .. Len(s) : Append(s, x)[i] = s[i]
<1> DEFINE T == Range(s) \cup {x}
<1>1. s \in Seq(T)
  BY DEF IsSequence
<1> HIDE DEF T
<1>2. Append(s, x) \in Seq(T \cup {x}) /\ s \in Seq(T \cup {x})
  BY <1>1
<1>3. /\ Len(Append(s, x)) = Len(s) + 1 /\ Len(s) \in Nat
      /\ Append(s, x)[Len(s) + 1] = x
      /\ \A i \in 1 .. Len(s) : Append(s, x)[i] = s[i]
  BY <1>1
<1> QED BY Zenon, <1>2, <1>3, OfRange

\* q is s with x behind it.
Longer(s, x, q) ==
  /\ IsSequence(q) /\ Len(s) \in Nat /\ Len(q) = Len(s) + 1 /\ q[Len(s) + 1] = x
  /\ \A i \in 1 .. Len(s) : q[i] = s[i]

LEMMA Lengthening ==
  ASSUME NEW s, IsSequence(s), NEW x, NEW q, q = Append(s, x)
  PROVE  Longer(s, x, q)
<1>1. Longer(s, x, Append(s, x))
  BY Appending DEF Longer
<1> QED BY Zenon, <1>1

\* What pop_back does to a sequence.
LEMMA Shortening ==
  ASSUME NEW s, IsSequence(s), Len(s) > 0
  PROVE  /\ IsSequence(pop_back(s)) /\ Len(s) \in Nat
         /\ Len(pop_back(s)) = Len(s) - 1
         /\ \A i \in 1 .. (Len(s) - 1) : pop_back(s)[i] = s[i]
<1> DEFINE T == Range(s)
<1>1. s \in Seq(T) /\ Len(s) \in Nat
  BY DEF IsSequence
<1> HIDE DEF T
<1>2. \A i \in 1 .. (Len(s) - 1) : s[i] \in T
  BY <1>1
<1>3. /\ SubSeq(s, 1, Len(s) - 1) \in Seq(T)
      /\ Len(SubSeq(s, 1, Len(s) - 1)) = IF 1 <= Len(s) - 1 THEN Len(s) - 1 - 1 + 1 ELSE 0
      /\ \A i \in 1 .. (Len(s) - 1 - 1 + 1) : SubSeq(s, 1, Len(s) - 1)[i] = s[1 + i - 1]
  <2>1. 1 \in Int /\ Len(s) - 1 \in Int
    BY <1>1
  <2> QED BY <1>2, <2>1
<1> DEFINE u == SubSeq(s, 1, Len(s) - 1)
<1>u. pop_back(s) = u
  BY DEF pop_back
<1>v. /\ u \in Seq(T)
      /\ Len(u) = IF 1 <= Len(s) - 1 THEN Len(s) - 1 - 1 + 1 ELSE 0
      /\ \A i \in 1 .. (Len(s) - 1 - 1 + 1) : u[i] = s[1 + i - 1]
  BY <1>3
<1> HIDE DEF u
<1>w. Len(u) = Len(s) - 1
  <2> DEFINE k == Len(s)  l == Len(u)
  <2>1. k \in Nat /\ k > 0
    BY <1>1
  <2>2. l = IF 1 <= k - 1 THEN k - 1 - 1 + 1 ELSE 0
    BY <1>v
  <2> HIDE DEF k, l
  <2>3. l = k - 1
    BY <2>1, <2>2
  <2> QED BY <2>3 DEF k, l
<1>x. ASSUME NEW i \in 1 .. (Len(s) - 1) PROVE u[i] = s[i]
  <2>1. i \in 1 .. (Len(s) - 1 - 1 + 1) /\ 1 + i - 1 = i
    BY <1>1
  <2> QED BY <1>v, <2>1
<1>4. Len(pop_back(s)) = Len(s) - 1 /\ \A i \in 1 .. (Len(s) - 1) : pop_back(s)[i] = s[i]
  BY <1>u, <1>w, <1>x
<1>5. pop_back(s) \in Seq(T)
  BY <1>u, <1>v
<1> QED BY <1>1, <1>4, <1>5, OfRange

\* What an update of an element does to a sequence.
LEMMA Updating ==
  ASSUME NEW s, IsSequence(s), NEW k \in 1 .. Len(s), NEW x
  PROVE  /\ IsSequence([s EXCEPT ![k] = x])
         /\ Len([s EXCEPT ![k] = x]) = Len(s)
<1> DEFINE T == Range(s) \cup {x}  u == [s EXCEPT ![k] = x]
<1>1. s \in Seq(T) /\ Len(s) \in Nat
  BY DEF IsSequence
<1> HIDE DEF T
<1>2. x \in T
  BY DEF T
<1>3. u \in Seq(T) /\ Len(u) = Len(s)
  BY <1>1, <1>2
<1> QED BY Zenon, <1>3, OfRange

-----------------------------------------------------------------------------
(* Merge points.                                                           *)

LEMMA Closing ==
  ASSUME NEW p \in Seq(Kinds), Linked(p), Len(p) > 0, p[Len(p)] \in Open
  PROVE  /\ CanClose(p)
         /\ CloseLast(p) \in Seq(Kinds) /\ Linked(CloseLast(p))
         /\ Len(CloseLast(p)) = Len(p) /\ CloseLast(p)[Len(p)] \notin Open
<1> DEFINE n == Len(p)
           x == IF p[n] = "NormalTb" THEN "OutofInterestTb" ELSE "OutAndBackTb"
<1>1. n \in Nat /\ n \in 1 .. Len(p) /\ p \in [1 .. n -> Kinds]
  OBVIOUS
<1>2. CloseLast(p) = [p EXCEPT ![n] = x]
  BY DEF CloseLast
<1>3. x \in Kinds /\ x \notin Open /\ (x \in Leaders <=> p[n] \in Leaders)
  BY DEF Kinds, Leaders, Open
<1>4. CloseLast(p) \in Seq(Kinds) /\ Len(CloseLast(p)) = n
  BY <1>1, <1>2, <1>3
<1>5. CloseLast(p)[n] = x /\ \A i \in 1 .. n : i # n => CloseLast(p)[i] = p[i]
  BY Zenon, <1>1, <1>2
<1>6. CanClose(p)
  BY <1>1 DEF CanClose
<1>7. Linked(CloseLast(p))
  <2> HIDE DEF x
  <2>1. CloseLast(p)[1] \in Leaders
    <3>1. p[1] \in Leaders
      BY DEF Linked
    <3>2. CASE n = 1
      BY <1>1, <1>3, <1>5, <3>1, <3>2
    <3>3. CASE n # 1
      <4>1. 1 \in 1 .. n
        BY <1>1
      <4>2. CloseLast(p)[1] = p[1]
        BY Zenon, <1>5, <3>3, <4>1
      <4> QED BY <3>1, <4>2
    <3> QED BY <3>2, <3>3
  <2>2. ASSUME NEW i \in 2 .. n
        PROVE  CloseLast(p)[i] \in Leaders <=> CloseLast(p)[i - 1] \notin Open
    <3>1. i \in 1 .. n /\ i - 1 \in 1 .. n /\ i - 1 # n
      BY <1>1
    <3>2. CloseLast(p)[i - 1] = p[i - 1]
      BY <1>5, <3>1
    <3>3. CloseLast(p)[i] \in Leaders <=> p[i] \in Leaders
      BY <1>3, <1>5, <3>1
    <3> QED BY <3>2, <3>3 DEF Linked
  <2> QED BY <1>4, <2>1, <2>2 DEF Linked
<1> QED BY <1>3, <1>4, <1>5, <1>6, <1>7

LEMMA Extending ==
  ASSUME NEW p \in Seq(Kinds), Linked(p), NEW x \in Kinds,
         x \in Leaders <=> Len(p) = 0 \/ p[Len(p)] \notin Open
  PROVE  /\ Append(p, x) \in Seq(Kinds) /\ Linked(Append(p, x))
         /\ Len(Append(p, x)) = Len(p) + 1 /\ Append(p, x)[Len(p) + 1] = x
<1> DEFINE n == Len(p)  q == Append(p, x)
<1>1. n \in Nat /\ q \in Seq(Kinds) /\ Len(q) = n + 1 /\ q[n + 1] = x
  OBVIOUS
<1>2. \A i \in 1 .. n : q[i] = p[i]
  OBVIOUS
<1> HIDE DEF q
<1>3. q[1] \in Leaders
  BY <1>1, <1>2 DEF Linked
<1>4. ASSUME NEW i \in 2 .. (n + 1)
      PROVE  q[i] \in Leaders <=> q[i - 1] \notin Open
  <2>1. CASE i = n + 1
    BY <1>1, <1>2, <2>1
  <2>2. CASE i # n + 1
    BY <1>1, <1>2, <2>2 DEF Linked
  <2> QED BY <2>1, <2>2
<1>5. Linked(q)
  BY <1>1, <1>3, <1>4 DEF Linked
<1> QED BY <1>1, <1>5 DEF q

LEMMA Dropping ==
  ASSUME NEW p \in Seq(Kinds), Linked(p), Len(p) > 0
  PROVE  /\ pop_back(p) \in Seq(Kinds) /\ Linked(pop_back(p))
         /\ Len(pop_back(p)) = Len(p) - 1 /\ Len(p) \in Nat
         /\ Len(p) > 1 => pop_back(p)[Len(p) - 1] = p[Len(p) - 1]
<1> DEFINE n == Len(p)  q == pop_back(p)
<1>1. IsSequence(p) /\ n \in Nat
  BY OfRange
<1>2. Len(q) = n - 1 /\ \A i \in 1 .. (n - 1) : q[i] = p[i]
  BY <1>1, Shortening
<1>3. q \in Seq(Kinds)
  BY <1>1 DEF pop_back
<1> HIDE DEF q
<1>4. Linked(q)
  BY <1>1, <1>2 DEF Linked
<1> QED BY <1>1, <1>2, <1>3, <1>4 DEF q

\* addMemoMergePoint between two TBs: what the assertion in it asks for, and its result.
LEMMA Merging ==
  ASSUME Recorder(FALSE), NEW now \in BOOLEAN
  PROVE  LET p == addMemoMergePoint(interested, now, memoMergePoints)
         IN  /\ p \in Seq(Kinds) /\ Linked(p)
             /\ interested /\ ~now => CanClose(memoMergePoints)
             /\ now => /\ Len(p) = count + 1
                       /\ p[count + 1] = IF interested THEN "NormalTb" ELSE "BackToInterestTb"
             /\ ~now => /\ Len(p) = count
                        /\ count > 0 => p[count] \notin Open
<1> DEFINE m == memoMergePoints  p == addMemoMergePoint(interested, now, m)
<1>1. m \in Seq(Kinds) /\ Linked(m) /\ Len(m) = count /\ count \in Nat
  BY DEF Recorder, Types, Lengths
<1>2. interested => count > 0 /\ m[count] \in Open
  BY DEF Recorder, Types, Lengths
<1>3. ~interested => (count > 0 => m[count] \notin Open)
  BY DEF Recorder, Types, Lengths
<1>4. interested \in BOOLEAN
  BY DEF Recorder, Types, Lengths
<1>5. CASE interested /\ now
  <2>1. p = Append(m, "NormalTb")
    BY <1>4, <1>5 DEF addMemoMergePoint
  <2>2. "NormalTb" \in Kinds /\ "NormalTb" \notin Leaders
    BY DEF Kinds, Leaders, Open
  <2>4. "NormalTb" \in Leaders <=> Len(m) = 0 \/ m[Len(m)] \notin Open
    BY <1>1, <1>2, <1>5, <2>2
  <2>3. p \in Seq(Kinds) /\ Linked(p) /\ Len(p) = Len(m) + 1 /\ p[Len(m) + 1] = "NormalTb"
    BY <1>1, <2>1, <2>2, <2>4, Extending
  <2> QED BY Zenon, <1>1, <1>5, <2>3
<1>6. CASE ~interested /\ now
  <2>1. p = Append(m, "BackToInterestTb")
    BY <1>4, <1>6 DEF addMemoMergePoint
  <2>2. "BackToInterestTb" \in Kinds /\ "BackToInterestTb" \in Leaders
    BY DEF Kinds, Leaders, Open
  <2>4. "BackToInterestTb" \in Leaders <=> Len(m) = 0 \/ m[Len(m)] \notin Open
    BY <1>1, <1>3, <1>6, <2>2
  <2>3. p \in Seq(Kinds) /\ Linked(p) /\ Len(p) = Len(m) + 1 /\ p[Len(m) + 1] = "BackToInterestTb"
    BY <1>1, <2>1, <2>2, <2>4, Extending
  <2> QED BY Zenon, <1>1, <1>6, <2>3
<1>7. CASE interested /\ ~now
  <2>1. p = CloseLast(m)
    BY <1>4, <1>7 DEF addMemoMergePoint
  <2>2. /\ CanClose(m) /\ p \in Seq(Kinds) /\ Linked(p)
        /\ Len(p) = Len(m) /\ p[Len(m)] \notin Open
    BY Zenon, <1>1, <1>2, <1>7, <2>1, Closing
  <2> QED BY Zenon, <1>1, <1>7, <2>2
<1>8. CASE ~interested /\ ~now
  <2>1. p = m
    BY <1>4, <1>8 DEF addMemoMergePoint
  <2> QED BY <1>1, <1>3, <1>8, <2>1
<1> QED BY <1>4, <1>5, <1>6, <1>7, <1>8

\* The interrupt states when a TB begins: there is one for every TB before it.
LEMMA Interrupts ==
  ASSUME Recorder(FALSE), NEW now \in BOOLEAN
  PROVE  LET q == NextInterruptStates(now, reg)
         IN  /\ IsSequence(q) /\ Len(q) = count
             /\ dump_interrupt /\ ~now => q = interruptStates
             /\ dump_interrupt => interruptStates # <<>> /\ interruptStates[Len(interruptStates)].valid
<1> DEFINE i == interruptStates  q == NextInterruptStates(now, reg)
<1>1. IsSequence(i) /\ Len(i) \in Nat /\ count \in Nat
  BY OfRange DEF IsSequence, Recorder, Types
<1>2. dump_interrupt => Len(i) > 0 /\ Len(i) = count /\ i[Len(i)].valid
  BY DEF Recorder, Types, Lengths
<1>3. interested /\ ~dump_interrupt => Len(i) = count - 1
  BY DEF Recorder, Types, Lengths
<1>4. ~interested => Len(i) = count
  BY DEF Recorder, Types, Lengths
<1>5. dump_interrupt => i # <<>>
  BY <1>2, EmptyIsSequence
<1>6. CASE dump_interrupt /\ now
  <2> DEFINE r == [i[Len(i)] EXCEPT !.cpu = reg]
  <2>1. q = [i EXCEPT ![Len(i)] = r]
    BY <1>6 DEF NextInterruptStates
  <2>2. Len(i) \in 1 .. Len(i)
    BY <1>1, <1>2, <1>6
  <2> HIDE DEF r
  <2>3. IsSequence([i EXCEPT ![Len(i)] = r]) /\ Len([i EXCEPT ![Len(i)] = r]) = Len(i)
    BY <1>1, <2>2, Updating
  <2> QED BY Zenon, <1>2, <1>5, <1>6, <2>1, <2>3
<1>7. CASE dump_interrupt /\ ~now
  BY <1>1, <1>2, <1>5, <1>7 DEF NextInterruptStates
<1>8. CASE ~dump_interrupt /\ interested
  <2>1. q = Append(i, EmptyState)
    BY <1>8 DEF NextInterruptStates
  <2>2. IsSequence(q) /\ Len(q) = Len(i) + 1
    BY <1>1, <2>1, Appending
  <2> QED BY <1>1, <1>3, <1>8, <2>2
<1>9. CASE ~dump_interrupt /\ ~interested
  BY <1>1, <1>4, <1>9 DEF NextInterruptStates
<1> QED BY <1>6, <1>7, <1>8, <1>9

\* What mergeMemoSyncTables asserts follows from the shape of the points.
LEMMA MergeHolds ==
  ASSUME NEW p \in Seq(Kinds), Linked(p), Len(p) > 0, p[Len(p)] \notin Open
  PROVE  MergeAsserts(p)
<1> DEFINE n == Len(p)
<1>1. n \in Nat /\ \A i \in 1 .. n : p[i] \in Kinds
  OBVIOUS
<1>2. p[1] \in Leaders
  BY DEF Linked
<1>3. p[n] \in {"OutofInterestTb", "OutAndBackTb"}
  BY <1>1 DEF Kinds, Leaders, Open
<1>4. ASSUME NEW i \in 1 .. n, p[i] \in {"NormalTb", "OutofInterestTb"}
      PROVE  p[Leader(p, i)] = "BackToInterestTb"
  <2> DEFINE T == {j \in 1 .. i : p[j] \in Leaders}
  <2>1. T \in SUBSET Nat /\ T # {} /\ i \in Nat /\ \A y \in T : y <= i
    BY <1>1, <1>2
  <2>2. PICK m \in T : \A y \in T : y <= m
    BY Zenon, <2>1, Greatest
  <2>3. /\ m \in 1 .. i /\ p[m] \in Leaders
        /\ \A k \in (m + 1) .. i : p[k] \notin Leaders
    BY <1>1, <2>1, <2>2
  <2> DEFINE l == Leader(p, i)
  <2>4. /\ l \in 1 .. i /\ p[l] \in Leaders
        /\ \A k \in (l + 1) .. i : p[k] \notin Leaders
    BY Zenon, <2>3 DEF Leader, Leaders
  <2> HIDE DEF l
  <2>5. p[i] \notin Leaders
    BY <1>4 DEF Leaders
  <2>6. l + 1 \in 2 .. n /\ l + 1 \in (l + 1) .. i /\ l + 1 - 1 = l
    BY <1>1, <2>4, <2>5
  <2>7. p[l + 1] \in Leaders <=> p[l] \notin Open
    <3> DEFINE k == l + 1
    <3>1. \A x \in 2 .. Len(p) : p[x] \in Leaders <=> p[x - 1] \notin Open
      BY DEF Linked
    <3>2. k \in 2 .. Len(p) /\ k - 1 = l
      BY <1>1, <2>4, <2>6
    <3> HIDE DEF k
    <3>3. p[k] \in Leaders <=> p[k - 1] \notin Open
      BY <3>1, <3>2
    <3> QED BY <3>2, <3>3 DEF k
  <2>8. p[l] \in Open
    BY <2>4, <2>6, <2>7
  <2> QED BY <2>4, <2>8 DEF Leaders, Open, l
<1> QED BY <1>2, <1>3, <1>4 DEF MergeAsserts, Leaders

-----------------------------------------------------------------------------
(* The recorder.                                                           *)

\* crete_runtime_dump keeps the recorder in order, and its assertions hold.
LEMMA Beginning ==
  ASSUME Recorder(FALSE), asserted, NEW now \in BOOLEAN, NEW in \in BOOLEAN, now => in,
         crete_runtime_dump(now), block' \in BOOLEAN
  PROVE  Recorder(in)' /\ asserted' /\ interested' = now /\ dump_enable' = now
<1> DEFINE p == addMemoMergePoint(interested, now, memoMergePoints)
           q == NextInterruptStates(now, reg)
<1>1. /\ p \in Seq(Kinds) /\ Linked(p)
      /\ interested /\ ~now => CanClose(memoMergePoints)
      /\ now => /\ Len(p) = count + 1
                /\ p[count + 1] = IF interested THEN "NormalTb" ELSE "BackToInterestTb"
      /\ ~now => /\ Len(p) = count
                 /\ count > 0 => p[count] \notin Open
  BY Merging
<1>2. /\ IsSequence(q) /\ Len(q) = count
      /\ dump_interrupt /\ ~now => q = interruptStates
      /\ dump_interrupt => interruptStates # <<>> /\ interruptStates[Len(interruptStates)].valid
  BY Interrupts
<1> HIDE DEF p, q
<1>3. /\ interested_prev' = interested /\ interested' = now /\ dump_enable' = now
      /\ memoMergePoints' = p /\ interruptStates' = q
      /\ dump_interrupt' = (dump_interrupt /\ ~now) /\ tbExecSequ' = tbExecSequ
  BY DEF crete_runtime_dump, p, q
<1>4. asserted'
  BY <1>1, <1>2 DEF crete_runtime_dump
<1>5. /\ Types /\ Lengths(FALSE)
  BY Zenon DEF Recorder
<1>6. dump_interrupt' => Len(interruptStates') > 0 /\ interruptStates'[Len(interruptStates')].valid
  BY Zenon, <1>2, <1>3, <1>5 DEF Lengths, Types
<1>7. Len(tbExecSequ') = count /\ Len(interruptStates') = count
  BY <1>2, <1>3, <1>5 DEF Lengths, Types
<1>8. CASE now
  <2>1. /\ count' = count + 1
        /\ cpuStates' = IF count = 0 THEN Append(cpuStates, reg) ELSE cpuStates
        /\ prolog_regs' = Append(prolog_regs, dump_prolog_regs)
        /\ memoSyncTables' = Append(memoSyncTables, {})
    BY <1>8 DEF crete_runtime_dump
  <2>2. IsSequence(cpuStates') /\ Len(cpuStates') = 1
    BY <1>5, <2>1, Appending DEF Types, Lengths
  <2>3. IsSequence(prolog_regs') /\ Len(prolog_regs') = count'
    BY <1>5, <2>1, Appending DEF Types, Lengths
  <2>4. IsSequence(memoSyncTables') /\ Len(memoSyncTables') = count'
    <3>1. IsSequence(memoSyncTables) /\ Len(memoSyncTables) = count
      BY Zenon, <1>5 DEF Types, Lengths
    <3> QED BY Zenon, <2>1, <3>1, Appending
  <2>5. count \in Nat /\ count' \in Nat /\ count' # 0 /\ count' - 1 = count
    BY <1>5, <2>1 DEF Types
  <2>6. Types'
    BY <1>1, <1>2, <1>3, <1>4, <1>5, <2>2, <2>3, <2>4, <2>5 DEF Types
  <2>a. ~dump_interrupt' /\ interested' /\ in
    BY <1>3, <1>8, Zenon
  <2>b. count' > 0 /\ Len(tbExecSequ') = count' - 1 /\ Len(interruptStates') = count' - 1
    <3>1. count' > 0
      BY <2>5
    <3> QED BY <1>7, <2>5, <3>1, Zenon
  <2>c. /\ memoMergePoints'[count'] = IF interested THEN "NormalTb" ELSE "BackToInterestTb"
        /\ Len(memoMergePoints') = count'
    BY <1>1, <1>3, <1>8, <2>1
  <2>8. /\ count' > 0 /\ ~dump_interrupt' /\ interested' /\ in
        /\ Len(tbExecSequ') = count' - 1 /\ Len(interruptStates') = count' - 1
        /\ memoMergePoints'[count'] = IF interested_prev' THEN "NormalTb" ELSE "BackToInterestTb"
        /\ Len(memoMergePoints') = count'
    BY <1>3, <2>a, <2>b, <2>c, Zenon
  <2>9. Len(cpuStates') = IF count' = 0 THEN 0 ELSE 1
    BY <2>2, <2>5
  <2>7. Lengths(in)'
    BY <2>3, <2>4, <2>8, <2>9, Zenon DEF Lengths
  <2> QED BY <1>1, <1>3, <1>4, <2>6, <2>7 DEF Recorder
<1>9. CASE ~now
  <2>1. UNCHANGED <<count, cpuStates, prolog_regs, memoSyncTables>>
    BY <1>9 DEF crete_runtime_dump
  <2>2. Types'
    BY <1>1, <1>2, <1>3, <1>4, <1>5, <2>1 DEF Types
  <2>3. /\ Len(cpuStates') = IF count' = 0 THEN 0 ELSE 1
        /\ Len(prolog_regs') = count' /\ Len(memoSyncTables') = count'
    BY <1>5, <2>1 DEF Lengths
  <2>4. ~interested' /\ (count' > 0 => memoMergePoints'[count'] \notin Open)
    BY <1>1, <1>3, <1>9, <2>1
  <2>5. Len(memoMergePoints') = count'
    BY <1>1, <1>3, <1>9, <2>1
  <2>7. Len(tbExecSequ') = count' /\ Len(interruptStates') = count'
    BY <1>7, <2>1
  <2>6. Lengths(in)'
    BY <1>6, <2>3, <2>4, <2>5, <2>7, Zenon DEF Lengths
  <2> QED BY <1>1, <1>3, <1>4, <2>2, <2>6 DEF Recorder
<1> QED BY <1>8, <1>9

\* The merge points when a TB is taken back: the TB before it, if there is one, is
\* closed, and reverseTBDump can close it.
LEMMA PointsTakenBack ==
  ASSUME Recorder(TRUE), interested
  PROVE  LET f == pop_back(memoMergePoints)
             q == IF interested_prev THEN CloseLast(f) ELSE f
         IN  /\ interested_prev => CanClose(f)
             /\ q \in Seq(Kinds) /\ Linked(q) /\ Len(q) = count - 1
             /\ count - 1 > 0 => q[count - 1] \notin Open
<1> DEFINE m == memoMergePoints  f == pop_back(m)
           q == IF interested_prev THEN CloseLast(f) ELSE f
<1>1. /\ m \in Seq(Kinds) /\ Linked(m) /\ Len(m) = count /\ count \in Nat /\ count > 0
      /\ m[count] = IF interested_prev THEN "NormalTb" ELSE "BackToInterestTb"
      /\ interested_prev \in BOOLEAN
  BY DEF Recorder, Types, Lengths
<1>2. /\ f \in Seq(Kinds) /\ Linked(f) /\ Len(f) = count - 1
      /\ count > 1 => f[count - 1] = m[count - 1]
  BY <1>1, Dropping
<1>3. m[1] \in Leaders
  BY <1>1 DEF Linked
<1>4. count > 1 => (m[count] \in Leaders <=> m[count - 1] \notin Open)
  <2> SUFFICES ASSUME count > 1 PROVE m[count] \in Leaders <=> m[count - 1] \notin Open
    OBVIOUS
  <2>1. count \in 2 .. Len(m)
    BY <1>1
  <2> QED BY <1>1, <2>1 DEF Linked
<1> HIDE DEF f
<1>5. CASE interested_prev
  <2>1. m[count] \notin Leaders
    BY <1>1, <1>5 DEF Leaders
  <2>2. count > 1
    BY <1>1, <1>3, <2>1
  <2>3. f[Len(f)] \in Open /\ Len(f) > 0
    BY <1>1, <1>2, <1>4, <2>1, <2>2
  <2>4. /\ CanClose(f) /\ CloseLast(f) \in Seq(Kinds) /\ Linked(CloseLast(f))
        /\ Len(CloseLast(f)) = Len(f) /\ CloseLast(f)[Len(f)] \notin Open
    BY Zenon, <1>2, <2>3, Closing
  <2> QED BY Zenon, <1>2, <1>5, <2>4 DEF f
<1>6. CASE ~interested_prev
  <2>1. m[count] \in Leaders
    BY <1>1, <1>6 DEF Leaders
  <2>2. count - 1 > 0 => f[count - 1] \notin Open
    BY <1>1, <1>2, <1>4, <2>1
  <2> QED BY Zenon, <1>2, <1>6, <2>2 DEF f
<1> QED BY <1>1, <1>5, <1>6

\* Taking a TB back keeps the recorder in order, and the assertions of reverseTBDump hold.
LEMMA TakenBack ==
  ASSUME Recorder(TRUE), asserted, interested, reverseTBDump,
         interested' = FALSE, block' = FALSE, dump_enable' \in BOOLEAN,
         UNCHANGED <<interested_prev, dump_interrupt, interruptStates>>
  PROVE  Recorder(FALSE)' /\ asserted'
<1> DEFINE q == IF interested_prev THEN CloseLast(pop_back(memoMergePoints)) ELSE pop_back(memoMergePoints)
<1>1. /\ interested_prev => CanClose(pop_back(memoMergePoints))
      /\ q \in Seq(Kinds) /\ Linked(q) /\ Len(q) = count - 1
      /\ count - 1 > 0 => q[count - 1] \notin Open
  BY PointsTakenBack
<1>2. /\ count' = count - 1 /\ memoMergePoints' = q /\ tbExecSequ' = tbExecSequ
      /\ cpuStates' = IF count = 1 THEN pop_back(cpuStates) ELSE cpuStates
      /\ prolog_regs' = pop_back(prolog_regs) /\ memoSyncTables' = pop_back(memoSyncTables)
  BY DEF reverseTBDump
<1> HIDE DEF q
<1>3. Types /\ Lengths(TRUE)
  BY Zenon DEF Recorder
<1>4. /\ count \in Nat /\ count > 0 /\ ~dump_interrupt
      /\ Len(prolog_regs) = count /\ Len(memoSyncTables) = count /\ Len(memoMergePoints) = count
      /\ Len(tbExecSequ) = count - 1 /\ Len(interruptStates) = count - 1
      /\ Len(cpuStates) = 1
  BY <1>3 DEF Types, Lengths
<1>5. prolog_regs # <<>>
  BY <1>4, EmptyIsSequence
<1>6. asserted'
  BY <1>1, <1>4, <1>5 DEF reverseTBDump
<1>7. count' \in Nat /\ (count = 1 <=> count' = 0)
  BY <1>2, <1>4
<1>8. IsSequence(cpuStates') /\ Len(cpuStates') = IF count' = 0 THEN 0 ELSE 1
  BY Zenon, <1>2, <1>3, <1>4, <1>7, Shortening DEF Types
<1>9. IsSequence(prolog_regs') /\ Len(prolog_regs') = count'
  BY <1>2, <1>3, <1>4, Shortening DEF Types
<1>10. IsSequence(memoSyncTables') /\ Len(memoSyncTables') = count'
  BY <1>2, <1>3, <1>4, Shortening DEF Types
<1>11. Types'
  BY Zenon, <1>1, <1>2, <1>3, <1>6, <1>7, <1>8, <1>9, <1>10 DEF Types
<1>12. /\ Len(memoMergePoints') = count' /\ ~interested' /\ ~dump_interrupt'
       /\ count' > 0 => memoMergePoints'[count'] \notin Open
       /\ Len(tbExecSequ') = count' /\ Len(interruptStates') = count'
  BY <1>1, <1>2, <1>4
<1>13. Lengths(FALSE)'
  BY <1>8, <1>9, <1>10, <1>12, Zenon DEF Lengths
<1> QED BY Zenon, <1>1, <1>2, <1>6, <1>11, <1>13 DEF Recorder

\* Keeping a TB keeps the recorder in order, whether an exception has ended the TB or not,
\* and verifyDumpData holds.
LEMMA Kept ==
  ASSUME Recorder(TRUE), asserted, interested, dump_TBExecSequ, interested' = interested,
         block' = FALSE, dump_enable' \in BOOLEAN, interested_prev' = interested_prev,
         \/ UNCHANGED <<dump_interrupt, interruptStates>>
         \/ \E info : /\ dump_interrupt' = TRUE
                      /\ interruptStates' = Append(interruptStates, addQemuInterruptState(info))
  PROVE  Recorder(FALSE)' /\ asserted'
<1>1. Types /\ Lengths(TRUE) /\ Linked(memoMergePoints)
  BY Zenon DEF Recorder
<1>2. /\ tbExecSequ' = Append(tbExecSequ, tb.prog)
      /\ UNCHANGED <<count, cpuStates, prolog_regs, memoSyncTables, memoMergePoints>>
  BY DEF dump_TBExecSequ
<1>3. /\ count \in Nat /\ count > 0 /\ ~dump_interrupt
      /\ Len(prolog_regs) = count /\ Len(memoSyncTables) = count /\ Len(memoMergePoints) = count
      /\ Len(tbExecSequ) = count - 1 /\ Len(interruptStates) = count - 1
      /\ memoMergePoints[count] \in Open
  BY <1>1 DEF Types, Lengths, Open
<1>4. asserted'
  BY <1>3 DEF dump_TBExecSequ
<1>5. IsSequence(tbExecSequ') /\ Len(tbExecSequ') = count
  <2>1. IsSequence(tbExecSequ)
    BY <1>1 DEF Types
  <2>2. IsSequence(tbExecSequ') /\ Len(tbExecSequ') = Len(tbExecSequ) + 1
    BY Zenon, <1>2, <2>1, Appending
  <2> QED BY <1>3, <2>2
<1>6. /\ IsSequence(interruptStates') /\ dump_interrupt' \in BOOLEAN
      /\ Len(interruptStates') = IF dump_interrupt' THEN count ELSE count - 1
      /\ dump_interrupt' => interruptStates'[Len(interruptStates')].valid
  <2>1. CASE UNCHANGED <<dump_interrupt, interruptStates>>
    BY <1>1, <1>3, <2>1 DEF Types
  <2>2. ASSUME NEW info, dump_interrupt' = TRUE,
               interruptStates' = Append(interruptStates, addQemuInterruptState(info))
        PROVE  /\ IsSequence(interruptStates') /\ dump_interrupt' \in BOOLEAN
               /\ Len(interruptStates') = IF dump_interrupt' THEN count ELSE count - 1
               /\ dump_interrupt' => interruptStates'[Len(interruptStates')].valid
    <3> DEFINE r == addQemuInterruptState(info)
    <3>1. r.valid
      BY DEF addQemuInterruptState
    <3> HIDE DEF r
    <3>2. /\ IsSequence(interruptStates') /\ Len(interruptStates') = Len(interruptStates) + 1
          /\ interruptStates'[Len(interruptStates) + 1] = r
      BY <1>1, <2>2, Appending DEF Types, r
    <3>3. Len(interruptStates) + 1 = count
      BY <1>3
    <3>4. Len(interruptStates') = count /\ interruptStates'[count].valid
      BY <3>1, <3>2, <3>3, Zenon
    <3> QED BY <2>2, <3>2, <3>4, Zenon
  <2> QED BY Zenon, <2>1, <2>2
<1>7. Types'
  BY Zenon, <1>1, <1>2, <1>4, <1>5, <1>6 DEF Types
<1>8. /\ interested' /\ count' = count /\ count' > 0 /\ memoMergePoints'[count'] \in Open
      /\ Len(tbExecSequ') = count'
      /\ Len(interruptStates') = IF dump_interrupt' THEN count' ELSE count' - 1
      /\ dump_interrupt' => Len(interruptStates') > 0
  BY <1>2, <1>3, <1>5, <1>6
<1>9. /\ Len(cpuStates') = IF count' = 0 THEN 0 ELSE 1
      /\ Len(prolog_regs') = count' /\ Len(memoSyncTables') = count' /\ Len(memoMergePoints') = count'
  BY <1>1, <1>2 DEF Lengths
<1>10. Lengths(FALSE)'
  BY <1>6, <1>8, <1>9, Zenon DEF Lengths
<1>11. Linked(memoMergePoints)'
  BY <1>1, <1>2
<1> QED BY Zenon, <1>4, <1>7, <1>10, <1>11 DEF Recorder

\* crete_post_runtime_dump keeps the recorder in order, with what raise_interrupt adds to it.
LEMMA Ending ==
  ASSUME Recorder(TRUE), asserted, crete_post_runtime_dump, dump_enable' \in BOOLEAN,
         \/ UNCHANGED <<dump_interrupt, interruptStates>>
         \/ interested /\ block /\ \E info :
              /\ dump_interrupt' = TRUE
              /\ interruptStates' = Append(interruptStates, addQemuInterruptState(info))
  PROVE  Recorder(FALSE)' /\ asserted'
<1>1. block' = FALSE /\ interested_prev' = interested_prev
  BY DEF crete_post_runtime_dump
<1>2. CASE interested /\ ~block
  <2>1. reverseTBDump /\ interested' = FALSE
    BY Zenon, <1>2 DEF crete_post_runtime_dump
  <2> QED BY Zenon, <1>1, <1>2, <2>1, TakenBack
<1>3. CASE interested /\ block
  <2>1. dump_TBExecSequ /\ interested' = interested
    BY <1>3 DEF crete_post_runtime_dump
  <2> QED BY Zenon, <1>1, <1>3, <2>1, Kept
<1>4. CASE ~interested
  <2>1. /\ UNCHANGED <<interested, count, cpuStates, prolog_regs, memoSyncTables,
                       memoMergePoints, tbExecSequ, asserted>>
        /\ UNCHANGED <<dump_interrupt, interruptStates>>
    BY Zenon, <1>4 DEF crete_post_runtime_dump
  <2>2. Types' /\ Linked(memoMergePoints)'
    BY Zenon, <1>1, <2>1 DEF Recorder, Types
  <2>3. Lengths(FALSE)'
    BY Zenon, <1>4, <2>1 DEF Recorder, Lengths
  <2> QED BY Zenon, <2>1, <2>2, <2>3 DEF Recorder
<1> QED BY Zenon, <1>2, <1>3, <1>4

\* A step in a TB changes nothing of this but the last table.
LEMMA Unmoved ==
  ASSUME NEW in \in BOOLEAN, Recorder(in),
         UNCHANGED <<flags, count, cpuStates, prolog_regs, memoMergePoints, tbExecSequ, interruptStates>>,
         IsSequence(memoSyncTables'), Len(memoSyncTables') = Len(memoSyncTables),
         block' \in BOOLEAN, asserted' \in BOOLEAN
  PROVE  Recorder(in)'
<1>1. Types' /\ Linked(memoMergePoints)'
  BY DEF Recorder, Types, flags
<1>2. Lengths(in)'
  BY Zenon DEF Recorder, Lengths, flags
<1> QED BY <1>1, <1>2 DEF Recorder

\* A recorded load finds a table.
LEMMA Recording ==
  ASSUME Recorder(TRUE), interested, NEW a, NEW data, addMemoSyncTableEntry(a, data)
  PROVE  IsSequence(memoSyncTables') /\ Len(memoSyncTables') = Len(memoSyncTables)
<1> DEFINE k == Len(memoSyncTables)
           x == addMemoSyncTableEntryInternal(a, data, memoSyncTables[k])
<1>1. IsSequence(memoSyncTables) /\ k \in 1 .. Len(memoSyncTables)
  BY DEF Recorder, Types, Lengths
<1>2. memoSyncTables' = [memoSyncTables EXCEPT ![k] = x]
  BY DEF addMemoSyncTableEntry
<1> HIDE DEF x
<1> QED BY Zenon, <1>1, <1>2, Updating

-----------------------------------------------------------------------------
(* The inductive invariant.                                                *)

\* What program p still has of custom instructions from k on comes in order: MAKE_SYMBOLIC
\* after its MAKE_CONCOLIC and in a recorded block, the others between two variables.
Due(p, k) ==
  \A j \in k .. Len(p) :
    /\ p[j].op = "symbolic" => Pending /\ (dump_enable \/ workaround)
    /\ p[j].op \in {"concolic", "end"} => ~Pending /\ (emit \/ workaround)

Library ==
  /\ emit \in BOOLEAN /\ workaround \in BOOLEAN /\ symbolics \in Nat
  /\ IsSequence(makeConcolics) /\ Len(makeConcolics) \in symbolics .. (symbolics + 1)
  /\ Pending => emit \/ workaround
  /\ tb # NoTB =>
       /\ tb = [prog |-> tb.prog, pc |-> tb.pc, taint |-> tb.taint, reads |-> tb.reads, sym |-> tb.sym]
       /\ tb.prog \in Progs /\ tb.pc \in 1 .. (Len(tb.prog) + 1)
       /\ dump_enable = interested
       /\ Due(tb.prog, tb.pc)

RecorderInv ==
  /\ tb # NoTB => Recorder(TRUE)
  /\ tb = NoTB => Recorder(FALSE)
  /\ Library /\ RecorderAsserts

-----------------------------------------------------------------------------
(* The guest library.                                                      *)

\* An operation goes to the next one of its program.
LEMMA Advancing ==
  ASSUME Library, InTB, NEW data, NEW seen, NEW sym, Advance(data, seen, sym)
  PROVE  /\ tb' = [prog |-> tb'.prog, pc |-> tb'.pc, taint |-> tb'.taint,
                   reads |-> tb'.reads, sym |-> tb'.sym]
         /\ tb'.prog = tb.prog /\ tb'.pc = tb.pc + 1 /\ tb.pc \in 1 .. Len(tb.prog)
         /\ tb'.prog \in Progs /\ tb'.pc \in 1 .. (Len(tb'.prog) + 1)
         /\ Len(tb.prog) \in Nat /\ tb' # NoTB
         /\ tb'.reads = Append(tb.reads, [data |-> data, seen |-> seen])
         /\ tb'.sym = (tb.sym \/ sym)
<1> DEFINE p == tb.prog  k == tb.pc  t == tb.taint  r == tb.reads  y == tb.sym
           v == [prog |-> p, pc |-> k, taint |-> t, reads |-> r, sym |-> y]
           w == [prog |-> p, pc |-> k + 1, taint |-> t,
                 reads |-> Append(r, [data |-> data, seen |-> seen]), sym |-> y \/ sym]
<1>1. tb = v /\ p \in Progs /\ k \in 1 .. (Len(p) + 1) /\ k <= Len(p)
  BY Zenon DEF Library, InTB
<1>2. Len(p) \in Nat
  BY <1>1, ProgsAssumption
<1>3. tb' = [v EXCEPT !.pc = @ + 1, !.reads = Append(@, [data |-> data, seen |-> seen]), !.sym = @ \/ sym]
  BY Zenon, <1>1 DEF Advance
<1> HIDE DEF p, k, t, r, y
<1>4. tb' = w
  BY Zenon, <1>3
<1>5. /\ tb'.prog = p /\ tb'.pc = k + 1
      /\ tb'.reads = Append(r, [data |-> data, seen |-> seen]) /\ tb'.sym = (y \/ sym)
      /\ tb' = [prog |-> tb'.prog, pc |-> tb'.pc, taint |-> tb'.taint,
                reads |-> tb'.reads, sym |-> tb'.sym]
  BY Zenon, <1>4
<1>6. tb' # NoTB
  <2>1. NoTB.pc = 0
    BY DEF NoTB
  <2> QED BY <1>1, <1>2, <1>5, <2>1
<1>7. k \in 1 .. Len(p) /\ k + 1 \in 1 .. (Len(p) + 1)
  BY <1>1, <1>2
<1> QED BY Zenon, <1>1, <1>2, <1>5, <1>6, <1>7 DEF p, k, r, y

\* What the order of the library's instructions says of the operation at hand.
LEMMA Ordered ==
  ASSUME Library, InTB
  PROVE  /\ Cur.op \in {"concolic", "end"} => Len(makeConcolics) = symbolics /\ (emit \/ workaround)
         /\ Cur.op = "symbolic" => /\ Len(makeConcolics) = symbolics + 1
                                   /\ dump_enable \/ workaround
         /\ symbolics \in Nat
<1>1. /\ tb.prog \in Progs /\ tb.pc \in 1 .. (Len(tb.prog) + 1) /\ tb.pc <= Len(tb.prog)
      /\ Due(tb.prog, tb.pc)
  BY Zenon DEF Library, InTB
<1>2. /\ symbolics \in Nat /\ Len(makeConcolics) \in symbolics .. (symbolics + 1)
  BY Zenon DEF Library
<1>3. Pending => Len(makeConcolics) = symbolics + 1
  BY <1>2 DEF Pending
<1>4. ~Pending => Len(makeConcolics) = symbolics
  BY <1>2 DEF Pending
<1>5. tb.pc \in tb.pc .. Len(tb.prog)
  <2>1. Len(tb.prog) \in Nat
    BY <1>1, ProgsAssumption
  <2> QED BY <1>1, <2>1
<1>6. /\ Cur.op = "symbolic" => Pending /\ (dump_enable \/ workaround)
      /\ Cur.op \in {"concolic", "end"} => ~Pending /\ (emit \/ workaround)
  BY Zenon, <1>1, <1>5 DEF Due, Cur
<1> QED BY Zenon, <1>2, <1>3, <1>4, <1>6

\* The custom instructions behind the operation at hand are in order after it.
Remains ==
  \A j \in (tb.pc + 1) .. Len(tb.prog) :
    /\ tb.prog[j].op = "symbolic" => Pending' /\ (dump_enable' \/ workaround')
    /\ tb.prog[j].op \in {"concolic", "end"} => ~Pending' /\ (emit' \/ workaround')

\* There are none behind a custom instruction.
LEMMA Alone == ASSUME Library, InTB, Cur.op \in Custom PROVE Remains
<1>1. tb.prog \in Progs /\ tb.pc \in 1 .. (Len(tb.prog) + 1) /\ tb.pc <= Len(tb.prog)
  BY Zenon DEF Library, InTB
<1>2. Len(tb.prog) \in Nat
  BY <1>1, ProgsAssumption
<1>3. ASSUME NEW j \in (tb.pc + 1) .. Len(tb.prog) PROVE tb.prog[j].op \notin Custom
  <2>1. j # tb.pc /\ j \in 1 .. Len(tb.prog) /\ tb.pc \in 1 .. Len(tb.prog)
    BY <1>1, <1>2
  <2> QED BY Zenon, <1>1, <2>1, ProgsAssumption DEF Cur
<1> QED BY Zenon, <1>3 DEF Remains, Custom

\* The library is in order after an operation.
LEMMA Moving ==
  ASSUME Library, InTB, NEW data, NEW seen, NEW sym, Advance(data, seen, sym),
         UNCHANGED <<interested, dump_enable>>,
         emit' \in BOOLEAN /\ workaround' \in BOOLEAN /\ symbolics' \in Nat /\ IsSequence(makeConcolics'),
         Len(makeConcolics') \in symbolics' .. (symbolics' + 1),
         Pending' => emit' \/ workaround',
         Remains
  PROVE  Library' /\ tb' # NoTB
<1>1. /\ tb' = [prog |-> tb'.prog, pc |-> tb'.pc, taint |-> tb'.taint,
                reads |-> tb'.reads, sym |-> tb'.sym]
      /\ tb'.prog = tb.prog /\ tb'.pc = tb.pc + 1
      /\ tb'.prog \in Progs /\ tb'.pc \in 1 .. (Len(tb'.prog) + 1) /\ tb' # NoTB
  BY Zenon, Advancing
<1>2. dump_enable' = interested'
  BY Zenon DEF Library, InTB
<1>3. Due(tb.prog, tb.pc)'
  BY Zenon, <1>1 DEF Due, Remains
<1> QED BY Zenon, <1>1, <1>2, <1>3 DEF Library

\* An operation that is none of the library's leaves it in order.
LEMMA MovingOn ==
  ASSUME Library, InTB, NEW data, NEW seen, NEW sym, Advance(data, seen, sym),
         UNCHANGED <<interested, dump_enable, emit, workaround, symbolics, makeConcolics>>
  PROVE  Library' /\ tb' # NoTB
<1>1. /\ emit \in BOOLEAN /\ workaround \in BOOLEAN /\ symbolics \in Nat
      /\ IsSequence(makeConcolics) /\ Len(makeConcolics) \in symbolics .. (symbolics + 1)
      /\ Pending => emit \/ workaround
      /\ Due(tb.prog, tb.pc) /\ tb.prog \in Progs /\ tb.pc \in 1 .. (Len(tb.prog) + 1)
  BY Zenon DEF Library, InTB
<1>2. Pending' = Pending
  BY Zenon DEF Pending
<1>3. \A j \in (tb.pc + 1) .. Len(tb.prog) : j \in tb.pc .. Len(tb.prog)
  <2>1. Len(tb.prog) \in Nat
    BY <1>1, ProgsAssumption
  <2> QED BY <1>1, <2>1
<1>4. Remains
  BY Zenon, <1>1, <1>2, <1>3 DEF Remains, Due
<1> QED BY Zenon, <1>1, <1>2, <1>4, Moving

\* A recorder that has recorded nothing.
Empty ==
  /\ cpuStates = <<>> /\ prolog_regs = <<>> /\ memoSyncTables = <<>> /\ memoMergePoints = <<>>
  /\ tbExecSequ = <<>> /\ interruptStates = <<>> /\ count = 0
  /\ ~interested /\ ~dump_interrupt
  /\ interested \in BOOLEAN /\ interested_prev \in BOOLEAN /\ dump_enable \in BOOLEAN
  /\ dump_interrupt \in BOOLEAN /\ block \in BOOLEAN /\ asserted \in BOOLEAN

LEMMA Fresh == Empty => Recorder(FALSE)
<1> SUFFICES ASSUME Empty PROVE Recorder(FALSE)
  BY Zenon
<1>1. /\ IsSequence(cpuStates) /\ IsSequence(prolog_regs) /\ IsSequence(memoSyncTables)
      /\ IsSequence(tbExecSequ) /\ IsSequence(interruptStates)
      /\ Len(cpuStates) = 0 /\ Len(prolog_regs) = 0 /\ Len(memoSyncTables) = 0
      /\ Len(tbExecSequ) = 0 /\ Len(interruptStates) = 0 /\ Len(memoMergePoints) = 0
  BY EmptyIsSequence, Zenon DEF Empty
<1>2. memoMergePoints \in Seq(Kinds)
  BY DEF Empty
<1>3. /\ count = 0 /\ count \in Nat /\ ~(count > 0) /\ ~interested /\ ~dump_interrupt
  BY DEF Empty
<1>4. Types
  BY <1>1, <1>2, <1>3 DEF Empty, Types
<1>5. Lengths(FALSE)
  BY <1>1, <1>3, Zenon DEF Lengths
<1>6. Linked(memoMergePoints)
  BY <1>1 DEF Linked
<1> QED BY Zenon, <1>4, <1>5, <1>6 DEF Recorder

-----------------------------------------------------------------------------
(* The invariant.                                                          *)

\* What RecorderInv says in a TB of the target, and between TBs.
LEMMA InATB ==
  ASSUME RecorderInv, InTB
  PROVE  /\ Recorder(TRUE) /\ Library /\ asserted /\ tb # NoTB
         /\ dump_enable = interested /\ interested \in BOOLEAN /\ block \in BOOLEAN
         /\ IsSequence(memoSyncTables) /\ IsSequence(makeConcolics)
         /\ emit \in BOOLEAN /\ workaround \in BOOLEAN
  BY Zenon DEF RecorderInv, InTB, Running, Library, Recorder, Types

LEMMA InitHolds == Init => RecorderInv
<1> SUFFICES ASSUME Init PROVE RecorderInv
  OBVIOUS
<1>1. Recorder(FALSE)
  BY Zenon, Fresh DEF Init, Empty
<1>2. makeConcolics = <<>> /\ symbolics = 0 /\ emit = FALSE /\ workaround = FALSE /\ asserted = TRUE /\ tb = NoTB
  BY DEF Init
<1>3. IsSequence(makeConcolics) /\ Len(makeConcolics) = 0
  BY <1>2, EmptyIsSequence, Zenon
<1>4. ~Pending /\ Len(makeConcolics) \in symbolics .. (symbolics + 1) /\ symbolics \in Nat
  BY <1>2, <1>3 DEF Pending
<1>5. Library
  BY <1>2, <1>3, <1>4, Zenon DEF Library
<1> QED BY Zenon, <1>1, <1>2, <1>5 DEF RecorderInv, RecorderAsserts

LEMMA BeginTBHolds ==
  ASSUME RecorderInv, NEW p \in Progs, NEW excluded \in BOOLEAN, BeginTB(p, excluded)
  PROVE  RecorderInv'
<1>1. Recorder(FALSE) /\ Library /\ asserted /\ block' = block /\ block \in BOOLEAN
  BY Zenon DEF RecorderInv, BeginTB, Running, Recorder, Types, taint
<1> DEFINE now == emit /\ ~excluded
<1>2. now \in BOOLEAN /\ emit \in BOOLEAN
  BY <1>1 DEF Library
<1>3. crete_runtime_dump(now)
  BY DEF BeginTB
<1> HIDE DEF now
<1>4. Recorder(TRUE)' /\ asserted' /\ interested' = now /\ dump_enable' = now
  BY Zenon, <1>1, <1>2, <1>3, Beginning
<1>5. /\ tb' = [prog |-> p, pc |-> 1, taint |-> emit, reads |-> <<>>, sym |-> FALSE]
      /\ UNCHANGED <<emit, makeConcolics, workaround, symbolics>>
      /\ emit \/ Pending
      /\ LibraryOrder(p)
      /\ MakesSymbolic(p) => ~excluded
  BY Zenon DEF BeginTB
<1>6. Pending' = Pending
  BY Zenon, <1>5 DEF Pending
<1>7. tb' # NoTB
  <2>1. tb'.pc = 1 /\ NoTB.pc = 0
    BY Zenon, <1>5 DEF NoTB
  <2> QED BY <2>1
<1>8. Len(p) \in Nat \ {0}
  BY ProgsAssumption
<1>9. /\ tb' = [prog |-> tb'.prog, pc |-> tb'.pc, taint |-> tb'.taint,
                reads |-> tb'.reads, sym |-> tb'.sym]
      /\ tb'.prog = p /\ tb'.pc = 1 /\ tb'.pc \in 1 .. (Len(p) + 1)
  <2>1. 1 \in 1 .. (Len(p) + 1)
    BY <1>8
  <2>2. /\ tb'.prog = p /\ tb'.pc = 1 /\ tb'.taint = emit /\ tb'.reads = <<>> /\ tb'.sym = FALSE
    BY Zenon, <1>5
  <2> QED BY Zenon, <1>5, <2>1, <2>2
<1>10. Pending => emit \/ workaround
  BY <1>1 DEF Library
<1>11. Due(tb.prog, tb.pc)'
  <2> SUFFICES ASSUME NEW j \in 1 .. Len(p)
               PROVE  /\ p[j].op = "symbolic" => Pending /\ (now \/ workaround)
                      /\ p[j].op \in {"concolic", "end"} => ~Pending /\ (emit \/ workaround)
    BY Zenon, <1>4, <1>5, <1>6, <1>9 DEF Due
  <2>1. p[j].op = "symbolic" => Pending /\ ~excluded
    BY <1>5 DEF LibraryOrder, MakesSymbolic
  <2>2. p[j].op \in {"concolic", "end"} => ~Pending
    <3> SUFFICES ASSUME p[j].op \in {"concolic", "end"}, MakesSymbolic(p) PROVE FALSE
      BY Zenon, <1>5 DEF LibraryOrder
    <3>1. PICK k \in 1 .. Len(p) : p[k].op = "symbolic"
      BY Zenon DEF MakesSymbolic
    <3>2. k = j
      BY Zenon, <3>1, ProgsAssumption DEF Custom
    <3> QED BY <3>1, <3>2
  <2> QED BY Zenon, <1>5, <1>10, <2>1, <2>2 DEF now
<1>12. Library'
  BY Zenon, <1>1, <1>4, <1>5, <1>6, <1>9, <1>10, <1>11 DEF Library
<1> QED BY Zenon, <1>4, <1>7, <1>12 DEF RecorderInv, RecorderAsserts

LEMMA LoadHolds == ASSUME RecorderInv, Load PROVE RecorderInv'
<1> DEFINE a == Cur.a  n == Cur.n  s == tb.taint /\ Span(Cur.a, Cur.n) \cap symMem # {}
<1>1. InTB /\ Cur.op = "ld"
  BY DEF Load
<1>2. /\ Recorder(TRUE) /\ Library /\ asserted /\ tb # NoTB
      /\ dump_enable = interested /\ interested \in BOOLEAN /\ block \in BOOLEAN
      /\ IsSequence(memoSyncTables) /\ IsSequence(makeConcolics)
      /\ emit \in BOOLEAN /\ workaround \in BOOLEAN
  BY Zenon, <1>1, InATB
<1>3. /\ UNCHANGED <<flags, count, cpuStates, prolog_regs, memoMergePoints, tbExecSequ, interruptStates>>
      /\ UNCHANGED <<emit, makeConcolics, workaround, symbolics, asserted>>
      /\ Advance(Data(a, n), dump_enable, s)
      /\ block' = (block \/ s)
      /\ IF dump_enable THEN addMemoSyncTableEntry(a, Data(a, n)) ELSE UNCHANGED memoSyncTables
  BY Zenon DEF Load, mark_block_symbolic
<1> HIDE DEF s, a, n
<1>4. IsSequence(memoSyncTables') /\ Len(memoSyncTables') = Len(memoSyncTables)
  BY <1>2, <1>3, Recording
<1>5. block' \in BOOLEAN
  BY <1>3, Zenon
<1>6. Recorder(TRUE)'
  BY Zenon, <1>2, <1>3, <1>4, <1>5, Unmoved
<1>7. Library' /\ tb' # NoTB
  BY <1>1, <1>2, <1>3, MovingOn DEF flags
<1> QED BY Zenon, <1>2, <1>3, <1>6, <1>7 DEF RecorderInv, RecorderAsserts

LEMMA HelperLoadHolds == ASSUME RecorderInv, NEW miss \in BOOLEAN, HelperLoad(miss) PROVE RecorderInv'
<1> DEFINE a == Cur.a  n == Cur.n  s == tb.taint /\ symReg
<1>1. InTB /\ Cur.op = "ldh"
  BY DEF HelperLoad
<1>2. /\ Recorder(TRUE) /\ Library /\ asserted /\ tb # NoTB
      /\ dump_enable = interested /\ interested \in BOOLEAN /\ block \in BOOLEAN
      /\ IsSequence(memoSyncTables) /\ IsSequence(makeConcolics)
      /\ emit \in BOOLEAN /\ workaround \in BOOLEAN
  BY Zenon, <1>1, InATB
<1>3. /\ UNCHANGED <<flags, count, cpuStates, prolog_regs, memoMergePoints, tbExecSequ, interruptStates>>
      /\ UNCHANGED <<emit, makeConcolics, workaround, symbolics, asserted>>
      /\ Advance(Data(a, n), dump_enable /\ miss, s)
      /\ block' = (block \/ s)
      /\ IF dump_enable /\ miss THEN addMemoSyncTableEntry(a, Data(a, n)) ELSE UNCHANGED memoSyncTables
  BY Zenon DEF HelperLoad, mark_block_symbolic
<1> HIDE DEF s, a, n
<1>4. IsSequence(memoSyncTables') /\ Len(memoSyncTables') = Len(memoSyncTables)
  BY <1>2, <1>3, Recording
<1>5. block' \in BOOLEAN
  BY <1>3, Zenon
<1>6. Recorder(TRUE)'
  BY Zenon, <1>2, <1>3, <1>4, <1>5, Unmoved
<1>7. Library' /\ tb' # NoTB
  BY Zenon, <1>1, <1>2, <1>3, MovingOn DEF flags
<1> QED BY Zenon, <1>2, <1>3, <1>6, <1>7 DEF RecorderInv, RecorderAsserts

LEMMA StoreHolds == ASSUME RecorderInv, Store PROVE RecorderInv'
<1> DEFINE s == tb.taint /\ symReg /\ Cur.op = "st"
<1>1. InTB
  BY DEF Store
<1>2. /\ Recorder(TRUE) /\ Library /\ asserted /\ tb # NoTB
      /\ dump_enable = interested /\ interested \in BOOLEAN /\ block \in BOOLEAN
      /\ IsSequence(memoSyncTables) /\ IsSequence(makeConcolics)
      /\ emit \in BOOLEAN /\ workaround \in BOOLEAN
  BY Zenon, <1>1, InATB
<1>3. /\ UNCHANGED <<flags, env>>
      /\ UNCHANGED <<emit, makeConcolics, workaround, symbolics, asserted>>
      /\ Advance(<<>>, FALSE, s)
      /\ block' = (block \/ s)
  BY Zenon DEF Store, mark_block_symbolic
<1> HIDE DEF s
<1>5. block' \in BOOLEAN
  BY <1>3, Zenon
<1>6. Recorder(TRUE)'
  BY Zenon, <1>2, <1>3, <1>5, Unmoved DEF env
<1>7. Library' /\ tb' # NoTB
  BY Zenon, <1>1, <1>2, <1>3, MovingOn DEF flags
<1> QED BY Zenon, <1>2, <1>3, <1>6, <1>7 DEF RecorderInv, RecorderAsserts

\* MAKE_CONCOLIC, with and without the runtime_error.
LEMMA ConcolicHolds ==
  ASSUME RecorderInv, InTB, Cur.op = "concolic", NEW v,
         makeConcolics' = Append(makeConcolics, v), block' = FALSE, Advance(<<>>, FALSE, FALSE),
         UNCHANGED <<flags, env, symbolics, asserted>>,
         UNCHANGED <<emit, workaround>> \/ (emit' = FALSE /\ workaround' = TRUE)
  PROVE  RecorderInv'
<1>1. /\ Recorder(TRUE) /\ Library /\ asserted /\ tb # NoTB
      /\ dump_enable = interested /\ interested \in BOOLEAN /\ block \in BOOLEAN
      /\ IsSequence(memoSyncTables) /\ IsSequence(makeConcolics)
      /\ emit \in BOOLEAN /\ workaround \in BOOLEAN
  BY Zenon, InATB
<1>2. Recorder(TRUE)'
  BY Zenon, <1>1, Unmoved DEF env
<1>3. /\ Len(makeConcolics) = symbolics /\ symbolics \in Nat
      /\ emit \/ workaround
      /\ Remains
  BY <1>1, Ordered, Alone DEF Custom
<1>4. IsSequence(makeConcolics') /\ Len(makeConcolics') = Len(makeConcolics) + 1
  BY Zenon, <1>1, Appending
<1>5. Len(makeConcolics') \in symbolics' .. (symbolics' + 1) /\ symbolics' \in Nat
  BY <1>3, <1>4
<1>6. emit' \in BOOLEAN /\ workaround' \in BOOLEAN /\ (emit' \/ workaround')
  BY Zenon, <1>1, <1>3
<1>7. interested' = interested /\ dump_enable' = dump_enable
  BY DEF flags
<1>8. Library' /\ tb' # NoTB
  BY Zenon, <1>1, <1>3, <1>4, <1>5, <1>6, <1>7, Moving
<1> QED BY Zenon, <1>1, <1>2, <1>8 DEF RecorderInv, RecorderAsserts

LEMMA SymbolicHolds == ASSUME RecorderInv, helper_crete_make_symbolic PROVE RecorderInv'
<1>1. InTB /\ Cur.op = "symbolic"
  BY DEF helper_crete_make_symbolic
<1>2. /\ Recorder(TRUE) /\ Library /\ asserted /\ tb # NoTB
      /\ dump_enable = interested /\ interested \in BOOLEAN /\ block \in BOOLEAN
      /\ IsSequence(memoSyncTables) /\ IsSequence(makeConcolics)
      /\ emit \in BOOLEAN /\ workaround \in BOOLEAN
  BY Zenon, <1>1, InATB
<1>3. /\ UNCHANGED <<flags, env>> /\ UNCHANGED <<emit, makeConcolics, workaround>>
      /\ Advance(<<>>, FALSE, TRUE) /\ block' = TRUE /\ symbolics' = symbolics + 1
      /\ asserted' = (asserted /\ dump_enable)
  BY Zenon DEF helper_crete_make_symbolic
<1>4. asserted' \in BOOLEAN
  BY <1>3, Zenon
<1>5. Recorder(TRUE)'
  BY Zenon, <1>2, <1>3, <1>4, Unmoved DEF env
<1>6. /\ Len(makeConcolics) = symbolics + 1 /\ (dump_enable \/ workaround)
      /\ symbolics \in Nat /\ Remains
  BY <1>1, <1>2, Ordered, Alone DEF Custom
<1>7. /\ Len(makeConcolics') = symbolics' /\ symbolics' \in Nat /\ ~Pending'
      /\ Len(makeConcolics') \in symbolics' .. (symbolics' + 1)
      /\ IsSequence(makeConcolics')
  BY <1>2, <1>3, <1>6 DEF Pending
<1>8. interested' = interested /\ dump_enable' = dump_enable
  BY <1>3 DEF flags
<1>9. Library' /\ tb' # NoTB
  BY Zenon, <1>1, <1>2, <1>3, <1>6, <1>7, <1>8, Moving
<1>10. RecorderAsserts'
  BY <1>2, <1>3, <1>6 DEF RecorderAsserts
<1> QED BY Zenon, <1>5, <1>9, <1>10 DEF RecorderInv

LEMMA CaptureEndHolds == ASSUME RecorderInv, CaptureEnd PROVE RecorderInv'
<1>1. InTB /\ Cur.op = "end"
  BY DEF CaptureEnd
<1>2. /\ Recorder(TRUE) /\ Library /\ asserted /\ tb # NoTB
      /\ dump_enable = interested /\ interested \in BOOLEAN /\ block \in BOOLEAN
      /\ IsSequence(memoSyncTables) /\ IsSequence(makeConcolics)
      /\ emit \in BOOLEAN /\ workaround \in BOOLEAN
  BY Zenon, <1>1, InATB
<1>3. /\ UNCHANGED <<flags, env>> /\ UNCHANGED <<makeConcolics, workaround, symbolics, asserted>>
      /\ Advance(<<>>, FALSE, FALSE) /\ block' = block /\ emit' = FALSE
  BY Zenon DEF CaptureEnd, taint
<1>4. Recorder(TRUE)'
  BY Zenon, <1>2, <1>3, Unmoved DEF env
<1>5. /\ Len(makeConcolics) = symbolics /\ symbolics \in Nat /\ Remains
  BY <1>1, <1>2, Ordered, Alone DEF Custom
<1>6. /\ Len(makeConcolics') = symbolics' /\ symbolics' \in Nat /\ ~Pending'
      /\ Len(makeConcolics') \in symbolics' .. (symbolics' + 1)
  BY <1>3, <1>5 DEF Pending
<1>7. interested' = interested /\ dump_enable' = dump_enable /\ IsSequence(makeConcolics')
  BY <1>2, <1>3 DEF flags
<1>8. Library' /\ tb' # NoTB
  BY Zenon, <1>1, <1>2, <1>3, <1>5, <1>6, <1>7, Moving
<1> QED BY Zenon, <1>2, <1>3, <1>4, <1>8 DEF RecorderInv, RecorderAsserts

\* Between TBs the library is in order if it was.
LEMMA Outside ==
  ASSUME Library, tb' = NoTB, UNCHANGED <<makeConcolics, workaround, symbolics>>,
         emit' \in BOOLEAN, emit => emit'
  PROVE  Library'
<1>1. Pending' = Pending
  BY DEF Pending
<1> QED BY Zenon, <1>1 DEF Library

LEMMA InterruptHolds ==
  ASSUME RecorderInv, InTB, NEW info, raise_interrupt(info)
  PROVE  RecorderInv'
<1>1. /\ Recorder(TRUE) /\ Library /\ asserted /\ tb # NoTB
      /\ dump_enable = interested /\ interested \in BOOLEAN /\ block \in BOOLEAN
      /\ IsSequence(memoSyncTables) /\ IsSequence(makeConcolics)
      /\ emit \in BOOLEAN /\ workaround \in BOOLEAN
  BY Zenon, InATB
<1>2. tb' = NoTB /\ UNCHANGED <<emit, makeConcolics, workaround, symbolics>>
  BY DEF raise_interrupt
<1>3. Library'
  BY <1>1, <1>2, Outside
<1>4. CASE dump_enable
  <2>1. /\ crete_post_runtime_dump
        /\ dump_enable' = block
        /\ dump_interrupt' = (dump_interrupt \/ block)
        /\ interruptStates' = IF block THEN Append(interruptStates, addQemuInterruptState(info))
                                       ELSE interruptStates
    BY <1>4 DEF raise_interrupt
  <2>2. dump_interrupt = FALSE
    BY <1>1, <1>4 DEF Recorder, Types, Lengths
  <2>3. CASE block
    <3>1. dump_interrupt' = TRUE
      BY <2>1, <2>3, Zenon
    <3>2. interruptStates' = Append(interruptStates, addQemuInterruptState(info))
      BY <2>1, <2>3
    <3>3. Recorder(FALSE)' /\ asserted'
      BY Zenon, <1>1, <1>4, <2>1, <2>3, <3>1, <3>2, Ending
    <3> QED BY Zenon, <1>2, <1>3, <3>3 DEF RecorderInv, RecorderAsserts
  <2>4. CASE ~block
    <3>1. dump_interrupt' = FALSE
      BY <2>1, <2>2, <2>4, Zenon
    <3>2. UNCHANGED <<dump_interrupt, interruptStates>>
      BY Zenon, <2>1, <2>2, <2>4, <3>1
    <3>3. Recorder(FALSE)' /\ asserted'
      BY Zenon, <1>1, <2>1, <3>2, Ending
    <3> QED BY Zenon, <1>2, <1>3, <3>3 DEF RecorderInv, RecorderAsserts
  <2> QED BY <2>3, <2>4
<1>5. CASE ~dump_enable
  <2>1. UNCHANGED <<flags, env, taint, asserted>>
    BY <1>5 DEF raise_interrupt
  <2>2. Recorder(FALSE)
    BY Zenon, <1>1, <1>5 DEF Recorder, Lengths
  <2>3. Recorder(FALSE)'
    BY Zenon, <1>1, <2>1, <2>2, Unmoved DEF env, taint
  <2> QED BY Zenon, <1>1, <1>2, <1>3, <2>1, <2>3 DEF RecorderInv, RecorderAsserts
<1> QED BY <1>4, <1>5

LEMMA EndTBHolds == ASSUME RecorderInv, EndTB PROVE RecorderInv'
<1>1. Recorder(TRUE) /\ Library /\ asserted /\ emit \in BOOLEAN
  BY Zenon DEF RecorderInv, EndTB, Running, Library
<1>2. /\ crete_post_runtime_dump /\ dump_enable' = FALSE /\ tb' = NoTB
      /\ UNCHANGED <<dump_interrupt, interruptStates>>
      /\ UNCHANGED <<emit, makeConcolics, workaround, symbolics>>
  BY DEF EndTB
<1>3. Recorder(FALSE)' /\ asserted'
  BY Zenon, <1>1, <1>2, Ending
<1>4. Library'
  BY <1>1, <1>2, Outside
<1> QED BY Zenon, <1>2, <1>3, <1>4 DEF RecorderInv, RecorderAsserts

\* A block of the rest of the guest.
LEMMA OtherHolds ==
  ASSUME RecorderInv, OtherTB, emit' = emit \/ emit' = TRUE
  PROVE  RecorderInv'
<1>1. Recorder(FALSE) /\ Library /\ asserted /\ emit \in BOOLEAN
  BY Zenon DEF RecorderInv, OtherTB, Running, Library
<1>2. /\ crete_runtime_dump(FALSE) /\ block' = FALSE /\ tb' = NoTB
      /\ UNCHANGED <<makeConcolics, workaround, symbolics>>
  BY Zenon DEF OtherTB
<1>3. Recorder(FALSE)' /\ asserted'
  BY Zenon, <1>1, <1>2, Beginning
<1>4. Library'
  BY Zenon, <1>1, <1>2, Outside
<1> QED BY Zenon, <1>2, <1>3, <1>4 DEF RecorderInv, RecorderAsserts

LEMMA DumpHolds == ASSUME RecorderInv, Dump PROVE RecorderInv'
<1> DEFINE points == addMemoMergePoint(interested, FALSE, memoMergePoints)
           interrupts == NextInterruptStates(FALSE, reg)
<1>1. Recorder(FALSE) /\ Library /\ asserted /\ tb = NoTB
  BY Zenon DEF RecorderInv, Dump, Running
<1>2. /\ points \in Seq(Kinds) /\ Linked(points) /\ Len(points) = count
      /\ interested => CanClose(memoMergePoints)
      /\ count > 0 => points[count] \notin Open
  BY Zenon, <1>1, Merging
<1>3. Len(interrupts) = count
  BY Zenon, <1>1, Interrupts
<1>4. asserted' = (/\ asserted
                   /\ interested => CanClose(memoMergePoints)
                   /\ count > 0 => /\ cpuStates # <<>>
                                   /\ Len(memoSyncTables) = count
                                   /\ Len(points) = count
                                   /\ MergeAsserts(points)
                                   /\ Len(interrupts) = count)
  BY Zenon DEF Dump
<1> HIDE DEF points, interrupts
<1>5. count > 0 => MergeAsserts(points)
  BY <1>2, MergeHolds
<1>6. count > 0 => Len(memoSyncTables) = count /\ cpuStates # <<>>
  <2>1. Len(memoSyncTables) = count /\ Len(cpuStates) = IF count = 0 THEN 0 ELSE 1
    BY <1>1 DEF Recorder, Lengths
  <2> QED BY <2>1, EmptyIsSequence
<1>7. asserted' = TRUE
  BY <1>1, <1>2, <1>3, <1>4, <1>5, <1>6, Zenon
<1>8. Empty'
  BY Zenon, <1>7 DEF Dump, Empty
<1>9. Recorder(FALSE)'
  <2>1. (Empty => Recorder(FALSE))'
    BY Fresh, PTL
  <2> QED BY Zenon, <1>8, <2>1
<1>10. /\ makeConcolics' = <<>> /\ symbolics' = 0 /\ emit' = FALSE /\ tb' = NoTB
       /\ workaround' = workaround /\ workaround \in BOOLEAN
  BY Zenon, <1>1 DEF Dump, Library
<1>11. IsSequence(makeConcolics') /\ Len(makeConcolics') = 0
  BY <1>10, EmptyIsSequence, Zenon
<1>12. ~Pending' /\ Len(makeConcolics') \in symbolics' .. (symbolics' + 1) /\ symbolics' \in Nat
  BY <1>10, <1>11 DEF Pending
<1>13. Library'
  BY Zenon, <1>10, <1>11, <1>12 DEF Library
<1> QED BY Zenon, <1>7, <1>9, <1>10, <1>13 DEF RecorderInv, RecorderAsserts

\* Every step of the recorder keeps RecorderInv.
LEMMA StepHolds == RecorderInv /\ [Next]_vars => RecorderInv'
<1> SUFFICES ASSUME RecorderInv, [Next]_vars PROVE RecorderInv'
  OBVIOUS
<1>1. ASSUME NEW p \in Progs, NEW excluded \in BOOLEAN, BeginTB(p, excluded) PROVE RecorderInv'
  BY <1>1, BeginTBHolds
<1>2. CASE Load
  BY <1>2, LoadHolds
<1>3. ASSUME NEW miss \in BOOLEAN, HelperLoad(miss) PROVE RecorderInv'
  BY <1>3, HelperLoadHolds
<1>4. CASE Store
  BY <1>4, StoreHolds
<1>5. CASE MakeConcolic
  <2> DEFINE v == Vars[Len(makeConcolics) + 1]
  <2>1. /\ InTB /\ Cur.op = "concolic" /\ makeConcolics' = Append(makeConcolics, v)
        /\ block' = FALSE /\ Advance(<<>>, FALSE, FALSE)
        /\ UNCHANGED <<flags, env, symbolics, asserted>> /\ UNCHANGED <<emit, workaround>>
    BY Zenon, <1>5 DEF MakeConcolic
  <2> HIDE DEF v
  <2> QED BY Zenon, <2>1, ConcolicHolds
<1>6. CASE MakeConcolicThrows
  <2> DEFINE v == Vars[Len(makeConcolics) + 1]
  <2>1. /\ InTB /\ Cur.op = "concolic" /\ makeConcolics' = Append(makeConcolics, v)
        /\ block' = FALSE /\ Advance(<<>>, FALSE, FALSE)
        /\ UNCHANGED <<flags, env, symbolics, asserted>> /\ emit' = FALSE /\ workaround' = TRUE
    BY Zenon, <1>6 DEF MakeConcolicThrows
  <2> HIDE DEF v
  <2> QED BY Zenon, <2>1, ConcolicHolds
<1>7. CASE helper_crete_make_symbolic
  BY <1>7, SymbolicHolds
<1>8. CASE CaptureEnd
  BY <1>8, CaptureEndHolds
<1>9. CASE PageFault
  BY <1>9, InterruptHolds DEF PageFault
<1>10. CASE Raise
  BY <1>10, InterruptHolds DEF Raise
<1>11. CASE EndTB
  BY <1>11, EndTBHolds
<1>12. CASE KernelTB
  BY <1>12, OtherHolds DEF KernelTB
<1>13. CASE CaptureBegin
  BY <1>13, OtherHolds DEF CaptureBegin
<1>14. CASE Dump
  BY <1>14, DumpHolds
<1>15. CASE UNCHANGED vars
  <2>1. Recorder(TRUE) => Recorder(TRUE)'
    BY Zenon, <1>15 DEF vars, flags, env, taint, Recorder, Types, Lengths
  <2>2. Recorder(FALSE) => Recorder(FALSE)'
    BY Zenon, <1>15 DEF vars, flags, env, taint, Recorder, Types, Lengths
  <2>3. Library' /\ RecorderAsserts'
    BY Zenon, <1>15 DEF vars, flags, env, RecorderInv, RecorderAsserts, Library, Pending, Due
  <2>4. tb' = tb
    BY <1>15 DEF vars
  <2> QED BY Zenon, <2>1, <2>2, <2>3, <2>4 DEF RecorderInv
<1> QED
  BY <1>1, <1>2, <1>3, <1>4, <1>5, <1>6, <1>7, <1>8, <1>9, <1>10, <1>11, <1>12, <1>13, <1>14, <1>15 DEF Next

\* No assertion of the recorder ever fails, whatever the target executes and the kernel
\* interrupts, unless MAKE_CONCOLIC ran into its runtime_error.
THEOREM AssertionsHold == Spec => []RecorderAsserts
<1>1. RecorderInv => RecorderAsserts
  BY DEF RecorderInv
<1> QED BY <1>1, InitHolds, StepHolds, PTL DEF Spec

-----------------------------------------------------------------------------
(* The tables and the blocks that are kept.                                *)

\* The byte at x as the first recorded load of it has read it.
FirstRead(p, r, x) == LET j == Lowest(Reads(p, r, x)) IN r[j].data[x - p[j].a + 1]

\* A table that holds the first reads r of the program p.
GoodTable(t, p, r) ==
  /\ \E B : t \in SUBSET Entry(B)
  /\ Disjoint(t)
  /\ \A x : Reads(p, r, x) # {} <=> InTable(t, x)
  /\ \A e \in t : \A x \in Covered(e) : ByteAt(e, x) = FirstRead(p, r, x)

\* The tables of the kept TBs, and of the TB under execution.
ReadsInv ==
  /\ IsSequence(observed) /\ Len(observed) = Len(tbExecSequ)
  /\ \A i \in 1 .. Len(tbExecSequ) : GoodTable(memoSyncTables[i], tbExecSequ[i], observed[i])
  /\ tb # NoTB => IsSequence(tb.reads) /\ Len(tb.reads) = tb.pc - 1
  /\ tb # NoTB /\ dump_enable =>
       GoodTable(memoSyncTables[Len(memoSyncTables)], tb.prog, tb.reads)

\* The block flag is set in a TB that has touched something symbolic.
DropInv == tb # NoTB /\ tb.sym => block \/ Cleared

-----------------------------------------------------------------------------
(* Tables.                                                                 *)

LEMMA LargerSet ==
  ASSUME NEW B, NEW D, NEW s, s \in Seq(B) \/ s \in Seq(D)
  PROVE  s \in Seq(B \cup D)
OBVIOUS

LEMMA Positive == ASSUME NEW n \in Nat \ {0} PROVE n > 0
OBVIOUS

LEMMA CountFacts ==
  ASSUME NEW n \in Nat, NEW k \in 1 .. n
  PROVE  k \in Nat /\ (k - 1) + 1 = k /\ (k + 1) - 1 = k /\ k \in 1 .. ((k + 1) - 1)
OBVIOUS

LEMMA BeyondFacts ==
  ASSUME NEW n \in Nat
  PROVE  /\ n + 1 \in 1 .. n + 1 /\ n + 1 \notin 1 .. n /\ n + 1 \in Nat
         /\ \A i \in 1 .. n : i \in 1 .. n + 1 /\ i <= n + 1 /\ i \in Nat
OBVIOUS

LEMMA OneLess == ASSUME NEW k \in Nat, k > 0 PROVE k \in 1 .. k /\ k - 1 \in Nat /\ k - 1 <= k
OBVIOUS

LEMMA LowestIs ==
  ASSUME NEW S \in SUBSET Nat, NEW m \in S, \A y \in S : m <= y
  PROVE  Lowest(S) = m
<1> DEFINE l == Lowest(S)
<1>1. l \in S /\ \A y \in S : l <= y
  BY Zenon DEF Lowest
<1> HIDE DEF l
<1>2. l <= m /\ m <= l /\ l \in Nat /\ m \in Nat
  BY <1>1
<1>3. l = m
  BY <1>2
<1> QED BY <1>3 DEF l

LEMMA LowestIn ==
  ASSUME NEW S \in SUBSET Nat, S # {}
  PROVE  Lowest(S) \in S /\ \A y \in S : Lowest(S) <= y
  BY Zenon, Least DEF Lowest

\* What the operation behind r, which has read d, adds to the reads of the byte at x; new:
\* it is a recorded load of it.
AddsRead(p, r, q, x, d, new) ==
  /\ Reads(p, q, x) = Reads(p, r, x) \cup (IF new THEN {Len(r) + 1} ELSE {})
  /\ Reads(p, r, x) # {} => FirstRead(p, q, x) = FirstRead(p, r, x)
  /\ Reads(p, r, x) = {} /\ new => FirstRead(p, q, x) = d[x - p[Len(r) + 1].a + 1]

LEMMA ReadsGrow ==
  ASSUME NEW p, NEW r, IsSequence(r), NEW d, NEW seen \in BOOLEAN, NEW x
  PROVE  AddsRead(p, r, Append(r, [data |-> d, seen |-> seen]), x, d,
                  seen /\ p[Len(r) + 1].op \in {"ld", "ldh"} /\ x \in Span(p[Len(r) + 1].a, p[Len(r) + 1].n))
<1> DEFINE k == Len(r) + 1  z == [data |-> d, seen |-> seen]  q == Append(r, z)
           new == seen /\ p[k].op \in {"ld", "ldh"} /\ x \in Span(p[k].a, p[k].n)
           R == Reads(p, r, x)  Q == Reads(p, q, x)
<1>1. z.data = d /\ z.seen = seen
  OBVIOUS
<1> HIDE DEF z
<1>2. /\ Len(r) \in Nat /\ Len(q) = k /\ q[k] = z
      /\ \A i \in 1 .. Len(r) : q[i] = r[i]
  <2>1. Longer(r, z, q)
    BY Zenon, Lengthening
  <2> QED BY Zenon, <2>1 DEF Longer
<1> HIDE DEF q
<1>3. \A i \in 1 .. k : i = k \/ i \in 1 .. Len(r)
  BY <1>2
<1>4. k \in 1 .. k /\ k \notin 1 .. Len(r) /\ k \in Nat /\ \A i \in 1 .. Len(r) : i \in 1 .. k /\ i <= k /\ i \in Nat
  BY Zenon, <1>2, BeyondFacts
<1> HIDE DEF k
<1>5. Q = R \cup (IF new THEN {k} ELSE {})
  <2>1. ASSUME NEW j PROVE j \in Q <=> j \in R \/ (new /\ j = k)
    <3>1. CASE j = k
      BY Zenon, <1>1, <1>2, <1>4, <3>1 DEF Reads
    <3>2. CASE j # k
      BY Zenon, <1>2, <1>3, <1>4, <3>2 DEF Reads
    <3> QED BY Zenon, <3>1, <3>2
  <2> HIDE DEF Q, R, new
  <2> QED BY <2>1
<1>6. R \in SUBSET (1 .. Len(r)) /\ R \in SUBSET Nat /\ Q \in SUBSET Nat
  BY Zenon, <1>2, <1>4, <1>5 DEF Reads
<1>7. ASSUME R # {} PROVE FirstRead(p, q, x) = FirstRead(p, r, x)
  <2> DEFINE l == Lowest(R)
  <2> HIDE DEF R, Q, new
  <2>1. l \in R /\ \A y \in R : l <= y
    BY <1>6, <1>7, LowestIn
  <2>2. l \in Q /\ \A y \in Q : l <= y
    BY Zenon, <1>4, <1>5, <1>6, <2>1
  <2>3. Lowest(Q) = l
    BY Zenon, <1>6, <2>2, LowestIs
  <2>4. q[l] = r[l]
    BY Zenon, <1>2, <1>6, <2>1
  <2> QED BY Zenon, <2>3, <2>4 DEF FirstRead, Q, R
<1>8. ASSUME R = {}, new PROVE FirstRead(p, q, x) = d[x - p[k].a + 1]
  <2>1. Q = {k}
    BY Zenon, <1>5, <1>8
  <2>2. Lowest(Q) = k
    <3>1. \A y \in Q : k <= y
      BY <1>4, <2>1
    <3> HIDE DEF Q
    <3> QED BY <1>6, <2>1, <3>1, LowestIs
  <2> QED BY Zenon, <1>1, <1>2, <2>2 DEF FirstRead
<1> QED BY Zenon, <1>5, <1>7, <1>8 DEF q, z, k, AddsRead

\* A recorded load keeps a table good.
LEMMA SeenLoad ==
  ASSUME NEW t, NEW p, NEW r, GoodTable(t, p, r), IsSequence(r), NEW D, NEW d \in Seq(D),
         p[Len(r) + 1].op \in {"ld", "ldh"}, p[Len(r) + 1].a \in Nat,
         p[Len(r) + 1].n \in Nat \ {0}, Len(d) = p[Len(r) + 1].n
  PROVE  GoodTable(addMemoSyncTableEntryInternal(p[Len(r) + 1].a, d, t), p,
                   Append(r, [data |-> d, seen |-> TRUE]))
<1> DEFINE k == Len(r) + 1  a == p[k].a  q == Append(r, [data |-> d, seen |-> TRUE])
           u == addMemoSyncTableEntryInternal(a, d, t)
<1>1. PICK B : t \in SUBSET Entry(B)
  BY Zenon DEF GoodTable
<1> DEFINE C == B \cup D
<1>2. t \in SUBSET Entry(C) /\ d \in Seq(C)
  <2>1. \A s \in Seq(B) : s \in Seq(C)
    BY Zenon, LargerSet
  <2>2. d \in Seq(C)
    BY Zenon, LargerSet
  <2> HIDE DEF C
  <2> QED BY Zenon, <1>1, <2>1, <2>2 DEF Entry
<1>3. /\ Disjoint(t)
      /\ \A x : Reads(p, r, x) # {} <=> InTable(t, x)
      /\ \A e \in t : \A x \in Covered(e) : ByteAt(e, x) = FirstRead(p, r, x)
  BY Zenon DEF GoodTable
<1>4. a \in Nat /\ Len(d) > 0 /\ Len(d) = p[k].n
  BY Zenon, Positive
<1> HIDE DEF C, a
<1>5. /\ u \in SUBSET Entry(C) /\ Disjoint(u)
      /\ \A x : InTable(u, x) <=> InTable(t, x) \/ x \in a .. (a + Len(d) - 1)
      /\ \A e \in u : \A x \in Covered(e) :
           IF InTable(t, x) THEN \E f \in t : x \in Covered(f) /\ ByteAt(e, x) = ByteAt(f, x)
                            ELSE ByteAt(e, x) = d[x - a + 1]
  BY Zenon, <1>2, <1>3, <1>4, EntryAdded
<1>6. p[k].op \in {"ld", "ldh"} /\ \A x : x \in Span(p[k].a, p[k].n) <=> x \in a .. (a + Len(d) - 1)
  BY Zenon, <1>4 DEF Span, a
<1>7. ASSUME NEW x
      PROVE  /\ Reads(p, q, x) = Reads(p, r, x) \cup (IF x \in a .. (a + Len(d) - 1) THEN {k} ELSE {})
             /\ Reads(p, r, x) # {} => FirstRead(p, q, x) = FirstRead(p, r, x)
             /\ Reads(p, r, x) = {} /\ x \in a .. (a + Len(d) - 1) =>
                  FirstRead(p, q, x) = d[x - a + 1]
  <2> DEFINE new == TRUE /\ p[k].op \in {"ld", "ldh"} /\ x \in Span(p[k].a, p[k].n)
  <2>1. /\ Reads(p, q, x) = Reads(p, r, x) \cup (IF new THEN {k} ELSE {})
        /\ Reads(p, r, x) # {} => FirstRead(p, q, x) = FirstRead(p, r, x)
        /\ Reads(p, r, x) = {} /\ new => FirstRead(p, q, x) = d[x - p[k].a + 1]
    <3>1. AddsRead(p, r, q, x, d, new)
      BY Zenon, ReadsGrow
    <3> QED BY Zenon, <3>1 DEF AddsRead
  <2>2. new <=> x \in a .. (a + Len(d) - 1)
    BY Zenon, <1>6
  <2> HIDE DEF new, k, q
  <2> QED BY Zenon, <2>1, <2>2 DEF a
<1> HIDE DEF k, q, u
<1>8. \A x : Reads(p, q, x) # {} <=> InTable(u, x)
  BY Zenon, <1>3, <1>5, <1>7
<1>9. ASSUME NEW e \in u, NEW x \in Covered(e) PROVE ByteAt(e, x) = FirstRead(p, q, x)
  <2>1. CASE InTable(t, x)
    <3>1. PICK f \in t : x \in Covered(f) /\ ByteAt(e, x) = ByteAt(f, x)
      BY Zenon, <1>5, <2>1
    <3>2. ByteAt(f, x) = FirstRead(p, r, x)
      BY Zenon, <1>3, <3>1
    <3> QED BY Zenon, <1>3, <1>7, <2>1, <3>1, <3>2
  <2>2. CASE ~InTable(t, x)
    <3>1. ByteAt(e, x) = d[x - a + 1] /\ InTable(u, x)
      BY Zenon, <1>5, <2>2 DEF InTable
    <3>2. x \in a .. (a + Len(d) - 1) /\ Reads(p, r, x) = {}
      BY Zenon, <1>3, <1>5, <2>2, <3>1
    <3> QED BY Zenon, <1>7, <3>1, <3>2
  <2> QED BY Zenon, <2>1, <2>2
<1>10. GoodTable(u, p, q)
  BY Zenon, <1>5, <1>8, <1>9 DEF GoodTable
<1> QED BY Zenon, <1>10 DEF u, q, a, k

\* An operation that is not recorded keeps a table good.
LEMMA UnseenOperation ==
  ASSUME NEW t, NEW p, NEW r, GoodTable(t, p, r), IsSequence(r), NEW d
  PROVE  GoodTable(t, p, Append(r, [data |-> d, seen |-> FALSE]))
<1> DEFINE q == Append(r, [data |-> d, seen |-> FALSE])
<1>1. ASSUME NEW x
      PROVE  /\ Reads(p, q, x) = Reads(p, r, x)
             /\ Reads(p, r, x) # {} => FirstRead(p, q, x) = FirstRead(p, r, x)
  <2> DEFINE new == FALSE /\ p[Len(r) + 1].op \in {"ld", "ldh"}
                          /\ x \in Span(p[Len(r) + 1].a, p[Len(r) + 1].n)
  <2>1. AddsRead(p, r, q, x, d, new)
    BY Zenon, ReadsGrow
  <2>2. ~new
    BY Zenon
  <2> HIDE DEF new, q
  <2> QED BY Zenon, <2>1, <2>2 DEF AddsRead
<1> HIDE DEF q
<1>2. \A e \in t : \A x \in Covered(e) : InTable(t, x)
  BY DEF InTable
<1>3. GoodTable(t, p, q)
  BY <1>1, <1>2 DEF GoodTable
<1> QED BY <1>3 DEF q

\* The empty table is good for a TB that has done nothing.
LEMMA EmptyTable == ASSUME NEW p PROVE GoodTable({}, p, <<>>)
<1>1. \A x : Reads(p, <<>>, x) = {}
  BY EmptyIsSequence DEF Reads
<1>2. \A x : ~InTable({}, x)
  BY DEF InTable
<1>3. Disjoint({}) /\ {} \in SUBSET Entry({})
  BY DEF Disjoint
<1> QED BY <1>1, <1>2, <1>3 DEF GoodTable

-----------------------------------------------------------------------------
(* The tables of the recorder.                                             *)

\* The kept TBs when their tables stay.
LEMMA KeptTables ==
  ASSUME ReadsInv, UNCHANGED <<tbExecSequ, observed>>,
         \A i \in 1 .. Len(tbExecSequ) : memoSyncTables'[i] = memoSyncTables[i]
  PROVE  /\ IsSequence(observed') /\ Len(observed') = Len(tbExecSequ')
         /\ \A i \in 1 .. Len(tbExecSequ') : GoodTable(memoSyncTables'[i], tbExecSequ'[i], observed'[i])
  BY Zenon DEF ReadsInv

\* An operation that records nothing.
LEMMA NothingRecorded ==
  ASSUME RecorderInv, ReadsInv, InTB, NEW data, NEW sym, Advance(data, FALSE, sym),
         UNCHANGED <<dump_enable, memoSyncTables, tbExecSequ, observed>>
  PROVE  ReadsInv'
<1>1. Library
  BY DEF RecorderInv
<1>2. /\ tb'.prog = tb.prog /\ tb'.pc = tb.pc + 1 /\ tb.pc \in 1 .. Len(tb.prog) /\ Len(tb.prog) \in Nat
      /\ tb'.reads = Append(tb.reads, [data |-> data, seen |-> FALSE])
  BY Zenon, <1>1, Advancing
<1>3. IsSequence(tb.reads) /\ Len(tb.reads) = tb.pc - 1
  BY Zenon DEF ReadsInv, InTB
<1>4. IsSequence(tb'.reads) /\ Len(tb'.reads) = Len(tb.reads) + 1
  <2>1. Longer(tb.reads, [data |-> data, seen |-> FALSE], tb'.reads)
    BY Zenon, <1>2, <1>3, Lengthening
  <2> QED BY Zenon, <2>1 DEF Longer
<1>5. Len(tb'.reads) = tb'.pc - 1
  <2>1. (tb.pc - 1) + 1 = tb.pc /\ (tb.pc + 1) - 1 = tb.pc
    BY Zenon, <1>2, CountFacts
  <2> QED BY Zenon, <1>2, <1>3, <1>4, <2>1
<1>6. dump_enable' => GoodTable(memoSyncTables'[Len(memoSyncTables')], tb'.prog, tb'.reads)
  <2> SUFFICES ASSUME dump_enable
               PROVE  GoodTable(memoSyncTables[Len(memoSyncTables)], tb'.prog, tb'.reads)
    OBVIOUS
  <2>1. GoodTable(memoSyncTables[Len(memoSyncTables)], tb.prog, tb.reads)
    BY Zenon DEF ReadsInv, InTB
  <2> QED BY Zenon, <1>2, <1>3, <2>1, UnseenOperation
<1>7. /\ IsSequence(observed') /\ Len(observed') = Len(tbExecSequ')
      /\ \A i \in 1 .. Len(tbExecSequ') : GoodTable(memoSyncTables'[i], tbExecSequ'[i], observed'[i])
  BY KeptTables
<1> QED BY Zenon, <1>4, <1>5, <1>6, <1>7 DEF ReadsInv

\* A load that is recorded.
LEMMA LoadRecorded ==
  ASSUME RecorderInv, ReadsInv, InTB, Cur.op \in {"ld", "ldh"}, dump_enable,
         NEW sym, Advance(Data(Cur.a, Cur.n), TRUE, sym),
         addMemoSyncTableEntry(Cur.a, Data(Cur.a, Cur.n)),
         UNCHANGED <<dump_enable, tbExecSequ, observed>>
  PROVE  ReadsInv'
<1> DEFINE a == Cur.a  n == Cur.n  d == Data(a, n)  k == Len(memoSyncTables)
           t == memoSyncTables[k]  p == tb.prog  r == tb.reads
           u == addMemoSyncTableEntryInternal(a, d, t)
<1>1. /\ Recorder(TRUE) /\ Library /\ interested
  BY Zenon DEF RecorderInv, InTB, Library
<1>2. /\ tb'.prog = p /\ tb'.pc = tb.pc + 1 /\ tb.pc \in 1 .. Len(p) /\ Len(p) \in Nat
      /\ tb'.reads = Append(r, [data |-> d, seen |-> TRUE])
  BY Zenon, <1>1, Advancing
<1>3. IsSequence(r) /\ Len(r) = tb.pc - 1 /\ GoodTable(t, p, r) /\ p \in Progs
  BY Zenon, <1>1 DEF ReadsInv, InTB, Library
<1>4. IsSequence(tb'.reads) /\ Len(tb'.reads) = Len(r) + 1
  <2>1. Longer(r, [data |-> d, seen |-> TRUE], tb'.reads)
    BY Zenon, <1>2, <1>3, Lengthening
  <2> QED BY Zenon, <2>1 DEF Longer
<1>5. Len(tb'.reads) = tb'.pc - 1 /\ Len(r) + 1 = tb.pc
  <2>1. (tb.pc - 1) + 1 = tb.pc /\ (tb.pc + 1) - 1 = tb.pc
    BY Zenon, <1>2, CountFacts
  <2> QED BY Zenon, <1>2, <1>3, <1>4, <2>1
<1>6. a \in Nat /\ n \in Nat \ {0}
  BY Zenon, <1>2, <1>3, ProgsAssumption DEF Cur
<1>7. d \in Seq({mem[a + i - 1] : i \in 1 .. n}) /\ Len(d) = n
  <2> DEFINE g(i) == mem[a + i - 1]  D == {g(i) : i \in 1 .. n}
  <2>1. d = [i \in 1 .. n |-> g(i)]
    BY DEF Data
  <2>2. \A i \in 1 .. n : g(i) \in D
    BY Zenon
  <2> HIDE DEF D, g, n
  <2>3. [i \in 1 .. n |-> g(i)] \in Seq(D) /\ Len([i \in 1 .. n |-> g(i)]) = n
    BY <1>6, <2>2
  <2> QED BY Zenon, <2>1, <2>3 DEF D, g
<1>8. /\ p[Len(r) + 1].op \in {"ld", "ldh"} /\ p[Len(r) + 1].a = a /\ p[Len(r) + 1].n = n
  BY Zenon, <1>5 DEF Cur
<1> HIDE DEF a, n, d, p, r
<1>9. GoodTable(u, p, Append(r, [data |-> d, seen |-> TRUE]))
  <2> HIDE DEF t
  <2> DEFINE D == {mem[a + i - 1] : i \in 1 .. n}
  <2>1. d \in Seq(D)
    BY <1>7
  <2> HIDE DEF D
  <2>2. GoodTable(addMemoSyncTableEntryInternal(p[Len(r) + 1].a, d, t), p, Append(r, [data |-> d, seen |-> TRUE]))
    BY Zenon, <1>3, <1>6, <1>7, <1>8, <2>1, SeenLoad
  <2> QED BY Zenon, <1>8, <2>2
<1>10. /\ IsSequence(memoSyncTables) /\ k \in 1 .. k /\ Len(tbExecSequ) = k - 1 /\ k \in Nat
  <2>1. /\ IsSequence(memoSyncTables) /\ k = count /\ count \in Nat /\ count > 0
        /\ Len(tbExecSequ) = count - 1
    BY Zenon, <1>1 DEF Recorder, Types, Lengths
  <2> QED BY Zenon, <2>1, OneLess
<1>11. /\ memoSyncTables' = [memoSyncTables EXCEPT ![k] = u]
  BY DEF addMemoSyncTableEntry, a, d, n
<1>12. Len(memoSyncTables') = k
  <2> HIDE DEF u
  <2> QED BY <1>10, <1>11, Updating
<1>13. /\ memoSyncTables'[k] = u
       /\ \A i \in 1 .. (k - 1) : memoSyncTables'[i] = memoSyncTables[i]
  <2> HIDE DEF u
  <2>1. memoSyncTables \in [1 .. k -> Range(memoSyncTables)]
    BY <1>10 DEF IsSequence
  <2> HIDE DEF k
  <2> QED BY <1>10, <1>11, <2>1
<1>14. /\ IsSequence(observed') /\ Len(observed') = Len(tbExecSequ')
       /\ \A i \in 1 .. Len(tbExecSequ') : GoodTable(memoSyncTables'[i], tbExecSequ'[i], observed'[i])
  <2>1. \A i \in 1 .. Len(tbExecSequ) : memoSyncTables'[i] = memoSyncTables[i]
    BY Zenon, <1>10, <1>13
  <2> QED BY Zenon, <2>1, KeptTables
<1>15. GoodTable(memoSyncTables'[Len(memoSyncTables')], tb'.prog, tb'.reads)
  BY Zenon, <1>2, <1>9, <1>12, <1>13
<1> QED BY Zenon, <1>4, <1>5, <1>14, <1>15 DEF ReadsInv

\* A TB begins, with a table of its own if it is recorded.
LEMMA TableBegins ==
  ASSUME RecorderInv, ReadsInv, tb = NoTB, NEW now \in BOOLEAN, crete_runtime_dump(now),
         UNCHANGED observed,
         tb' = NoTB \/ (tb'.reads = <<>> /\ tb'.pc = 1),
         tb' = NoTB => ~now
  PROVE  ReadsInv'
<1> DEFINE k == Len(memoSyncTables)
<1>1. IsSequence(memoSyncTables) /\ Len(tbExecSequ) <= k /\ k \in Nat /\ Len(tbExecSequ) \in Nat
  <2>1. IsSequence(memoSyncTables) /\ k = count /\ count \in Nat
    BY Zenon DEF RecorderInv, Recorder, Types, Lengths
  <2>2. Len(tbExecSequ) = count \/ (count > 0 /\ Len(tbExecSequ) = count - 1)
    BY Zenon DEF RecorderInv, Recorder, Lengths
  <2>3. count <= count /\ (count > 0 => count - 1 \in Nat /\ count - 1 <= count)
    BY <2>1
  <2> QED BY Zenon, <2>1, <2>2, <2>3
<1>2. /\ UNCHANGED tbExecSequ /\ dump_enable' = now
      /\ memoSyncTables' = IF now THEN Append(memoSyncTables, {}) ELSE memoSyncTables
  BY Zenon DEF crete_runtime_dump
<1>3. /\ Len(Append(memoSyncTables, {})) = k + 1 /\ Append(memoSyncTables, {})[k + 1] = {}
      /\ \A i \in 1 .. k : Append(memoSyncTables, {})[i] = memoSyncTables[i]
  <2>1. Longer(memoSyncTables, {}, Append(memoSyncTables, {}))
    BY Zenon, <1>1, Lengthening
  <2> QED BY Zenon, <2>1 DEF Longer
<1>4. \A i \in 1 .. Len(tbExecSequ) : memoSyncTables'[i] = memoSyncTables[i]
  BY <1>1, <1>2, <1>3
<1>5. /\ IsSequence(observed') /\ Len(observed') = Len(tbExecSequ')
      /\ \A i \in 1 .. Len(tbExecSequ') : GoodTable(memoSyncTables'[i], tbExecSequ'[i], observed'[i])
  BY Zenon, <1>2, <1>4, KeptTables
<1>6. tb' # NoTB => IsSequence(tb'.reads) /\ Len(tb'.reads) = tb'.pc - 1
  <2>1. 0 = 1 - 1
    OBVIOUS
  <2> QED BY Zenon, <2>1, EmptyIsSequence
<1>7. ASSUME tb' # NoTB, dump_enable'
      PROVE  GoodTable(memoSyncTables'[Len(memoSyncTables')], tb'.prog, tb'.reads)
  <2>1. memoSyncTables'[Len(memoSyncTables')] = {} /\ tb'.reads = <<>>
    BY Zenon, <1>2, <1>3, <1>7
  <2> QED BY Zenon, <2>1, EmptyTable
<1> QED BY Zenon, <1>5, <1>6, <1>7 DEF ReadsInv

\* A TB ends and is kept, or taken back, or was not recorded.
LEMMA TableEnds ==
  ASSUME RecorderInv, ReadsInv, tb # NoTB, crete_post_runtime_dump, tb' = NoTB
  PROVE  ReadsInv'
<1> DEFINE k == Len(memoSyncTables)
<1>1. /\ IsSequence(memoSyncTables) /\ k \in Nat /\ Len(tbExecSequ) \in Nat
      /\ IsSequence(tbExecSequ)
      /\ interested => k > 0 /\ Len(tbExecSequ) = k - 1
      /\ dump_enable = interested
  <2>1. IsSequence(memoSyncTables) /\ IsSequence(tbExecSequ) /\ dump_enable = interested
    BY Zenon DEF RecorderInv, Recorder, Types, Library
  <2>2. /\ k \in Nat /\ Len(tbExecSequ) \in Nat
        /\ interested => k > 0 /\ Len(tbExecSequ) = k - 1
    <3>1. k = count /\ count \in Nat
      BY Zenon DEF RecorderInv, Recorder, Types, Lengths
    <3>2. interested => count > 0 /\ Len(tbExecSequ) = count - 1
      BY Zenon DEF RecorderInv, Recorder, Lengths
    <3>3. ~interested => Len(tbExecSequ) = count
      BY Zenon DEF RecorderInv, Recorder, Lengths
    <3>4. count > 0 => count - 1 \in Nat
      BY <3>1
    <3> QED BY Zenon, <3>1, <3>2, <3>3, <3>4
  <2> QED BY Zenon, <2>1, <2>2
<1>2. CASE interested /\ ~block
  <2>1. UNCHANGED <<tbExecSequ, observed>> /\ memoSyncTables' = pop_back(memoSyncTables)
    BY Zenon, <1>2 DEF crete_post_runtime_dump, reverseTBDump
  <2>2. \A i \in 1 .. (k - 1) : pop_back(memoSyncTables)[i] = memoSyncTables[i]
    BY <1>1, <1>2, Shortening
  <2>3. \A i \in 1 .. Len(tbExecSequ) : memoSyncTables'[i] = memoSyncTables[i]
    BY Zenon, <1>1, <1>2, <2>1, <2>2
  <2> QED BY Zenon, <2>1, <2>3, KeptTables DEF ReadsInv
<1>3. CASE interested /\ block
  <2>1. /\ tbExecSequ' = Append(tbExecSequ, tb.prog) /\ observed' = Append(observed, tb.reads)
        /\ memoSyncTables' = memoSyncTables
    BY <1>3 DEF crete_post_runtime_dump, dump_TBExecSequ
  <2> DEFINE n == Len(tbExecSequ)
  <2>2. /\ IsSequence(observed) /\ Len(observed) = n
        /\ \A i \in 1 .. n : GoodTable(memoSyncTables[i], tbExecSequ[i], observed[i])
        /\ GoodTable(memoSyncTables[k], tb.prog, tb.reads)
    BY Zenon, <1>1, <1>3 DEF ReadsInv
  <2>3. /\ Len(tbExecSequ') = n + 1 /\ tbExecSequ'[n + 1] = tb.prog
        /\ \A i \in 1 .. n : tbExecSequ'[i] = tbExecSequ[i]
    <3>1. Longer(tbExecSequ, tb.prog, tbExecSequ')
      BY Zenon, <1>1, <2>1, Lengthening
    <3> QED BY Zenon, <3>1 DEF Longer
  <2>4. /\ IsSequence(observed') /\ Len(observed') = n + 1 /\ observed'[n + 1] = tb.reads
        /\ \A i \in 1 .. n : observed'[i] = observed[i]
    <3>1. /\ IsSequence(observed') /\ Len(observed') = Len(observed) + 1
          /\ observed'[Len(observed) + 1] = tb.reads
          /\ \A i \in 1 .. Len(observed) : observed'[i] = observed[i]
      BY Zenon, <2>1, <2>2, Appending
    <3> HIDE DEF n
    <3> QED BY <2>2, <3>1, Zenon
  <2>5. n \in Nat /\ k = n + 1
    BY <1>1, <1>3
  <2> HIDE DEF n, k
  <2>6. ASSUME NEW i \in 1 .. (n + 1)
        PROVE  GoodTable(memoSyncTables'[i], tbExecSequ'[i], observed'[i])
    <3>1. CASE i = n + 1
      BY Zenon, <2>1, <2>2, <2>3, <2>4, <2>5, <3>1
    <3>2. CASE i # n + 1
      <4>1. i \in 1 .. n
        BY <2>5, <3>2
      <4> QED BY Zenon, <2>1, <2>2, <2>3, <2>4, <4>1
    <3> QED BY <3>1, <3>2
  <2> QED BY Zenon, <2>3, <2>4, <2>6 DEF ReadsInv
<1>4. CASE ~interested
  <2>1. UNCHANGED <<tbExecSequ, observed, memoSyncTables>>
    BY <1>4 DEF crete_post_runtime_dump
  <2> QED BY Zenon, <2>1, KeptTables DEF ReadsInv
<1> QED BY <1>2, <1>3, <1>4

\* Every step of the recorder keeps ReadsInv.
LEMMA ReadsStep == RecorderInv /\ ReadsInv /\ [Next]_vars => ReadsInv'
<1> SUFFICES ASSUME RecorderInv, ReadsInv, [Next]_vars PROVE ReadsInv'
  OBVIOUS
<1>1. ASSUME NEW p \in Progs, NEW excluded \in BOOLEAN, BeginTB(p, excluded) PROVE ReadsInv'
  <2>1. /\ tb = NoTB /\ UNCHANGED observed /\ crete_runtime_dump(emit /\ ~excluded)
        /\ tb' = [prog |-> p, pc |-> 1, taint |-> emit, reads |-> <<>>, sym |-> FALSE]
    BY <1>1 DEF BeginTB
  <2>2. tb'.reads = <<>> /\ tb'.pc = 1
    BY <2>1
  <2>3. tb' # NoTB
    BY <2>2 DEF NoTB
  <2>4. (emit /\ ~excluded) \in BOOLEAN
    BY Zenon DEF RecorderInv, Library
  <2> QED BY Zenon, <2>1, <2>2, <2>3, <2>4, TableBegins
<1>2. CASE Load
  <2>1. /\ InTB /\ Cur.op = "ld" /\ UNCHANGED <<dump_enable, tbExecSequ, observed>>
        /\ IF dump_enable THEN addMemoSyncTableEntry(Cur.a, Data(Cur.a, Cur.n)) ELSE UNCHANGED memoSyncTables
        /\ Advance(Data(Cur.a, Cur.n), dump_enable, tb.taint /\ Span(Cur.a, Cur.n) \cap symMem # {})
    BY Zenon, <1>2 DEF Load, flags
  <2>2. dump_enable \in BOOLEAN
    BY Zenon, <2>1 DEF RecorderInv, InTB, Recorder, Types
  <2>3. CASE dump_enable = TRUE
    BY Zenon, <2>1, <2>3, LoadRecorded
  <2>4. CASE dump_enable = FALSE
    BY Zenon, <2>1, <2>4, NothingRecorded
  <2> QED BY Zenon, <2>2, <2>3, <2>4
<1>3. ASSUME NEW miss \in BOOLEAN, HelperLoad(miss) PROVE ReadsInv'
  <2>1. /\ InTB /\ Cur.op = "ldh" /\ UNCHANGED <<dump_enable, tbExecSequ, observed>>
        /\ IF dump_enable /\ miss THEN addMemoSyncTableEntry(Cur.a, Data(Cur.a, Cur.n))
                                  ELSE UNCHANGED memoSyncTables
        /\ Advance(Data(Cur.a, Cur.n), dump_enable /\ miss, tb.taint /\ symReg)
    BY Zenon, <1>3 DEF HelperLoad, flags
  <2>2. (dump_enable /\ miss) \in BOOLEAN
    OBVIOUS
  <2>3. CASE (dump_enable /\ miss) = TRUE
    BY Zenon, <2>1, <2>3, LoadRecorded
  <2>4. CASE (dump_enable /\ miss) = FALSE
    BY Zenon, <2>1, <2>4, NothingRecorded
  <2> QED BY Zenon, <2>2, <2>3, <2>4
<1>4. CASE Store
  BY Zenon, <1>4, NothingRecorded DEF Store, flags, env
<1>5. CASE MakeConcolic
  BY Zenon, <1>5, NothingRecorded DEF MakeConcolic, flags, env
<1>6. CASE MakeConcolicThrows
  BY Zenon, <1>6, NothingRecorded DEF MakeConcolicThrows, flags, env
<1>7. CASE helper_crete_make_symbolic
  BY Zenon, <1>7, NothingRecorded DEF helper_crete_make_symbolic, flags, env
<1>8. CASE CaptureEnd
  BY Zenon, <1>8, NothingRecorded DEF CaptureEnd, flags, env
<1>9. ASSUME InTB, NEW info, raise_interrupt(info) PROVE ReadsInv'
  <2>1. tb # NoTB /\ tb' = NoTB
    BY <1>9 DEF raise_interrupt, InTB
  <2>2. CASE dump_enable
    BY <1>9, <2>1, <2>2, TableEnds DEF raise_interrupt
  <2>3. CASE ~dump_enable
    <3>1. UNCHANGED <<tbExecSequ, observed, memoSyncTables>>
      BY <1>9, <2>3 DEF raise_interrupt, env
    <3> QED BY Zenon, <2>1, <3>1, KeptTables DEF ReadsInv
  <2> QED BY <2>2, <2>3
<1>10. CASE PageFault \/ Raise
  BY <1>9, <1>10 DEF PageFault, Raise
<1>11. CASE EndTB
  BY <1>11, TableEnds DEF EndTB
<1>12. CASE OtherTB
  BY Zenon, <1>12, TableBegins DEF OtherTB
<1>13. CASE Dump
  <2>1. tbExecSequ' = <<>> /\ observed' = <<>> /\ tb' = NoTB
    BY Zenon, <1>13 DEF Dump
  <2>2. \A i : i \notin 1 .. 0
    OBVIOUS
  <2> QED BY Zenon, <2>1, <2>2, EmptyIsSequence DEF ReadsInv
<1>14. CASE UNCHANGED vars
  BY Zenon, <1>14 DEF vars, flags, env, ReadsInv
<1> QED
  BY <1>1, <1>2, <1>3, <1>4, <1>5, <1>6, <1>7, <1>8, <1>10, <1>11, <1>12, <1>13, <1>14
     DEF Next, KernelTB, CaptureBegin

-----------------------------------------------------------------------------
(* Dropped blocks.                                                         *)

\* An operation sets the block flag if it touches something symbolic; or it clears the flag
\* and is MAKE_CONCOLIC.
LEMMA FlagKept ==
  ASSUME Library, InTB, DropInv, NEW data, NEW seen, NEW sym, Advance(data, seen, sym),
         block \/ sym => block' \/ Cur.op = "concolic"
  PROVE  DropInv'
<1>1. /\ tb'.prog = tb.prog /\ tb'.pc = tb.pc + 1 /\ tb.pc \in 1 .. Len(tb.prog)
      /\ Len(tb.prog) \in Nat
  BY Zenon, Advancing
<1>2. \A j \in 1 .. (tb.pc - 1) : j \in 1 .. (tb'.pc - 1)
  <2> DEFINE n == tb.pc  m == tb'.pc  l == Len(tb.prog)
  <2>1. m = n + 1 /\ n \in 1 .. l /\ l \in Nat
    BY Zenon, <1>1
  <2> HIDE DEF n, m, l
  <2>2. \A j \in 1 .. (n - 1) : j \in 1 .. (m - 1)
    BY <2>1
  <2> QED BY Zenon, <2>2 DEF n, m
<1>3. Cleared => Cleared'
  BY Zenon, <1>1, <1>2 DEF Cleared
<1>4. Cur.op = "concolic" => Cleared'
  <2>1. tb.pc \in 1 .. (tb'.pc - 1)
    BY Zenon, <1>1, CountFacts
  <2> QED BY Zenon, <1>1, <2>1 DEF Cur, Cleared
<1>5. tb # NoTB
  BY DEF InTB
<1>6. tb'.sym => tb.sym \/ sym
  <2> DEFINE p == tb.prog  k == tb.pc  t == tb.taint  r == tb.reads  y == tb.sym
             v == [prog |-> p, pc |-> k, taint |-> t, reads |-> r, sym |-> y]
             w == [prog |-> p, pc |-> k + 1, taint |-> t,
                   reads |-> Append(r, [data |-> data, seen |-> seen]), sym |-> y \/ sym]
  <2>1. tb = v
    BY Zenon DEF Library, InTB
  <2>2. tb' = [v EXCEPT !.pc = @ + 1, !.reads = Append(@, [data |-> data, seen |-> seen]),
                        !.sym = @ \/ sym]
    BY Zenon, <2>1 DEF Advance
  <2> HIDE DEF p, k, t, r, y
  <2>3. tb' = w
    BY Zenon, <2>2
  <2>4. tb'.sym = (y \/ sym)
    BY Zenon, <2>3
  <2> QED BY <2>4, Zenon DEF y
<1>7. tb.sym => block \/ Cleared
  BY <1>5 DEF DropInv
<1>8. tb'.sym => block' \/ Cleared'
  BY <1>3, <1>4, <1>6, <1>7
<1> QED BY <1>8 DEF DropInv

\* Every step of the recorder keeps DropInv, and takes back no TB that has touched
\* something symbolic.
LEMMA DropStep ==
  RecorderInv /\ DropInv /\ [Next]_vars =>
    /\ DropInv'
    /\ tb # NoTB /\ tb' = NoTB /\ interested /\ ~interested' => ~tb.sym \/ Cleared
<1> DEFINE Drops == tb # NoTB /\ tb' = NoTB /\ interested /\ ~interested'
           Goal == DropInv' /\ (Drops => ~tb.sym \/ Cleared)
<1> SUFFICES ASSUME RecorderInv, DropInv, [Next]_vars PROVE Goal
  OBVIOUS
<1>1. Library
  BY DEF RecorderInv
<1>2. tb' = NoTB => DropInv'
  BY DEF DropInv
<1>3. ASSUME NEW p \in Progs, NEW excluded \in BOOLEAN, BeginTB(p, excluded) PROVE Goal
  <2>1. tb = NoTB /\ tb' = [prog |-> p, pc |-> 1, taint |-> emit, reads |-> <<>>, sym |-> FALSE]
    BY <1>3 DEF BeginTB
  <2>2. tb'.sym = FALSE
    BY Zenon, <2>1
  <2> QED BY Zenon, <2>1, <2>2 DEF DropInv
<1>4. CASE Load
  <2> DEFINE s == tb.taint /\ Span(Cur.a, Cur.n) \cap symMem # {}
  <2>1. /\ InTB /\ interested' = interested /\ block' = (block \/ s)
        /\ Advance(Data(Cur.a, Cur.n), dump_enable, s)
    BY Zenon, <1>4 DEF Load, flags, mark_block_symbolic
  <2> HIDE DEF s
  <2>2. block \/ s => block'
    BY <2>1, Zenon
  <2> QED BY <1>1, <2>1, <2>2, FlagKept
<1>5. ASSUME NEW miss \in BOOLEAN, HelperLoad(miss) PROVE Goal
  <2> DEFINE s == tb.taint /\ symReg
  <2>1. /\ InTB /\ interested' = interested /\ block' = (block \/ s)
        /\ Advance(Data(Cur.a, Cur.n), dump_enable /\ miss, s)
    BY Zenon, <1>5 DEF HelperLoad, flags, mark_block_symbolic
  <2> HIDE DEF s
  <2>2. block \/ s => block'
    BY <2>1, Zenon
  <2> QED BY <1>1, <2>1, <2>2, FlagKept
<1>6. CASE Store
  <2> DEFINE s == tb.taint /\ symReg /\ Cur.op = "st"
  <2>1. InTB /\ interested' = interested /\ block' = (block \/ s) /\ Advance(<<>>, FALSE, s)
    BY Zenon, <1>6 DEF Store, flags, mark_block_symbolic
  <2> HIDE DEF s
  <2>2. block \/ s => block'
    BY <2>1, Zenon
  <2> QED BY Zenon, <1>1, <2>1, <2>2, FlagKept
<1>7. CASE MakeConcolic \/ MakeConcolicThrows
  <2>1. InTB /\ interested' = interested /\ Cur.op = "concolic" /\ Advance(<<>>, FALSE, FALSE)
    BY Zenon, <1>7 DEF MakeConcolic, MakeConcolicThrows, flags
  <2> QED BY Zenon, <1>1, <2>1, FlagKept
<1>8. CASE helper_crete_make_symbolic
  <2>1. InTB /\ interested' = interested /\ block' = TRUE /\ Advance(<<>>, FALSE, TRUE)
    BY Zenon, <1>8 DEF helper_crete_make_symbolic, flags
  <2> QED BY Zenon, <1>1, <2>1, FlagKept
<1>9. CASE CaptureEnd
  <2>1. InTB /\ interested' = interested /\ block' = block /\ Advance(<<>>, FALSE, FALSE)
    BY Zenon, <1>9 DEF CaptureEnd, flags, taint
  <2> QED BY Zenon, <1>1, <2>1, FlagKept
<1>10. ASSUME tb # NoTB, tb' = NoTB, crete_post_runtime_dump PROVE Goal
  <2>1. interested /\ ~interested' => ~block
    BY Zenon, <1>10 DEF crete_post_runtime_dump
  <2> QED BY <1>2, <1>10, <2>1 DEF DropInv
<1>11. ASSUME InTB, NEW info, raise_interrupt(info) PROVE Goal
  <2>1. tb # NoTB /\ tb' = NoTB
    BY <1>11 DEF raise_interrupt, InTB
  <2>2. CASE dump_enable
    BY <1>10, <1>11, <2>1, <2>2 DEF raise_interrupt
  <2>3. CASE ~dump_enable
    BY <1>2, <1>11, <2>1, <2>3 DEF raise_interrupt, flags
  <2> QED BY <2>2, <2>3
<1>12. CASE PageFault \/ Raise
  BY <1>11, <1>12 DEF PageFault, Raise
<1>13. CASE EndTB
  BY <1>10, <1>13 DEF EndTB
<1>14. CASE OtherTB
  BY <1>2, <1>14 DEF OtherTB
<1>15. CASE Dump
  BY Zenon, <1>2, <1>15 DEF Dump
<1>16. CASE UNCHANGED vars
  BY Zenon, <1>16 DEF vars, flags, taint, DropInv, Cleared
<1> QED
  BY Zenon, <1>3, <1>4, <1>5, <1>6, <1>7, <1>8, <1>9, <1>12, <1>13, <1>14, <1>15, <1>16
     DEF Next, KernelTB, CaptureBegin

-----------------------------------------------------------------------------
(* Theorems.                                                               *)

\* KLEE replays the files after QEMU has written them: whatever the replay does, the
\* recorder takes a step of its own or none.
THEOREM RecorderUndisturbed == SpecReplay => Spec
<1>1. InitReplay => Init
  BY Zenon DEF InitReplay
<1>2. [NextReplay]_allvars => [Next]_vars
  BY Zenon DEF NextReplay, allvars, Start, handleQemuTbPrologue, ReplayLoad, ReplayStore,
         handleCreteMakeSymbolic, handleQemuRaiseInterrupt, ReplayOther, ReplayEndTB
<1> QED BY <1>1, <1>2, PTL DEF SpecReplay, Spec

\* The tables of the recorder are as FirstReads says.
LEMMA TablesHold == RecorderInv /\ ReadsInv => FirstReads
<1> SUFFICES ASSUME RecorderInv, ReadsInv PROVE FirstReads
  OBVIOUS
<1>1. ASSUME NEW t, NEW p, NEW r, GoodTable(t, p, r) PROVE HoldsFirstReads(t, p, r)
  BY Zenon, <1>1 DEF GoodTable, HoldsFirstReads, Disjoint, InTable, FirstRead
<1> QED BY Zenon, <1>1 DEF ReadsInv, FirstReads

LEMMA ReadsInit == Init => ReadsInv /\ DropInv
<1> SUFFICES ASSUME Init PROVE ReadsInv /\ DropInv
  OBVIOUS
<1>1. tbExecSequ = <<>> /\ observed = <<>> /\ tb = NoTB
  BY Zenon DEF Init
<1>2. Len(<<>>) = 0 /\ 1 .. 0 = {}
  OBVIOUS
<1> QED BY Zenon, <1>1, <1>2, EmptyIsSequence DEF ReadsInv, DropInv

\* The memo-sync table of every block holds, once, what the block has read first of each
\* byte, for all programs, sizes and overlaps of loads (addMemoSyncTableEntry,
\* reverseTBDump, dump_TBExecSequ).
THEOREM TablesHoldFirstReads == SpecReplay => []FirstReads
<1>1. Spec => [](RecorderInv /\ ReadsInv)
  <2>1. RecorderInv /\ ReadsInv /\ [Next]_vars => (RecorderInv /\ ReadsInv)'
    BY StepHolds, ReadsStep
  <2>2. Init => RecorderInv /\ ReadsInv
    BY InitHolds, ReadsInit
  <2> QED BY <2>1, <2>2, PTL DEF Spec
<1> QED BY <1>1, RecorderUndisturbed, TablesHold, PTL

\* No block that has touched something symbolic is dropped from a trace, unless MAKE_CONCOLIC
\* cleared the flag behind it (crete_post_runtime_dump, crete_tci_next_block).
THEOREM OnlyConcreteDropped == SpecReplay => DroppedIsConcrete
<1> DEFINE Drop == tb # NoTB /\ tb' = NoTB /\ interested /\ ~interested' => ~tb.sym \/ Cleared
<1>1. Spec => [](RecorderInv /\ DropInv)
  <2>1. RecorderInv /\ DropInv /\ [Next]_vars => (RecorderInv /\ DropInv)'
    BY StepHolds, DropStep
  <2>2. Init => RecorderInv /\ DropInv
    BY InitHolds, ReadsInit
  <2> QED BY <2>1, <2>2, PTL DEF Spec
<1>2. RecorderInv /\ DropInv /\ [NextReplay]_allvars => [Drop]_allvars
  <2> SUFFICES ASSUME RecorderInv, DropInv, [NextReplay]_allvars PROVE Drop
    OBVIOUS
  <2>1. [Next]_vars
    BY Zenon DEF NextReplay, allvars, Start, handleQemuTbPrologue, ReplayLoad, ReplayStore,
           handleCreteMakeSymbolic, handleQemuRaiseInterrupt, ReplayOther, ReplayEndTB
  <2> QED BY <2>1, DropStep
<1> QED BY <1>1, <1>2, RecorderUndisturbed, PTL DEF SpecReplay, DroppedIsConcrete

=============================================================================
