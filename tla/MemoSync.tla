------------------------------ MODULE MemoSync ------------------------------
(***************************************************************************)
(* Memo-sync tables: the memory a block of guest code has read, as QEMU    *)
(* records it for the replay (class RuntimeEnv of runtime-dump.cpp).       *)
(*                                                                         *)
(* An entry is a record [addr, data]: ConcreteMemoInfo with m_addr, m_data *)
(* and m_size = Len(data).  A table is the set of its entries; the key of  *)
(* std::map<uint64_t, ConcreteMemoInfo> is the addr of the entry.          *)
(***************************************************************************)
EXTENDS Integers, Sequences, Folds

\* The addresses an entry covers, and the byte it holds for one of them.
Covered(e) == e.addr .. (e.addr + Len(e.data) - 1)
ByteAt(e, x) == e.data[x - e.addr + 1]

Overlap(a, n, e) == e.addr + Len(e.data) > a /\ e.addr < a + n

-----------------------------------------------------------------------------
\* Mutant of overlapsMemoSyncEntry: an entry whose last byte alone is hit is
\* overlooked.
OverlapsAllButLast(a, n, t) ==
  LET before == {e.addr : e \in {f \in t : f.addr < a}}
  IN  {e \in t : /\ \A b \in before : b <= e.addr
                 /\ e.addr + Len(e.data) > a + 1
                 /\ e.addr < a + n}

\* The scan begins at the last entry that lies before addr, or at the first one.
overlapsMemoSyncEntry(a, n, t) ==
  LET before == {e.addr : e \in {f \in t : f.addr < a}}
  IN  {e \in t : (\A b \in before : b <= e.addr) /\ Overlap(a, n, e)}

FirstEntry(S) == CHOOSE e \in S : \A f \in S : e.addr <= f.addr
LastEntry(S) == CHOOSE e \in S : \A f \in S : f.addr <= e.addr

\* The entry that replaces the overlapped ones: their bytes are kept, and the
\* bytes between them come from the new data.
MergedEntry(a, data, over) ==
  LET lo == IF FirstEntry(over).addr < a THEN FirstEntry(over).addr ELSE a
      last == LastEntry(over).addr + Len(LastEntry(over).data)
      hi == IF last > a + Len(data) THEN last ELSE a + Len(data)
      byte(x) == IF \E e \in over : x \in Covered(e)
                   THEN ByteAt(CHOOSE e \in over : x \in Covered(e), x)
                   ELSE data[x - a + 1]
  IN  [addr |-> lo, data |-> [i \in 1 .. (hi - lo) |-> byte(lo + i - 1)]]

addMemoSyncTableEntryInternal(a, data, t) ==
  LET over == overlapsMemoSyncEntry(a, Len(data), t)
  IN  IF over = {}
        THEN t \cup {[addr |-> a, data |-> data]}
        ELSE (t \ over) \cup {MergedEntry(a, data, over)}

\* What is done to acc with the entries of a table, one after the other in the order in
\* which std::map iterates over them: the one with the highest address comes last.
OverTable(step(_, _), acc, t) == MapThenFoldSet(step, acc, LAMBDA e : e, LastEntry, t)

\* One table is added to another, entry by entry.
AddTable(t, dst) ==
  OverTable(LAMBDA e, acc : addMemoSyncTableEntryInternal(e.addr, e.data, acc), dst, t)

-----------------------------------------------------------------------------
\* The block whose table receives the reads of block i: the last one, up to i,
\* with which recording came back.
Leader(points, i) ==
  CHOOSE j \in 1 .. i :
    /\ points[j] \in {"BackToInterestTb", "OutAndBackTb"}
    /\ \A k \in (j + 1) .. i : points[k] \notin {"BackToInterestTb", "OutAndBackTb"}

\* What mergeMemoSyncTables asserts of the merge points.
MergeAsserts(points) ==
  /\ points[1] \in {"BackToInterestTb", "OutAndBackTb"}
  /\ points[Len(points)] \in {"OutofInterestTb", "OutAndBackTb"}
  /\ \A i \in 1 .. Len(points) :
       points[i] \in {"NormalTb", "OutofInterestTb"} => points[Leader(points, i)] = "BackToInterestTb"

\* Mutant of mergeMemoSyncTables: the reads of a block that follows the first
\* one of its group are cleared and not merged.
MergeForgets(tables, points) ==
  [i \in 1 .. Len(tables) |->
     IF points[i] \in {"BackToInterestTb", "OutAndBackTb"} THEN tables[i] ELSE {}]

Highest(S) == CHOOSE x \in S : \A y \in S : y <= x

\* The tables of the blocks that follow a BackToInterestTb are merged into its
\* table, in order, and cleared.
mergeMemoSyncTables(tables, points) ==
  [i \in 1 .. Len(tables) |->
     IF points[i] \in {"NormalTb", "OutofInterestTb"}
       THEN {}
       ELSE MapThenFoldSet(AddTable, tables[i], LAMBDA j : tables[j], Highest,
                           {j \in (i + 1) .. Len(tables) : Leader(points, j) = i})]

=============================================================================
