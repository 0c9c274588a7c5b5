------------------------------- MODULE Replay -------------------------------
(***************************************************************************)
(* A trace from the guest to the end of its replay: the recorder of        *)
(* RuntimeDump, and the replay of the files it writes in KLEE (Executor.cpp*)
(* and qemu_rt_info.cpp of the back end).                                  *)
(*                                                                         *)
(* The replay executes the recorded blocks one after the other on memory   *)
(* objects.  Only the concrete values are followed: those a branch of the  *)
(* program would be decided by.                                            *)
(***************************************************************************)
EXTENDS RuntimeDump

VARIABLES
  mos,      \* memory objects [lo, hi, name, sym]: addresses lo .. hi, sym: in symbolics
  rmem,     \* the concrete bytes of the memory objects
  rreg,     \* the register in tcg_env
  at,       \* [tb, op]: the block and the operation that are next; op = 0: its prologue
  queue,    \* creteConcolicsQueue
  abort,    \* the assertion of KLEE that has failed, or None
  agree     \* ghost: the replay has read and done what the guest read and did

replay == <<mos, rmem, rreg, at, queue, abort, agree>>
allvars == <<vars, replay>>

InitReplay ==
  /\ Init
  /\ mos = {} /\ rmem = [a \in Addr |-> 0] /\ rreg = Zeros(Width)
  /\ at = [tb |-> 0, op |-> 0] /\ queue = <<>> /\ abort = None /\ agree = TRUE

-----------------------------------------------------------------------------
(* Memory objects.                                                         *)

In(m, a, n) == m.lo <= a /\ a + n - 1 <= m.hi
findOverlapObjects(M, a, n) == {m \in M : m.lo < a + n /\ m.hi >= a}
Lowest(S) == CHOOSE x \in S : \A y \in S : x <= y
Allocated(M) == UNION {m.lo .. m.hi : m \in M}

\* s: memory objects, bytes and the assertion that failed.
New(s, lo, hi) ==
  [s EXCEPT !.mos = @ \cup {[lo |-> lo, hi |-> hi, name |-> None, sym |-> FALSE]}]

\* The overlapped objects and the given range become one object without a name;
\* bytes that were not allocated are 0.
crete_merge_overlapped_mos(s, a, n) ==
  LET over == findOverlapObjects(s.mos, a, n)
      lo == Lowest({m.lo : m \in over} \cup {a})
      hi == Highest({m.hi : m \in over} \cup {a + n - 1})
  IN  IF \E m \in over : In(m, a, n) THEN s
      ELSE IF \E m \in over : m.sym THEN [s EXCEPT !.abort = "symbolics"]
      ELSE New([s EXCEPT !.mos = @ \ over,
                         !.rmem = [x \in Addr |-> IF x \in (lo .. hi) \ Allocated(over) THEN 0 ELSE @[x]]],
               lo, hi)

\* An object for the range: merged with what is there, or a new one.
Provide(s, a, n) ==
  IF findOverlapObjects(s.mos, a, n) # {}
    THEN crete_merge_overlapped_mos(s, a, n)
    ELSE New([s EXCEPT !.rmem = [x \in Addr |-> IF x \in Span(a, n) THEN 0 ELSE @[x]]], a, a + n - 1)

Write(s, a, data) ==
  [s EXCEPT !.rmem = [x \in Addr |-> IF x \in Span(a, Len(data)) THEN data[x - a + 1] ELSE @[x]]]

\* One entry of the memo-sync table.
SyncEntry(e, s) ==
  IF s.abort # None THEN s
  ELSE LET t == Provide(s, e.addr, Len(e.data))
       IN  IF t.abort # None THEN t ELSE Write(t, e.addr, e.data)

\* crete_divide_memoSyncTable leaves the entries that hold the current values
\* unwritten; with or without it the bytes end up as the table has them.
crete_sync_memory(s, table) == OverTable(SyncEntry, s, table)

Objects == [mos |-> mos, rmem |-> rmem, abort |-> abort]
SetObjects(s) == mos' = s.mos /\ rmem' = s.rmem /\ abort' = s.abort

-----------------------------------------------------------------------------
(* The replay.                                                             *)

Recorded == files # None /\ abort = None

\* The concrete value of a concolic variable: the test case, which after the first
\* iteration is the file written by dump_initial_input.
Value(v) == IF First THEN Zeros(Len(v.data)) ELSE v.data

\* crete_init_symbolics, and tcg_env from the first CPU state.
Start ==
  /\ Recorded /\ at.tb = 0 /\ files.sequ # <<>>
  /\ mos' = {[lo |-> v.addr, hi |-> v.addr + Len(v.data) - 1, name |-> v.name, sym |-> FALSE] :
               v \in Range(files.concolics)}
  /\ queue' = files.concolics
  /\ rreg' = files.cpu
  /\ at' = [tb |-> 1, op |-> 0]
  /\ UNCHANGED <<vars, rmem, abort, agree>>

handleQemuTbPrologue ==
  /\ Recorded /\ at.tb \in 1 .. Len(files.sequ) /\ at.op = 0
  /\ SetObjects(crete_sync_memory(Objects, files.tables[at.tb]))
  /\ rreg' = IF files.regs[at.tb] = None THEN rreg ELSE files.regs[at.tb]
  /\ at' = [at EXCEPT !.op = 1]
  /\ UNCHANGED <<vars, queue, agree>>

InReplay == Recorded /\ at.tb \in 1 .. Len(files.sequ) /\ at.op \in 1 .. Len(files.sequ[at.tb])
ROp == files.sequ[at.tb][at.op]
NextOp == at' = [at EXCEPT !.op = @ + 1]
NextTB == at' = [tb |-> at.tb + 1, op |-> 0]

\* The guest has executed this operation (and not been interrupted before it).
Executed == at.op <= Len(files.reads[at.tb])

\* The guest did not get past this operation: leaving the block here is right.
crete_abortCurrentTBExecution ==
  /\ NextTB
  /\ agree' = (agree /\ ~Executed)

\* crete_handle_memory_missing for a load.
LoadMissing ==
  IF files.interrupts[at.tb].info = "page"
    THEN crete_abortCurrentTBExecution /\ UNCHANGED abort
    ELSE abort' = "missing" /\ UNCHANGED <<at, agree>>

ReplayLoad ==
  LET a == ROp.a  n == ROp.n
      data == [i \in 1 .. n |-> rmem[a + i - 1]]
  IN  /\ InReplay /\ ROp.op \in {"ld", "ldh"}
      /\ \/ /\ \E m \in mos : In(m, a, n)
            /\ rreg' = [i \in 1 .. Width |-> IF i <= n THEN data[i] ELSE 0]
            /\ agree' = (agree /\ (Executed => files.reads[at.tb][at.op].data = data))
            /\ NextOp
            /\ UNCHANGED abort
         \/ /\ ~ \E m \in mos : In(m, a, n)
            /\ LoadMissing
            /\ UNCHANGED rreg
      /\ UNCHANGED <<vars, mos, rmem, queue>>

\* A store without an object for it gets one, and is done again.
ReplayStore ==
  LET a == ROp.a  n == ROp.n
      s == IF \E m \in mos : In(m, a, n) THEN Objects ELSE Provide(Objects, a, n)
  IN  /\ InReplay /\ ROp.op \in {"st", "push"}
      /\ SetObjects(IF s.abort = None THEN Write(s, a, [i \in 1 .. n |-> Stored(ROp, rreg)[i]]) ELSE s)
      /\ NextOp
      /\ UNCHANGED <<vars, rreg, queue, agree>>

\* The first variable of the queue becomes symbolic, with the concrete value of the
\* test case; its object is found by its name (addSymbolic).
handleCreteMakeSymbolic ==
  LET v == Head(queue)
      m == CHOOSE o \in mos : In(o, v.addr, 1)
  IN  /\ InReplay /\ ROp.op = "symbolic"
      /\ NextOp
      /\ \/ /\ queue = <<>>
            /\ abort' = "queue"
            /\ UNCHANGED <<mos, rmem, queue>>
         \/ /\ queue # <<>>
            /\ queue' = Tail(queue)
            /\ IF m.name = None
                 THEN abort' = "unnamed" /\ UNCHANGED <<mos, rmem>>
                 ELSE SetObjects(Write([Objects EXCEPT !.mos = (@ \ {m}) \cup {[m EXCEPT !.sym = TRUE]}],
                                       v.addr, Value(v)))
      /\ UNCHANGED <<vars, rreg, agree>>

\* The interrupt must be the recorded one; the block is left.
handleQemuRaiseInterrupt ==
  /\ InReplay /\ ROp.op = "raise"
  /\ IF files.interrupts[at.tb].info = "int"
       THEN crete_abortCurrentTBExecution /\ UNCHANGED abort
       ELSE abort' = "interrupt" /\ UNCHANGED <<at, agree>>
  /\ UNCHANGED <<vars, mos, rmem, rreg, queue>>

\* The other operations do nothing in the replay.
ReplayOther ==
  /\ InReplay /\ ROp.op \in {"concolic", "end"}
  /\ NextOp
  /\ UNCHANGED <<vars, mos, rmem, rreg, queue, abort, agree>>

ReplayEndTB ==
  /\ Recorded /\ at.tb \in 1 .. Len(files.sequ) /\ at.op > Len(files.sequ[at.tb])
  /\ NextTB
  /\ UNCHANGED <<vars, mos, rmem, rreg, queue, abort, agree>>

NextReplay ==
  \/ Next /\ UNCHANGED replay
  \/ Start \/ handleQemuTbPrologue
  \/ ReplayLoad \/ ReplayStore \/ handleCreteMakeSymbolic \/ handleQemuRaiseInterrupt
  \/ ReplayOther \/ ReplayEndTB

SpecReplay == InitReplay /\ [][NextReplay]_allvars

-----------------------------------------------------------------------------
(* Properties.                                                             *)

\* A load that the guest has executed reads in the replay what it read in the guest,
\* and the replay leaves no block before the guest did, whatever blocks in between
\* were dropped and whatever the kernel wrote meanwhile; unless a helper has read
\* memory past the recorder.
ReplayAgrees == agree \/ unseen

\* An operation on memory that touches a concolic variable and bytes outside of it.
Straddles(o) ==
  /\ o.op \in {"ld", "ldh", "st"}
  /\ \E v \in Range(Vars) : /\ Span(o.a, o.n) \cap Covered(v) # {}
                            /\ ~ (Span(o.a, o.n) \subseteq Covered(v))

\* KLEE never misses the object of a load (unless a helper has read memory past the
\* recorder) nor runs out of concolic variables; it stops
\* with an assertion only for a trace with an access across the edge of a concolic
\* variable, or when it reaches, in a block that a page fault had interrupted in the
\* guest, an instruction behind the fault that raises.
ReplayAborts ==
  \/ abort = None
  \/ abort = "missing" /\ unseen
  \/ /\ abort \in {"symbolics", "unnamed"}
     /\ \E i \in 1 .. Len(files.sequ) : \E j \in 1 .. Len(files.sequ[i]) : Straddles(files.sequ[i][j])
  \/ /\ abort = "interrupt"
     /\ files.interrupts[at.tb].info = "page" /\ ~Executed

\* The recorded loads of the byte at x: those that a helper makes on a hit of the TLB are
\* not recorded, although runtime-dump.cpp:204 says "all the load memory operations".
Reads(p, r, x) ==
  {j \in 1 .. Len(r) : r[j].seen /\ p[j].op \in {"ld", "ldh"} /\ x \in Span(p[j].a, p[j].n)}
HoldsFirstReads(t, p, r) ==
  /\ \A e, f \in t : e # f => Covered(e) \cap Covered(f) = {}
  /\ \A x \in Addr : Reads(p, r, x) # {} <=> \E e \in t : x \in Covered(e)
  /\ \A e \in t : \A x \in Covered(e) :
       LET j == Lowest(Reads(p, r, x)) IN ByteAt(e, x) = r[j].data[x - p[j].a + 1]

\* The memo-sync table of a block holds for each byte that a recorded load of the block
\* has read the value read first, once, in whatever order, size and overlap its loads come
\* (addMemoSyncTableEntryInternal).
FirstReads ==
  /\ \A i \in 1 .. Len(tbExecSequ) : HoldsFirstReads(memoSyncTables[i], tbExecSequ[i], observed[i])
  /\ tb # NoTB /\ dump_enable => HoldsFirstReads(memoSyncTables[Len(memoSyncTables)], tb.prog, tb.reads)

\* The TB under execution has executed MAKE_CONCOLIC, which clears the block flag.
Cleared == \E j \in 1 .. (tb.pc - 1) : tb.prog[j].op = "concolic"

\* A block is dropped from the trace only if it has touched nothing symbolic that the
\* interpreter sees (crete_post_runtime_dump), or has made a variable concolic after it.
DroppedIsConcrete ==
  [][tb # NoTB /\ tb' = NoTB /\ interested /\ ~interested' => ~tb.sym \/ Cleared]_allvars

=============================================================================
