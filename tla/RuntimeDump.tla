----------------------------- MODULE RuntimeDump -----------------------------
(***************************************************************************)
(* The trace recorder of the QEMU front end (runtime-dump.cpp and          *)
(* custom-instructions.cpp) with the calls made into it by the execution   *)
(* loop (cpu-exec.c), the taint interpreter (crete_tci.c, tci_analyzer.cpp)*)
(* the memory access functions and raise_interrupt (op_helper.c).          *)
(*                                                                         *)
(* The guest runs translation blocks (TBs) on one CPU.  The recorder sees  *)
(* the beginning of a TB, its loads, its symbolic bytes, an exception in   *)
(* it and its end.  It keeps the TBs of the target that touched a symbolic *)
(* byte, and for each of them what a replay needs: the registers when      *)
(* recording comes back, the bytes it read, and how it was interrupted.    *)
(***************************************************************************)
EXTENDS MemoSync, Functions, FiniteSets

CONSTANTS
  Byte,       \* byte values, 0 among them
  MaxAddr,    \* guest addresses are 0 .. MaxAddr
  Width,      \* bytes of the register
  Progs,      \* programs of TBs of the target: sequences of operations
  Vars,       \* the concolic variables in the order in which the target makes
              \*   them concolic: a sequence of [name, addr, data], data being
              \*   what the test case gives the variable
  MaxTBs,     \* bound: TBs of the target executed in the test
  MaxEnv,     \* bound: changes the rest of the guest makes to memory and registers
  First,      \* flag_is_first_iteration, and there is no input_arguments.bin
  None, Blank \* no registers, no files; the content of a CPU state that was never written

Addr == 0 .. MaxAddr
Reg == [1 .. Width -> Byte]
Zeros(n) == [i \in 1 .. n |-> 0]
NoTB == [prog |-> <<>>, pc |-> 0, taint |-> FALSE, reads |-> <<>>, sym |-> FALSE]

ASSUME ByteAssumption == 0 \in Byte
ASSUME AddrAssumption == MaxAddr \in Nat
ASSUME WidthAssumption == Width \in Nat \ {0}

\* The functions of the guest library (custom_instr.c) have one custom instruction each.
\* Behind MAKE_CONCOLIC, in its TB, comes the call of __crete_make_symbolic_internal, and
\* before MAKE_SYMBOLIC at most a prologue: both only push, below the stack pointer, where
\* no variable is.  A load reads at least one byte.
Span(a, n) == a .. (a + n - 1)
Custom == {"concolic", "symbolic", "end"}

ASSUME ProgsAssumption ==
  \A p \in Progs :
    /\ Len(p) \in Nat \ {0}
    /\ \A i, j \in 1 .. Len(p) :
         /\ p[i].op \in Custom /\ p[j].op \in Custom => i = j
         /\ p[i].op = "concolic" /\ i < j => p[j].op = "push"
         /\ p[i].op = "symbolic" /\ j < i => p[j].op = "push"
    /\ \A i \in 1 .. Len(p) :
         /\ p[i].op = "push" => \A v \in Range(Vars) : Span(p[i].a, p[i].n) \cap Covered(v) = {}
         /\ p[i].op \in {"ld", "ldh"} => p[i].a \in Nat /\ p[i].n \in Nat \ {0}

VARIABLES
  mem, reg,          \* guest memory and the register of the target
  tb,                \* the TB of the target under execution, or NoTB:
                     \*   prog, pc, and what it has done so far: reads (what each
                     \*   operation read) and sym (it touched a symbolic byte)
  kernel,            \* an exception has left the target in the kernel
  emit,              \* g_custom_inst_emit, g_crete_target_pid, crete_flag_capture_enabled
  interested, interested_prev, dump_enable, dump_start, dump_interrupt,
  count,             \* rt_dump_tb_count
  cpuStates, prolog_regs, memoSyncTables, memoMergePoints, tbExecSequ,
  interruptStates, makeConcolics,
  block, symReg, symMem,  \* taint: the block flag, the register, the memory
  workaround,        \* g_crete_tmp_workaround
  tested,            \* TBs executed and changes made, for the bounds
  observed,          \* ghost: what the operations of each kept TB read
  unseen,            \* ghost: a load in a TB of interest was not recorded
  symbolics,         \* MAKE_SYMBOLIC instructions executed
  files,             \* what DUMP has written, or None
  asserted           \* every assertion evaluated so far has held

guest == <<mem, reg, kernel, tested>>
flags == <<interested, interested_prev, dump_enable, dump_start, dump_interrupt>>
env == <<count, cpuStates, prolog_regs, memoSyncTables, memoMergePoints,
         tbExecSequ, interruptStates>>
taint == <<block, symReg, symMem>>
vars == <<guest, tb, emit, flags, env, makeConcolics, taint, workaround,
          observed, unseen, symbolics, files, asserted>>

-----------------------------------------------------------------------------
Init ==
  /\ mem = [a \in Addr |-> 0] /\ reg = Zeros(Width) /\ tb = NoTB /\ kernel = FALSE
  /\ emit = FALSE
  /\ interested = FALSE /\ interested_prev = FALSE /\ dump_enable = FALSE
  /\ dump_start = FALSE /\ dump_interrupt = FALSE
  /\ count = 0 /\ cpuStates = <<>> /\ prolog_regs = <<>> /\ memoSyncTables = <<>>
  /\ memoMergePoints = <<>> /\ tbExecSequ = <<>> /\ interruptStates = <<>>
  /\ makeConcolics = <<>>
  /\ block = FALSE /\ symReg = FALSE /\ symMem = {}
  /\ workaround = FALSE /\ tested = [tbs |-> 0, env |-> 0]
  /\ observed = <<>> /\ unseen = FALSE /\ symbolics = 0 /\ files = None /\ asserted = TRUE

-----------------------------------------------------------------------------
(* Merge points.                                                           *)

Open == {"NormalTb", "BackToInterestTb"}
CloseLast(p) ==
  [p EXCEPT ![Len(p)] = IF @ = "NormalTb" THEN "OutofInterestTb" ELSE "OutAndBackTb"]
CanClose(p) == p # <<>> /\ p[Len(p)] \in Open

\* addMemoMergePoint with the point that the old and the new flag select.
addMemoMergePoint(prev, now, p) ==
  CASE ~prev /\ now -> Append(p, "BackToInterestTb")
    [] prev /\ now -> Append(p, "NormalTb")
    [] prev /\ ~now -> CloseLast(p)
    [] OTHER -> p

EmptyState == [info |-> "none", valid |-> FALSE, cpu |-> Blank]
addQemuInterruptState(info) == [info |-> info, valid |-> TRUE, cpu |-> Blank]

\* Mutant of NextInterruptStates: no empty record when the next TB is recorded too.
InterruptStatesWhenLeaving(now, r) ==
  CASE dump_interrupt /\ now -> [interruptStates EXCEPT ![Len(interruptStates)].cpu = r]
    [] ~dump_interrupt /\ interested /\ ~now -> Append(interruptStates, EmptyState)
    [] OTHER -> interruptStates

\* What crete_runtime_dump does to the interrupt state of the last interested
\* TB when the next TB begins: the CPU state is filled in as soon as the next
\* interested TB begins; a TB without an interrupt gets the empty record.
NextInterruptStates(now, r) ==
  CASE dump_interrupt /\ now -> [interruptStates EXCEPT ![Len(interruptStates)].cpu = r]
    [] ~dump_interrupt /\ interested -> Append(interruptStates, EmptyState)
    [] OTHER -> interruptStates

-----------------------------------------------------------------------------
\* Mutant of dump_prolog_regs: only for the first TB of the trace.
PrologRegsOnce == IF count = 0 THEN reg ELSE None

\* The registers are valid for a TB with which recording comes back.
dump_prolog_regs == IF interested THEN None ELSE reg

\* crete_runtime_dump, before every TB; now: the TB is of interest.
crete_runtime_dump(now) ==
  /\ interested_prev' = interested /\ interested' = now /\ dump_enable' = now
  /\ dump_start' = (dump_start \/ now)
  /\ memoMergePoints' = addMemoMergePoint(interested, now, memoMergePoints)
  /\ interruptStates' = NextInterruptStates(now, reg)
  /\ dump_interrupt' = (dump_interrupt /\ ~now)
  /\ asserted' = (/\ asserted
                  /\ interested /\ ~now => CanClose(memoMergePoints)
                  /\ dump_interrupt /\ now =>
                       interruptStates # <<>> /\ interruptStates[Len(interruptStates)].valid)
  /\ IF now
       THEN /\ count' = count + 1
            /\ cpuStates' = IF count = 0 THEN Append(cpuStates, reg) ELSE cpuStates
            /\ prolog_regs' = Append(prolog_regs, dump_prolog_regs)
            /\ memoSyncTables' = Append(memoSyncTables, {})
       ELSE UNCHANGED <<count, cpuStates, prolog_regs, memoSyncTables>>
  /\ UNCHANGED tbExecSequ

pop_back(s) == SubSeq(s, 1, Len(s) - 1)

\* A TB that touched nothing symbolic is taken back.
reverseTBDump ==
  LET points == pop_back(memoMergePoints)
  IN  /\ count' = count - 1
      /\ cpuStates' = IF count = 1 THEN pop_back(cpuStates) ELSE cpuStates
      /\ prolog_regs' = pop_back(prolog_regs)
      /\ memoSyncTables' = pop_back(memoSyncTables)
      /\ memoMergePoints' = IF interested_prev THEN CloseLast(points) ELSE points
      /\ asserted' = (/\ asserted
                      /\ count = 1 => Len(cpuStates) = 1
                      /\ interested_prev => CanClose(points)
                      /\ prolog_regs # <<>>
                      /\ Len(prolog_regs) = count
                      /\ Len(memoSyncTables) = count
                      /\ Len(memoMergePoints) = count
                      /\ Len(tbExecSequ) = count - 1
                      /\ Len(interruptStates) = count - 1)
      /\ UNCHANGED <<tbExecSequ, observed>>

\* A TB that touched something symbolic enters the sequence; verifyDumpData.
dump_TBExecSequ ==
  /\ tbExecSequ' = Append(tbExecSequ, tb.prog)
  /\ observed' = Append(observed, tb.reads)
  /\ asserted' = (/\ asserted
                  /\ Len(prolog_regs) = count
                  /\ Len(memoSyncTables) = count
                  /\ Len(memoMergePoints) = count
                  /\ Len(tbExecSequ) + 1 = count
                  /\ Len(interruptStates) = count - 1)
  /\ UNCHANGED <<count, cpuStates, prolog_regs, memoSyncTables, memoMergePoints>>

\* crete_post_runtime_dump: after a TB, or when an exception ends it.
crete_post_runtime_dump ==
  /\ \/ /\ interested /\ ~block
        /\ interested' = FALSE
        /\ reverseTBDump
     \/ /\ interested /\ block
        /\ dump_TBExecSequ
        /\ UNCHANGED interested
     \/ /\ ~interested
        /\ UNCHANGED <<interested, count, cpuStates, prolog_regs, memoSyncTables,
                       memoMergePoints, tbExecSequ, observed, asserted>>
  /\ block' = FALSE
  /\ UNCHANGED <<interested_prev, dump_start, symReg, symMem>>

\* An exception in a TB of the target.
raise_interrupt(info) ==
  /\ \/ /\ dump_enable
        /\ crete_post_runtime_dump
        /\ dump_enable' = block
        /\ dump_interrupt' = (dump_interrupt \/ block)
        /\ interruptStates' = IF block THEN Append(interruptStates, addQemuInterruptState(info))
                                       ELSE interruptStates
     \/ /\ ~dump_enable
        /\ UNCHANGED <<flags, env, taint, observed, asserted>>
  /\ tb' = NoTB /\ kernel' = TRUE
  /\ UNCHANGED <<mem, reg, tested, emit, makeConcolics, workaround, symbolics, files, unseen>>

-----------------------------------------------------------------------------
(* The blocks of the target.                                               *)

Running == asserted /\ files = None
InTB == Running /\ tb # NoTB /\ tb.pc <= Len(tb.prog)
Cur == tb.prog[tb.pc]
Data(a, n) == [i \in 1 .. n |-> mem[a + i - 1]]

\* crete_make_concolic of the guest library executes MAKE_CONCOLIC and then, in another
\* TB, MAKE_SYMBOLIC; TBs in between, as that of __crete_make_symbolic_internal, only push.
Pending == symbolics < Len(makeConcolics)
MakesSymbolic(p) == \E i \in 1 .. Len(p) : p[i].op = "symbolic"
LibraryOrder(p) ==
  \/ Pending /\ MakesSymbolic(p)
  \/ Pending /\ \A i \in 1 .. Len(p) : p[i].op = "push"
  \/ ~Pending /\ ~MakesSymbolic(p)

\* A TB of the target begins; excluded: its address is in the exclude filter.
BeginTB(p, excluded) ==
  /\ Running /\ tb = NoTB /\ ~kernel
  /\ LibraryOrder(p) /\ (MakesSymbolic(p) => ~excluded)
  /\ emit \/ Pending
  /\ tested.tbs < MaxTBs
  /\ tested' = [tested EXCEPT !.tbs = @ + 1]
  /\ crete_runtime_dump(emit /\ ~excluded)
  /\ tb' = [prog |-> p, pc |-> 1, taint |-> emit, reads |-> <<>>, sym |-> FALSE]
  /\ UNCHANGED <<mem, reg, kernel, emit, makeConcolics, taint, workaround,
                 observed, symbolics, files, unseen>>

\* An operation is done: what it read, whether that was recorded, and whether it
\* touched something symbolic.
Advance(data, seen, sym) ==
  tb' = [tb EXCEPT !.pc = @ + 1, !.reads = Append(@, [data |-> data, seen |-> seen]),
                   !.sym = @ \/ sym]

addMemoSyncTableEntry(a, data) ==
  memoSyncTables' = [memoSyncTables EXCEPT ![Len(memoSyncTables)] =
                       addMemoSyncTableEntryInternal(a, data, @)]

\* Mutant of mark_block_symbolic: the block is what its last operation is.
BlockOfLastOperation(sym) == sym

mark_block_symbolic(sym) == block \/ sym

\* A load of the TB goes through __ld_mmu, which records the value; the taint
\* interpreter passes the taint of the bytes to the register and to the block.
Load ==
  LET a == Cur.a  n == Cur.n
      sym == tb.taint /\ Span(a, n) \cap symMem # {}
  IN  /\ InTB /\ Cur.op = "ld"
      /\ reg' = [i \in 1 .. Width |-> IF i <= n THEN mem[a + i - 1] ELSE 0]
      /\ IF dump_enable THEN addMemoSyncTableEntry(a, Data(a, n)) ELSE UNCHANGED memoSyncTables
      /\ symReg' = IF tb.taint THEN sym ELSE symReg
      /\ block' = mark_block_symbolic(sym)
      /\ Advance(Data(a, n), dump_enable, sym)
      /\ UNCHANGED <<mem, kernel, tested, emit, flags, count, cpuStates, prolog_regs,
                     memoMergePoints, tbExecSequ, interruptStates, makeConcolics, symMem,
                     workaround, observed, symbolics, files, asserted, unseen>>

\* A helper of op_helper.c reads guest memory through the inline function of
\* softmmu_header.h: __ld_mmu is called, and the value recorded, only on a miss
\* of the TLB.  The interpreter sees the registers the helper gets and not the
\* memory it reads.
HelperLoad(miss) ==
  LET a == Cur.a  n == Cur.n
      sym == tb.taint /\ symReg
  IN  /\ InTB /\ Cur.op = "ldh"
      /\ reg' = [i \in 1 .. Width |-> IF i <= n THEN mem[a + i - 1] ELSE 0]
      /\ IF dump_enable /\ miss THEN addMemoSyncTableEntry(a, Data(a, n))
                                ELSE UNCHANGED memoSyncTables
      /\ block' = mark_block_symbolic(sym)
      /\ Advance(Data(a, n), dump_enable /\ miss, sym)
      /\ unseen' = (unseen \/ (dump_enable /\ ~miss))
      /\ UNCHANGED <<mem, kernel, tested, emit, flags, count, cpuStates, prolog_regs,
                     memoMergePoints, tbExecSequ, interruptStates, makeConcolics, symReg, symMem,
                     workaround, observed, symbolics, files, asserted>>

\* A store of the register, or a push of the library: a return address or a saved register,
\* which are concrete (0 stands for their bytes).
Stored(o, r) == IF o.op = "push" THEN Zeros(o.n) ELSE r

Store ==
  LET a == Cur.a  n == Cur.n
      sym == tb.taint /\ symReg /\ Cur.op = "st"
  IN  /\ InTB /\ Cur.op \in {"st", "push"}
      /\ mem' = [x \in Addr |-> IF x \in Span(a, n) THEN Stored(Cur, reg)[x - a + 1] ELSE mem[x]]
      /\ symMem' = CASE ~tb.taint -> symMem
                     [] sym -> symMem \cup Span(a, n)
                     [] OTHER -> symMem \ Span(a, n)
      /\ block' = mark_block_symbolic(sym)
      /\ Advance(<<>>, FALSE, sym)
      /\ UNCHANGED <<reg, kernel, tested, emit, flags, env, makeConcolics, symReg,
                     workaround, observed, symbolics, files, asserted, unseen>>

\* The bytes of the variables vs in memory m, as the test case has them.
feed_test_case(vs, m) ==
  [x \in Addr |-> IF \E v \in vs : x \in Covered(v)
                    THEN ByteAt(CHOOSE v \in vs : x \in Covered(v), x)
                    ELSE m[x]]

\* MAKE_CONCOLIC.  The block flag is cleared; all variables made concolic so far
\* get the bytes of the test case (in the first iteration: this one gets zeros).
MakeConcolic ==
  LET v == Vars[Len(makeConcolics) + 1]
  IN  /\ InTB /\ Cur.op = "concolic" /\ Len(makeConcolics) < Len(Vars)
      /\ makeConcolics' = Append(makeConcolics, v)
      /\ symMem' = symMem \cup Covered(v)
      /\ block' = FALSE
      /\ mem' = IF First THEN feed_test_case({[v EXCEPT !.data = Zeros(Len(v.data))]}, mem)
                         ELSE feed_test_case(Range(makeConcolics'), mem)
      /\ Advance(<<>>, FALSE, FALSE)
      /\ UNCHANGED <<reg, kernel, tested, emit, flags, env, symReg, workaround,
                     observed, symbolics, files, asserted, unseen>>

\* MAKE_CONCOLIC runs into the runtime_error of the "tee" bug.
MakeConcolicThrows ==
  LET v == Vars[Len(makeConcolics) + 1]
  IN  /\ InTB /\ Cur.op = "concolic" /\ Len(makeConcolics) < Len(Vars)
      /\ makeConcolics' = Append(makeConcolics, v)
      /\ symMem' = symMem \cup Covered(v)
      /\ block' = FALSE /\ emit' = FALSE /\ workaround' = TRUE
      /\ Advance(<<>>, FALSE, FALSE)
      /\ UNCHANGED <<mem, reg, kernel, tested, flags, env, symReg,
                     observed, symbolics, files, asserted, unseen>>

\* MAKE_SYMBOLIC.
helper_crete_make_symbolic ==
  /\ InTB /\ Cur.op = "symbolic"
  /\ block' = TRUE
  /\ symbolics' = symbolics + 1
  /\ asserted' = (asserted /\ dump_enable)
  /\ Advance(<<>>, FALSE, TRUE)
  /\ UNCHANGED <<guest, emit, flags, env, makeConcolics, symReg, symMem, workaround,
                 observed, files, unseen>>

CaptureEnd ==
  /\ InTB /\ Cur.op = "end"
  /\ emit' = FALSE
  /\ Advance(<<>>, FALSE, FALSE)
  /\ UNCHANGED <<guest, flags, env, makeConcolics, taint, workaround, observed,
                 symbolics, files, asserted, unseen>>

\* An access to a page that is not there, and an instruction that raises.
PageFault == InTB /\ Cur.op \in {"ld", "ldh", "st", "push"} /\ raise_interrupt("page")
Raise == InTB /\ Cur.op = "raise" /\ raise_interrupt("int")

EndTB ==
  /\ Running /\ tb # NoTB /\ tb.pc > Len(tb.prog)
  /\ crete_post_runtime_dump
  /\ dump_enable' = FALSE
  /\ tb' = NoTB
  /\ UNCHANGED <<guest, emit, dump_interrupt, interruptStates, makeConcolics,
                 workaround, symbolics, files, unseen>>

-----------------------------------------------------------------------------
(* The blocks of the rest of the guest, which are not of interest.  They   *)
(* end with crete_post_runtime_dump, which clears the block flag.          *)

OtherTB ==
  /\ Running /\ tb = NoTB
  /\ crete_runtime_dump(FALSE)
  /\ block' = FALSE
  /\ UNCHANGED <<tb, makeConcolics, symReg, symMem, workaround, observed, symbolics, unseen>>

\* The kernel, or another process: it may change the memory and, in a system
\* call, the registers of the target.  (Between MAKE_CONCOLIC and MAKE_SYMBOLIC the
\* library makes no system call.)
KernelTB ==
  /\ OtherTB
  /\ kernel' = FALSE
  /\ \/ UNCHANGED <<mem, reg, tested>>
     \/ /\ tested.env < MaxEnv /\ ~Pending
        /\ tested' = [tested EXCEPT !.env = @ + 1]
        /\ \/ (\E a \in Addr, b \in Byte : mem' = [mem EXCEPT ![a] = b]) /\ UNCHANGED reg
           \/ (\E i \in 1 .. Width, b \in Byte : reg' = [reg EXCEPT ![i] = b]) /\ UNCHANGED mem
  /\ UNCHANGED <<emit, files>>

CaptureBegin ==
  /\ OtherTB
  /\ ~kernel /\ ~emit /\ makeConcolics = <<>>
  /\ emit' = TRUE
  /\ UNCHANGED <<guest, files>>

\* DUMP, executed by crete-dump when the target has ended: writeRtEnvToFile (which
\* writes nothing when no TB was kept), and the recorder starts afresh.  The guest is
\* not followed any further: its state is forgotten.
Dump ==
  LET points == addMemoMergePoint(interested, FALSE, memoMergePoints)
      interrupts == NextInterruptStates(FALSE, reg)
      written == [cpu |-> cpuStates[1], regs |-> prolog_regs,
                  tables |-> mergeMemoSyncTables(memoSyncTables, points),
                  interrupts |-> interrupts, sequ |-> tbExecSequ,
                  concolics |-> makeConcolics, reads |-> observed]
  IN  /\ Running /\ tb = NoTB /\ dump_start
      /\ asserted' = (/\ asserted
                      /\ interested => CanClose(memoMergePoints)
                      /\ count > 0 => /\ cpuStates # <<>>
                                      /\ Len(memoSyncTables) = count
                                      /\ Len(points) = count
                                      /\ MergeAsserts(points)
                                      /\ Len(interrupts) = count)
      /\ files' = IF asserted' /\ count > 0 THEN written ELSE [sequ |-> <<>>]
      /\ emit' = FALSE
      /\ interested' = FALSE /\ interested_prev' = FALSE /\ dump_enable' = FALSE
      /\ dump_start' = FALSE /\ dump_interrupt' = FALSE
      /\ count' = 0 /\ cpuStates' = <<>> /\ prolog_regs' = <<>> /\ memoSyncTables' = <<>>
      /\ memoMergePoints' = <<>> /\ tbExecSequ' = <<>> /\ interruptStates' = <<>>
      /\ makeConcolics' = <<>> /\ observed' = <<>>
      /\ block' = FALSE
      /\ symReg' = (symReg /\ workaround) /\ symMem' = IF workaround THEN symMem ELSE {}
      /\ mem' = [a \in Addr |-> 0] /\ reg' = Zeros(Width) /\ kernel' = FALSE
      /\ tested' = [tbs |-> 0, env |-> 0] /\ symbolics' = 0
      /\ UNCHANGED <<tb, workaround, unseen>>

Next ==
  \/ \E p \in Progs, excluded \in BOOLEAN : BeginTB(p, excluded)
  \/ Load \/ (\E miss \in BOOLEAN : HelperLoad(miss)) \/ Store
  \/ MakeConcolic \/ MakeConcolicThrows \/ helper_crete_make_symbolic \/ CaptureEnd
  \/ PageFault \/ Raise \/ EndTB
  \/ KernelTB \/ CaptureBegin \/ Dump

Spec == Init /\ [][Next]_vars

-----------------------------------------------------------------------------
(* Properties.                                                             *)

\* No assertion of the recorder ever fails, unless MAKE_CONCOLIC ran into its
\* runtime_error (after which MAKE_SYMBOLIC stops QEMU): the counts kept by crete_runtime_dump,
\* reverseTBDump, verifyDumpData, mergeMemoSyncTables and writeInterruptStates agree
\* whatever is dropped, excluded or interrupted (runtime-dump.cpp).
RecorderAsserts == asserted \/ workaround

=============================================================================
