# CRETE: specifications, model checking and proofs

CRETE tests binaries by concolic execution. A *VM node* runs a test in a virtual
machine and records a trace; an *SVM node* runs KLEE on the trace and generates
tests; *Dispatch* moves tests and traces between them until the target program is
explored. The TLA+ modules here specify two things. One is that cluster (`lib/cluster`),
which is where CRETE's concurrency is: threads that share guarded objects, asynchronous
tasks, messages, and state machines written with Boost.MSM, with the pools that decide
what is tested next. The other is the life of a trace: how CRETE's additions to QEMU record
the blocks of the target while the rest of the guest runs in between, and how its additions
to KLEE replay them.

## The system, and what models it

| Part | Source | Module | |
|---|---|---|---|
| DispatchFSM, VMNodeFSM, SVMNodeFSM | `lib/cluster/dispatch.cpp` | `Dispatch` | modelled |
| Node registrar | `lib/cluster/node_registrar.cpp` | `Registrar`, `Dispatch` (`Connect`) | modelled |
| Node, listener, poll loop | `lib/cluster/node.cpp`, `node_driver.h` | `NodeContract`, `WorkNode` | modelled |
| VM node, QemuFSM | `lib/cluster/vm_node.cpp`, `vm_node_fsm.cpp` | `VMNode` | modelled |
| SVM node, KleeFSM | `lib/cluster/svm_node.cpp`, `svm_node_fsm.cpp` | `SVMNode` | modelled |
| AsyncTask, AtomicGuard | `lib/include/crete/async_task.h`, `atomic_guard.h` | in `VMNode`, `SVMNode`, `Registrar` | modelled |
| Test pool, trace pool | `lib/cluster/test_pool.cpp`, `trace_pool.cpp` | `TracePool`; sizes in `Dispatch` | modelled |
| Trace analyzer, trace graph, selectors | `lib/trace-analyzer` | `TracePool` | partly |
| Trace recorder | `front-end/qemu-1.0/runtime-dump`, `cpu-exec.c`, `op_helper.c` | `MemoSync`, `RuntimeDump` | partly |
| Taint interpreter | `front-end/qemu-1.0/runtime-dump/crete_tci.c`, `tci_analyzer.cpp` | in `RuntimeDump` | partly |
| Trace replay | `back-end/klee/lib/Core/Executor.cpp`, `bct-replay` | `Replay` | partly |
| User interface, options | `back-end/manager/dispatch` | constants of `Dispatch` | partly |
| Network | `lib/asio` | command queues of `Dispatch` | partly |
| Guest runner | `front-end/guest/util/run` | | planned |
| Test case and configuration formats, KLEE driver, readers, hooks, logger | `lib` | | left out: data formats and I/O |
| Guest harness and preload | `front-end/guest/lib` | `crete_make_concolic`, in `RuntimeDump` | partly |
| The rest of QEMU and KLEE, LLVM translator | `front-end/qemu-1.0`, `back-end` | | left out: vendored programs |

How they interact: the thread of Dispatch visits one FSM per node; the FSM sends
commands to the node and asks for its status and results. In the node process, the
listener thread serves these requests and the poll thread advances the instances
(one QemuFSM or KleeFSM each); a single lock serialises the two. An instance starts
asynchronous tasks, which run beside both. A third thread, the registrar's, adds nodes.

### NodeContract and WorkNode

What Dispatch relies on of a node: counts of waiting items (`inq`), engaged instances
(`busy`), results (`out`) and error logs (`errs`), and the flags of `Node`. The
operators are the requests (`Reset`, `Commence`, `Receive`, `Transmit`) and the steps
of `poll()`. `WorkNode` is the specification of one node made of them. `Dispatch` holds
one such record per node; `VMNode` and `SVMNode` are checked to implement `WorkNode`
(`ImplementsWorkNode`). So what is shown of Dispatch holds with the real nodes.

### Dispatch

`state` is DispatchFSM's state, `fsm[n]` that of node n's FSM, `status[n]` the cached
`NodeStatus`, `sent[n]` the commands n has not read. The action `dispatch` is split into
a visit per node FSM, and `rx_status` into the question and the answer, since nodes
proceed meanwhile. A request with an answer is enabled when the commands before it have
been served and the node's lock is free: Dispatch is blocked until then. Boost.MSM tries
the rows of a state from the last to the first, hence `TerminateRowForced`; where time is
involved, each row reads the clock anew. `"Undefined"` is the state after `front()` or
`pop_front()` on an empty queue of targets.

`register_node_fsm` makes no node `first`, so the rows through `RxGuestData` are never
taken and are not modelled.

### VMNode and SVMNode

The queues name tests and traces. `cur` is the instance that `poll()` visits; each branch
of `poll()` is a `Visit...` action, with the rows of the FSM that the event can take.
`exc` is an exception between the throw and `exception_caught`. Tasks end, or fail, at any
moment; the task state `"missed"` is a failure that came between the two reads of
`is_prev_task_finished`. `Faults` says which failures a run allows, `MaxFaults` how many.
A QemuFSM in `Error` is not terminated; one in `Terminated` ignores events; an event
without a transition aborts, as Boost.MSM's `no_transition` asserts. The thread of
`store_trace` can take the node down by itself: it asserts that there was a link
`runtime-dump-last` to remove, and QEMU makes none for a trace of which no block was kept
(`StoreTraceAsserts`).

A VMNode's `reset()` joins the tasks of the old instances with the lock held (`joining`).
An SVMNode keeps its instances: `old` holds the tasks that a reset has left running, and
a state that is entered again joins the task it holds. An old task may end either way; its
exception is seen by nobody (`OldTaskFails`). An exception in `init()`, at the start or when
an instance restarts, is none that `exception_caught` knows, and asserts (`InitThrows`).

### Registrar

The two threads of Dispatch at the grain of the guards they take: the lists of FSMs and
the registrar. In `Dispatch` a registration is one step; `Registrar` shows where that is
right (until the first reset, hence in developer mode) and where it is not (`Registrar_race`).

### TracePool

The two pools of Dispatch, and behind the trace pool the analyzer, the graph and the
selectors. The graph is a tree in which siblings differ in their block, so a vertex is
named by the blocks on the way to it (`path`); the sequence `graph` keeps the order of
insertion, which decides the order of a breadth-first search and which of two branches with
the same score is kept. `Insert` is `TracePool::insert` with all it calls: a trace that is
already there is refused, one that continues another to its end takes its place
(`back_insert`, `remove`), any other becomes a branch. `Take` is `TracePool::next` after the
choice: the trace leaves `next_`, and then `submit_executed` throws if the graph has
forgotten it. Scores are fractions. A random score is one of two values.

Dispatch constructs its pool with `"fifo"`, which `set_selection_strategy` maps to the
weighted selector (`FIFOSelector` is never made); the other strategies are reached through
the interface of the pool. `trace.compress` has no effect: `TraceAnalyzer::operator=` does
not copy it, and Dispatch assigns its pool. `next` on an empty graph with `exp-2` reads
a vertex that is not there (`crashed`).

### MemoSync, RuntimeDump and Replay

`MemoSync` has the functions on memo-sync tables, the memory a block has read: a table is
a set of entries `[addr, data]`; adding a load merges the entries it overlaps and keeps
their bytes; when the trace is written, the tables of consecutive blocks are merged into
that of the first.

`RuntimeDump` is the recorder. The guest executes *translation blocks* (TBs). Those of the
target are programs of `Progs`, sequences of loads, stores, loads by helpers, `MAKE_CONCOLIC`,
`MAKE_SYMBOLIC`, an instruction that raises and the end of the capture; every other
TB is `KernelTB`, which may change the memory and the register of the target. The translator
does not begin or end a TB at a custom instruction (`translate.c:4285`), so other operations
may stand beside it in a TB, and `crete_make_concolic` spans several TBs: that of `MAKE_CONCOLIC`
up to the call, the prologue of `__crete_make_symbolic_internal`, and the TB of `MAKE_SYMBOLIC`,
which reads on after it. In between the code of the library only pushes (`push`, a store of
a concrete value below the stack pointer): `LibraryOrder`, `ProgsAssumption`. The flags and
vectors have the names of the code. `BeginTB` is `crete_runtime_dump`, `EndTB` is
`crete_post_runtime_dump`, `raise_interrupt` is the latter in the middle of a block.
`asserted` becomes false when an assertion of the recorder fails; `observed`, `unseen` and
the fields `reads` and `sym` of `tb` are ghosts. `Dump` writes `files`.

`Replay` composes the recorder with KLEE's replay of `files`: memory objects with a range, a
name and whether they are symbolic, and the concrete bytes and register. `agree` is a ghost
that compares each load with what the guest read.

Two facts of the code that shape the properties. A helper of QEMU that reads guest memory on
a hit of the TLB goes past the recorder (`softmmu_header.h:99`), although
`runtime-dump.cpp:204` says "all the load memory operations": `unseen`. And `MAKE_CONCOLIC`
clears the flag of the block it is in (`custom-instructions.cpp:542`), so that what the block
touched before no longer keeps it in the trace: `Cleared`.

## Runs

`tlc -config <run>.cfg <module>`; the module is `MCDispatch` for the runs of
Dispatch, `MCReplay` and `MCTracePool` for the last two.

| Run | Checks | Shows |
|---|---|---|
| `Dispatch_targets` | `IndInv`, `SupplyInv`, `ConvergedIsQuiescent`, `ResetBeforeResults`, `TargetQueueNotOverrun` | two targets with image updates, errors and time limits: no early convergence, no mixing of targets |
| `Dispatch_developer` | `TypeOK`, `SupplyInv`, `QueueBounded`, `ResultsAreThere`, `QuiescenceDetected` | developer mode, two results per item: topping up from a cached status never overfills a node, and a cluster out of work is noticed (fair) |
| `VMNode_distributed` | `NodeInv`, `NotDuplicated`, `NotLost`, `TraceIsOfTest`, `AbortOnlyInNextTest`, `ImplementsWorkNode`, `EveryTestTraced`, `ResetReturns` | a reset and two failures in distributed mode: what becomes of tests, and that only a guest that never connects, or the assertion in `store_trace`, keeps a reset from its end (fair) |
| `VMNode_developer` | `TypeOK`, `ImplementsWorkNode` | two failures of any kind in developer mode |
| `SVMNode_targets` | `TypeOK`, `ResultOfTrace`, `ImplementsWorkNode`, `EveryTraceExecuted` | two failures, and tasks that outlive a reset (fair) |
| `Registrar_targets` | `TypeOK`, `OneFSMUntilReset`, `StableWhileWalked`, `NoDispatchAfterDisconnect`, `JoinersListed` | nodes join and leave while targets change (fair) |
| `Replay_trace` | `RecorderAsserts`, `ReplayAgrees`, `ReplayAborts`, `FirstReads`, `DroppedIsConcrete` | whatever is dropped, excluded or interrupted, the recorder stays consistent, the tables hold what was read first, and the replay reads what the guest read; where the replay stops is characterised exactly |
| `TracePool_strategies` | `PoolInv`, `GraphHoldsTraces`, `EveryTraceOnce`, `NoneMeansDone`, `TestsFIFO`, `Drained` | all strategies: the graph is the tree of the traces, each trace is handed out once, `next_` empties although superseded traces stay in it, but for `bfs` and `exp-2` (fair) |

Disagreements between the code and what it says of itself, each a run that TLC refutes:

| Run | Property | The text | What happens |
|---|---|---|---|
| `VMNode_fifo` | `TestsInOrder` | `node.h:32` "trace and test queues are inserted and removed in FIFO fashion." | a rejected test is pushed at the back |
| `VMNode_race` | `TraceIsOfTest` | `vm_node_fsm.cpp:262` "To be read when is_flag_active<trace_ready>() == true." | a failure between the two reads of `is_prev_task_finished` lets a stale trace through |
| `SVMNode_restart` | `TestsOfTarget` | `svm_node_fsm.cpp:73` "Basically, serves as constructor." | `tests_` survives a reset and is pushed on an error under the next target |
| `Registrar_race` | `OneFSMPerNode` | `node_registrar.cpp:131` "call_back must happen before push_back, or race condition ensues." | a reset of Dispatch beside a registration leaves a node with no FSM or two |

More weaknesses are in the models without a run of their own. An exception before the
VM is launched, in distributed mode, trips `BOOST_ASSERT(stdout_)` (`child.hpp:77`) in
`exception_caught`: `aborted` becomes `"get_stdout"`. And `connect_vm` waits without a
timeout, as the comment at `vm_node_fsm.cpp:915` says: `reset()` joins the task for ever if
the VM is gone, the exception in `ResetReturns` beside a node that `store_trace` has ended. In the pools, `exp-2` keeps one branch
per score (`trace_graph.cpp:436`), so that "All child traces have been executed." (line 450) fails
behind a tie, the exception in `NoneMeansDone`; and under `bfs` a superseded trace stays in
`next_` for good, the exception in `Drained`. In the recorder, a `MAKE_CONCOLIC` that throws
leaves the `MAKE_SYMBOLIC` behind it to stop QEMU by an assertion, exempted in
`RecorderAsserts`; and a helper load that is not recorded is the one way in which a replay that
runs to its end reads something else than the guest, the exception in `ReplayAgrees`.

### Bounds

Dispatch: one node of each kind with one instance, queues of one item (`NodeQueue`, 20 in
the code), two unread commands when a target begins (`MaxSent`, enough for a reset to meet
an unread commence). A node of each kind suffices for every exchange, since node FSMs meet
only in the pools; the proofs cover any number. In `Dispatch_developer` there are two
distinct tests beside the initial one (`DistinctTests`), an item gives up to two results,
and a node holds up to two (`MaxYield`, `MaxOut`), so that the pools hold more than a node
may be sent; in `Dispatch_targets` each of these is one, with an error log (`MaxErrors`).

VMNode and SVMNode: two instances, so that one works while another fails or is rejected;
one reset, so that what one round leaves behind meets the next. `VMNode_distributed` and
`VMNode_developer` have one test beside the initial one.

Registrar: two VM nodes and an SVM node, two resets. No symmetry is used.

Replay: four addresses, the last of them on the stack, two byte values, a register of two bytes, two concolic variables
(one of two bytes, one of one, made concolic in this order), five TBs of the target
(`MaxTBs`: two to make a variable concolic and three more, so that a kept, a dropped and an
interrupted block meet in every order) and one change by the rest of the guest (`MaxEnv`).
The programs contain the three TBs of the library, loads that overlap in both orders, a load across the edge of a
variable, a store of what was loaded, a helper load, a block that raises, and a block that reads
before `MAKE_CONCOLIC` or behind the end of the capture. The concolic variables do not overlap (KLEE refuses those that do).
The run has `First = FALSE`; `First = TRUE` passes as well.

TracePool: four traces of six sequences that are prefixes of each other or branch behind
the first or the second block, with and without repeated blocks, so that one trace can
supersede two others and scores can be tied; five arrivals of three tests. The trace pool
and the test pool share no state, and `OnePool` does not interleave them.

Deadlock is not checked in the passing runs of VMNode: `reset()` waits
for ever for a task whose VM was killed, and `exception_caught` for a VM that does not
exit. Nor is it in `Replay_trace`, where a trace ends, and in `TracePool_strategies`, where
a pool may be exhausted or crash. The other runs check it.

### Fairness

Dispatch: `run()` is called in an endless loop, and so are the listener and the node's
`run()`. The poll loop releases the lock between two polls and takes it again at once;
that the listener gets it in the end is what a usable lock gives, and is stated as strong
fairness of `Listen` and of the dispatch thread, whose requests wait for the same lock.
Nothing obliges a node to join. VMNode and SVMNode: weak fairness of the poll loop, of
tasks and of guests; none of failures or of requests. Registrar: weak fairness of the
dispatch thread, strong fairness of the registrar's two waits for a guard. TracePool: weak
fairness of taking a trace, since Dispatch asks for one whenever an SVM node has room; none
of insertions, and none for `exp-2`, of which `Drained` says nothing.

## Proofs

`tlapm M.tla` checks the proofs of module M; none takes more than twenty minutes. Dispatch
(`DispatchVisits` for types and what one visit does, `DispatchProofs`), for all values of the constants that
satisfy `NodesAssumption`, `OptionsAssumption`, `BoundsAssumption`, `InstancesAssumption`
and `MaxYieldAssumption`:

* `TypeCorrect`: `Spec => []TypeOK`.
* `Invariance`: `Spec => []IndInv`, one lemma per action.
* `Convergence`: `Spec => []ConvergedIsQuiescent`.
* `TargetsSeparate`: `Spec => []ResetBeforeResults`.
* `Supply`: `Spec => []SupplyInv`.
* `NodeQueuesBounded`: `Spec => []QueueBounded`.
* `AnnouncedResults`: `Spec => []ResultsAreThere`.
* `TargetsSuffice`: `Spec => []TargetQueueNotOverrun`.

`ConvergedIsQuiescent` is not inductive: it speaks of cached statuses and says nothing of
how they were obtained. `IndInv` (module `DispatchInv`) adds the argument. A status with no
work in it is still true of the node, unless Dispatch is waiting for a newer one
(`StatusInv`), because an idle node does not start work by itself (`FlagsInv`: its active
flag is false only if its instances are idle) and because items are sent only by the
visit that then asks for the status again (`CommandsInv`: no items are unread unless
Dispatch waits for the node). After a change of target the flag is set, and it is cleared
only by a status that the node sends after it has served the reset and the commence: for
that, `CommandsInv` follows the last reset and commence among the unread commands.

`QueueBounded` and `ResultsAreThere` need to know how old a status may be when it is acted
on. `WorkInv` says, for the states of an FSM between the answer of the node and the visit
that tops it up, that the items the node has, with those its first instances may still
queue, exceed what the status says by no more than those instances, and, up to the visit
that asks for them, that the results are no fewer. It rests on `IndInv`: nothing is unread
in these states, and a commence finds the node reset, so with an empty queue. `TargetInv`
says that DispatchFSM reaches `NextTarget` only with a target left: at first because the
list is not empty, later by `have_next_target`; with one VM node one target is enough.
TLC checks `IndInv` in `Dispatch_targets`, and `SupplyInv` (`WorkInv` and `TargetInv`) in both
runs of Dispatch.

The recorder (`ReplayProofs`), for all programs, variables, sizes and bounds that satisfy `ByteAssumption`, `AddrAssumption`,
`WidthAssumption` and `ProgsAssumption` (a block has at most one custom instruction, the code
of the library between `MAKE_CONCOLIC` and `MAKE_SYMBOLIC` only pushes, beside the variables, and
a load reads something):

* `EntryAdded`: adding a load to a table of disjoint entries gives disjoint entries that
  cover what was covered and the load; bytes that were there stay, the others are the load's.
  The heart of it is that the scan of `overlapsMemoSyncEntry`, which starts at the last entry
  before the load, overlooks none; that needs the entries to be disjoint.
* `AssertionsHold`: `Spec => []RecorderAsserts`.
* `TablesHoldFirstReads`: `SpecReplay => []FirstReads`.
* `OnlyConcreteDropped`: `SpecReplay => DroppedIsConcrete`.
* `RecorderUndisturbed`: `SpecReplay => Spec`; the replay disturbs no variable of the
  recorder, so what is proved of the recorder alone holds of the composition.

`RecorderAsserts` is not inductive: the assertions compare sizes at moments in which the
vectors differ by design. `RecorderInv` says what they are in between. Within a block of
interest every vector has the block's element but `tbExecSequ` and the interrupt states;
outside, the interrupt state of the last kept block is still to come if `interested` is set
and no interrupt is pending (`Recorder`, `Lengths`). The merge points are linked: a block is open (`NormalTb`,
`BackToInterestTb`) exactly if the next one follows without a gap, so the last one can be
closed when `interested` is set, and every group begins with a leader (`Linked`).
`Library` ties the program counter and `MAKE_SYMBOLIC` to `MAKE_CONCOLIC`: as long as a variable
is pending, what is left of the block is pushes, or pushes up to `MAKE_SYMBOLIC`, and otherwise no
`MAKE_SYMBOLIC` is left (`Due`). `ReadsInv` adds
that each table is as `EntryAdded` leaves it with respect to the loads done so far, and
`DropInv` that a block which has touched something symbolic has its flag set or was
`Cleared`.

The VM node (`VMNodeProofs`, `VMNodeTests`), for any number of instances, tests, faults and
resets, and in both modes (`InstancesAssumption`, `MaxYieldAssumption`, `VMNodeAssumption`):

* `NodeInvariant`: `Spec => []NodeInv`, and from it `NodeTypes`: `Spec => []TypeOK`.
* `AbortInNextTest`: `Spec => []AbortOnlyInNextTest`.
* `NoTestLost`: `Spec => []NotLost`.
* `TraceOfTest` and `NoTestDuplicated`: `Spec => []TraceIsOfTest` and
  `Spec => []NotDuplicated`, if `Faults` does not contain `"race"`.
* `VMNodeIsWorkNode`: `Spec => ImplementsWorkNode`, the refinement: what the proofs about
  Dispatch take for a node is what `vm_node.cpp` does.

The hypothesis of the two in the middle is that no task fails between the two reads of
`is_prev_task_finished`. It cannot be dropped: `VMNode_race` is the counterexample, where a
stale trace is taken for that of the test, and so handed out a second time.

`NodeInv` has a part for each instance and one for the loop of `poll()`. An instance whose
state `poll()` uses without asking for its flags has neither failed nor terminated, and one
in `Error` is not terminated (`Sound`); `store_trace` has set the trace by the time
`StoreTrace` is left (`Traced`); and as long as nothing has failed no task has, and the VM
runs (`Calm`), so that the paths on which a test is dropped need a failure. `Sound` and
`Calm` are not claimed while `reset()` waits, when the VMs have been killed under their
tasks. `Polling` says what holds between the visit to one instance and
the next: an exception in flight is one of the instance under the loop (`Handling`), and
`any_active` is what the instances visited so far make it.

`NoTestLost` and `NoTestDuplicated` count. `Places(t)` is how often the test is in the
queue, with an instance, among the traces and among those delivered; `Balanced` compares it
with how often the test was given. A visit to an instance has one of a few *effects* on the
queues and on that instance (`Effect`); `EffectKeeps` does the counting once for each of
them, and the lemma of an action only says which effect it has. The refinement uses the same
effects (`EffectMaps`): each is a step of WorkNode on the numbers of waiting items, engaged
instances and results, or leaves these as they are.

The SVM node (`SVMNodeProofs`), for any number of instances, traces, results, faults and
resets (`InstancesAssumption`, `MaxYieldAssumption`, `SVMNodeAssumption`):

* `SVMNodeTypes`: `Spec => []TypeOK`.
* `ResultsAreOfTrace`: `Spec => []ResultOfTrace`.
* `SVMNodeIsWorkNode`: `Spec => ImplementsWorkNode`, the refinement: what the proofs about
  Dispatch take for a node is what `svm_node.cpp` does.

`NodeInv` says that an instance that works has a trace, that a running task belongs to a
state that works, and that `any_active` of the poll loop is what the instances visited so
far make it; the last is what the end of a poll needs, since WorkNode sets the active flag
by the number of busy instances at that moment, and SVMNode by what it met on the way: no
instance becomes busy or idle behind the loop's back. `ResultInv` adds, for the time before
the first reset, that no instance has an old task and that what it has found when its last
task is done is of its trace.

The registrar (`RegistrarProofs`), for any nodes and any number of resets
(`RegistrarAssumption`): `RegistrarTypes`, `OneFSMBeforeReset`, `WalksAreStable` and
`NoDispatchAfterwards` prove all that `Registrar_targets` checks but liveness. `RegistryInv`
follows the node in the hands of the registrar thread: it is not listed, has its FSM
between `call_back` and `push_back`, and there is none after the disconnection.

The pools (`TracePoolProofs`), for all strategies, any sequences of blocks and tests, and any
number of arrivals (`NoneAssumption`, `StrategiesAssumption`, and `BlockSeqsAssumption`,
which is what `merge_trace` asserts: all traces begin with the same block; and a trace has a
block, since `writeRtEnvToFile` (`runtime-dump.cpp:509`) writes nothing otherwise):

* `PoolInvariant`: `Spec => []PoolInv`.
* `GraphAlwaysHoldsTraces`: `Spec => []GraphHoldsTraces`.
* `TracesReturnedOnce`: `Spec => []EveryTraceOnce`.
* `NoneAlwaysMeansDone`: `Spec => []NoneMeansDone`.
* `TestsLeaveInOrder`: `Spec => []TestsFIFO`.

`GraphHoldsTraces` is not inductive: `back_insert` walks from the end of the superseded trace
towards the root and stops at the first vertex with another id, so a vertex of that trace
above such a one would keep the id of a trace that is gone. `LastPart` excludes it: the
vertices with a trace's id are a last part of its path. `Accepted` adds which traces the
selector, `next_` and `executed_traces_` hold, and `RootFirst` that the descent of `exp-2`
begins at the root. The three ways to accept a trace are one case in the proof (`Grows`: a new
vertex for each block behind the divergence, and the id of the superseded trace, if any,
replaced); the lemmas from `GrowFacts` to `GraphGrows` show that the tree keeps its shape.
`NoneMeansDone` follows from `PoolInv` without further steps of the system, by what
the searches find: `Before` is a strict total order on the paths, so `next_bfs` has a first
open vertex (`BfsFinds`). For the recursive descent, `PickThere` shows that the recursion
defines a value at every vertex, from the leaves up, and `PickFinds` that it is a trace if
there is an open one behind no tie: of the vertices on the way to it, take the deepest at
which nothing is selected. These arguments by a least or deepest counterexample take the
place of induction.

Model-checked only:

* `QuiescenceDetected`, `EveryTestTraced`, `ResetReturns`, `EveryTraceExecuted`,
  `JoinersListed` and `Drained`: liveness, outside of the prover's reach.
* `ReplayAgrees` and `ReplayAborts`. They depend on the whole history of the recorder, through
  the merging of the tables of consecutive blocks when the trace is written
  (`mergeMemoSyncTables`, a fold over the tables), and what a fold computes for every trace
  would have to be shown by induction over its steps.

## Not modelled

* QEMU, KLEE and LLVM themselves: a million and a half lines of vendored C and C++ that CRETE
  extends in a few dozen places. What CRETE adds is modelled where it keeps state; as a
  share of all lines under the root of the repository it remains small.
* In the cluster: the contents of tests and traces, logs, statistics and directories. In
  `Dispatch` pools are counts, any accepted number of received traces may be new, and a
  trace whose selection throws is lost; `TracePool` has the choice itself.
* In the registrar: a request that is neither a registration nor a shutdown, on which `connect`
  throws (`node_registrar.cpp:145`) and which no node sends; and a node
  that asks for a port and never connects to it, for which `open_connection_wait` (line 110)
  waits without a timeout, so that no further node can join.
* In the recorder: the call stack monitor, which `crete_runtime_dump` switches off
  (`is_working_call_stack = 0`); the loads that QEMU's own `do_interrupt` makes into the table of an
  interrupted block before the next TB begins; the other jumps out of a block, which QEMU takes
  for code that modifies itself (`cpu_resume_from_signal`); code generation and the formats of
  the files; overlapping concolic variables. Three assertions are not evaluated: that
  `is_target_pid` is current (`runtime-dump.cpp:1815`), as `cpu-exec.c:287` sets it on every
  turn of the loop, and those of `feed_test_case` (lines 585 and 593), by which the test case has
  a value of the right size for the variable, as it has in the models (`Vars`). The
  instruction `MESSAGE` may disable the capture as a `MAKE_CONCOLIC` that throws does; only
  `s2e_message` issues it, which nothing in the guest library or its tools calls.
* In the replay: `crete_sync_memory` reads a table in two passes, with the same result as the one
  pass of the model; expressions, constraints, forks, and that writing back a table entry makes
  bytes concrete that were symbolic. The values in the models are the concrete ones, by which
  KLEE follows the recorded path.
* The registry of unexecuted blocks of the trace analyzer, whose only reader is commented out.
* A node that crashes while Dispatch runs: `exception_caught` of a node FSM asserts, which
  ends Dispatch. `Registrar` has the abort after a shutdown.
* Processes of VMs that outlive their instance.
* `assign_next_target` takes the registrar's guard a second time after `reset` has released
  it; `Registrar` models the first use, which is the one that makes FSMs.

## Plan

1. `Runner`: RunnerFSM in the guest against QemuFSM, with the failure of either side.
2. Refinement of the counts in `Dispatch` by `TracePool`.
3. The symbolic bytes of the replay: which of them a table entry makes concrete.
4. A proof of `ReplayAgrees`: an invariant that relates each merged table to the memory the
   guest had at its first block.
