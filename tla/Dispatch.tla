------------------------------ MODULE Dispatch ------------------------------
(***************************************************************************)
(* The dispatcher of a CRETE cluster (lib/cluster/dispatch.cpp): the       *)
(* DispatchFSM, its two pools, one VMNodeFSM or SVMNodeFSM per node, and   *)
(* the status of each node that Dispatch caches; together with the nodes   *)
(* (NodeContract) and the connections to them.                             *)
(*                                                                         *)
(* Tests and traces are counted, not named.  A connection is a queue of    *)
(* commands.  A request that is answered (status, traces, tests, errors,   *)
(* image information) is served after the commands sent before it, and     *)
(* Dispatch waits for the answer: here the step that asks is enabled when  *)
(* the queue is empty and the node's lock is free.                         *)
(***************************************************************************)
EXTENDS NodeContract, Sequences, FiniteSets

CONSTANTS
    VMNodes, SVMNodes,  \* the nodes that may join
    None,               \* no node
    Distributed,        \* options.mode.distributed
    UpdateImage,        \* options.vm.image.update
    Targets,            \* length of options.test.items
    NodeQueue,          \* vm_test_multiplier and vm_trace_multiplier
    TraceInterval,      \* options.test.interval.trace
    TestInterval,       \* options.test.interval.tc
    TimeElapses,        \* whether options.test.interval.time can be reached
    DistinctTests,      \* bound: different test cases there are
    MaxOut, MaxErrors,  \* bounds: results and error logs a node holds
    MaxSent             \* bound: commands unread when the next target begins

Nodes == VMNodes \cup SVMNodes

ASSUME NodesAssumption ==
    /\ VMNodes \cap SVMNodes = {}
    /\ None \notin Nodes
    /\ IsFiniteSet(Nodes)

\* DispatchUI::process_config reads the items and the image option in
\* distributed mode only.
ASSUME OptionsAssumption ==
    /\ Distributed \in BOOLEAN
    /\ UpdateImage \in BOOLEAN
    /\ UpdateImage => Distributed
    /\ Targets \in Nat
    /\ ~Distributed => Targets = 0
    /\ NodeQueue \in Nat \ {0}
    /\ TraceInterval \in Nat
    /\ TestInterval \in Nat
    /\ TimeElapses \in BOOLEAN

ASSUME BoundsAssumption ==
    DistinctTests \in Nat /\ MaxOut \in Nat /\ MaxErrors \in Nat /\ MaxSent \in Nat

VARIABLES
    \* DispatchFSM
    state,       \* its state
    first,       \* first_
    targets,     \* length of next_target_queue_
    tests,       \* TestPool: [next, all], the sizes of next_ and all_
    traces,      \* TracePool: [next, all], the sizes of next_ and all_unique_
    todo,        \* node FSMs that dispatch() has still to visit
    waiting,     \* the node whose status rx_status waits for, or None
    \* NodeRegistrar, VMNodeFSM, SVMNodeFSM
    nodes,       \* nodes()
    status,      \* the cached NodeStatus of a node
    fsm,         \* the state of a node's FSM
    received,    \* number of traces_ or tests_ an FSM has received
    \* connections and nodes
    sent,        \* commands a node's listener has not read yet
    node         \* the nodes

vars == <<state, first, targets, tests, traces, todo, waiting, nodes, status, fsm,
          received, sent, node>>

-----------------------------------------------------------------------------
\* "Dispatching" is the dispatch action under way; "Undefined" stands for what
\* follows a call of front() or pop_front() on an empty next_target_queue_.
States == {"SpecCheck", "NextTarget", "Dispatch", "Dispatching", "Terminate",
           "Terminated", "Undefined"}

VMStates == {"TxConfig", "ValidateImage", "UpdateImage", "Commence", "RxStatus",
             "StatusRxed", "RxTrace", "TraceRxed", "TxTest", "TestTxed", "ErrorRxed"}

SVMStates == {"TxConfig", "Commence", "RxStatus", "StatusRxed", "TxTrace", "TraceTxed",
              "RxTest", "TestRxed", "ErrorRxed"}

NodeStatus == [tests : Nat, traces : Nat, errors : Nat, active : BOOLEAN]

Pool == [next : Nat, all : Nat]

Commands == [type : {"reset", "next_target", "config", "image_info", "image",
                     "commence", "items"},
             count : Nat]

Command(t) == [type |-> t, count |-> 0]
Items(k) == [type |-> "items", count |-> k]

\* Mutant of StatusOf: the two counts are swapped.
StatusSwapped(n) ==
    LET nd == node[n]
    IN  [tests  |-> IF n \in VMNodes THEN nd.out ELSE nd.inq,
         traces |-> IF n \in VMNodes THEN nd.inq ELSE nd.out,
         errors |-> nd.errs,
         active |-> nd.active]

\* Node::status().
StatusOf(n) ==
    LET nd == node[n]
    IN  [tests  |-> IF n \in VMNodes THEN nd.inq ELSE nd.out,
         traces |-> IF n \in VMNodes THEN nd.out ELSE nd.inq,
         errors |-> nd.errs,
         active |-> nd.active]

EmptyPool == [next |-> 0, all |-> 0]

Init ==
    /\ state = "SpecCheck"
    /\ first = TRUE
    /\ targets = Targets
    /\ tests = EmptyPool
    /\ traces = EmptyPool
    /\ todo = {}
    /\ waiting = None
    /\ nodes = {}
    /\ status = [n \in Nodes |-> [tests |-> 0, traces |-> 0, errors |-> 0, active |-> TRUE]]
    /\ fsm = [n \in Nodes |-> "TxConfig"]
    /\ received = [n \in Nodes |-> 0]
    /\ sent = [n \in Nodes |-> <<>>]
    /\ node = [n \in Nodes |-> NewNode]

-----------------------------------------------------------------------------
(* Guards of DispatchFSM.                                                  *)

are_node_queues_empty == \A n \in nodes : status[n].tests = 0 /\ status[n].traces = 0

are_all_queues_empty == are_node_queues_empty /\ tests.next = 0 /\ traces.next = 0

are_nodes_inactive == \A n \in nodes : ~status[n].active

\* Mutant of is_converged: the queues are overlooked.
ConvergedWhenInactive == are_nodes_inactive

is_converged == are_all_queues_empty /\ are_nodes_inactive

\* Time apart, which the code reads anew for each row.
is_target_expired == is_converged \/ traces.all >= TraceInterval \/ tests.all >= TestInterval

\* Mutant of have_next_target: off by one.
HaveTargetOrNone == targets >= 0

have_next_target == targets > 0

has_nodes == nodes # {}

-----------------------------------------------------------------------------
(* SpecCheck.  The back end tries the rows of a state from the last to the *)
(* first.                                                                  *)

Go(from, to) == state = from /\ has_nodes /\ state' = to

Stay == UNCHANGED <<first, targets, tests, traces, todo, waiting, nodes, status, fsm,
                    received, sent, node>>

TerminateRow == (is_target_expired \/ TimeElapses) /\ ~have_next_target
TerminateRowForced == is_target_expired /\ ~have_next_target

SpecTerminate == Go("SpecCheck", "Terminate") /\ TerminateRow /\ Stay

SpecDispatch ==
    /\ Go("SpecCheck", "Dispatch")
    /\ ~TerminateRowForced
    /\ ~Distributed \/ (~first /\ ~is_target_expired)
    /\ Stay

SpecNextTarget ==
    /\ Go("SpecCheck", "NextTarget")
    /\ ~TerminateRowForced
    /\ Distributed
    /\ first \/ ((is_target_expired \/ TimeElapses) /\ have_next_target)
    /\ Stay

Terminate == Go("Terminate", "Terminated") /\ Stay

\* DispatchUI::run goes on calling run(); Terminated is a terminate state, in which
\* the back end ignores every event.
Idle == state \in {"Terminated", "Undefined"} /\ UNCHANGED vars

\* finish, next_target_clean, reset, assign_next_target.  set_up_root_dir, which
\* reset calls, reads the front of the queue; assign_next_target pops one target
\* for each VM node.
NextTarget ==
    LET vms == nodes \cap VMNodes
    IN  /\ state = "NextTarget"
        /\ has_nodes
        /\ \A n \in nodes : Len(sent[n]) <= MaxSent
        /\ state' = IF have_next_target /\ Cardinality(vms) <= targets
                    THEN "Dispatch" ELSE "Undefined"
        /\ targets' = IF Cardinality(vms) <= targets THEN targets - Cardinality(vms) ELSE 0
        /\ tests' = EmptyPool
        /\ traces' = EmptyPool
        /\ fsm' = [n \in Nodes |-> IF n \in nodes THEN "TxConfig" ELSE fsm[n]]
        /\ received' = [n \in Nodes |-> IF n \in nodes THEN 0 ELSE received[n]]
        /\ status' = [n \in Nodes |-> IF n \in nodes THEN [status[n] EXCEPT !.active = TRUE]
                                      ELSE status[n]]
        /\ sent' = [n \in Nodes |->
                      CASE n \in vms -> sent[n] \o <<Command("reset"), Command("next_target")>>
                        [] n \in nodes \ vms -> Append(sent[n], Command("reset"))
                        [] OTHER -> sent[n]]
        /\ UNCHANGED <<first, todo, waiting, nodes, node>>

-----------------------------------------------------------------------------
(* The dispatch action: a visit to each node FSM, the VM nodes first.      *)

DispatchBegin ==
    /\ Go("Dispatch", "Dispatching")
    /\ todo' = nodes
    /\ UNCHANGED <<first, targets, tests, traces, waiting, nodes, status, fsm, received,
                   sent, node>>

DispatchEnd ==
    /\ state = "Dispatching"
    /\ todo = {}
    /\ waiting = None
    /\ state' = "SpecCheck"
    /\ first' = FALSE
    /\ UNCHANGED <<targets, tests, traces, todo, waiting, nodes, status, fsm, received,
                   sent, node>>

\* The step of n's FSM from one state to another.
Visit(n, from, to) ==
    /\ state = "Dispatching"
    /\ waiting = None
    /\ n \in todo
    /\ n \in SVMNodes => todo \cap VMNodes = {}
    /\ fsm[n] = from
    /\ fsm' = [fsm EXCEPT ![n] = to]
    /\ todo' = todo \ {n}
    /\ UNCHANGED <<state, first, targets, nodes, status>>

\* The node's listener has read all commands, and the lock is free.
Listening(n) == sent[n] = <<>> /\ ~node[n].polling

Send(n, cmds) == sent' = [sent EXCEPT ![n] = @ \o cmds]

\* Mutant of Lesser: the loop does not stop when the pool is empty.
Second(a, b) == b

Lesser(a, b) == IF a < b THEN a ELSE b

\* Mutant of Room: what the node has already is not counted.
RoomForAll(k) == NodeQueue

Room(k) == IF k < NodeQueue THEN NodeQueue - k ELSE 0

\* Rows without an action, or whose only action is the one of rx_status.
QuietVisit(n, from, to) ==
    Visit(n, from, to) /\ UNCHANGED <<tests, traces, waiting, received, sent, node>>

\* Mutant of RxStatus: it goes on with the cached status.
RxStatusCached(n) ==
    /\ Visit(n, "RxStatus", "StatusRxed")
    /\ UNCHANGED <<tests, traces, waiting, received, sent, node>>

\* cluster::poll: ask, then wait for the answer (RxStatusReply).
RxStatus(n) ==
    /\ Visit(n, "RxStatus", "StatusRxed")
    /\ waiting' = n
    /\ UNCHANGED <<tests, traces, received, sent, node>>

RxStatusReply(n) ==
    /\ waiting = n
    /\ Listening(n)
    /\ status' = [status EXCEPT ![n] = StatusOf(n)]
    /\ waiting' = None
    /\ UNCHANGED <<state, first, targets, tests, traces, todo, nodes, fsm, received, sent,
                   node>>

\* rx_error: at least one error log, as many as bandwidth_in_bytes allows; the
\* visit that follows writes them to the logs.
RxError(n, from) ==
    /\ Visit(n, from, "ErrorRxed")
    /\ status[n].errors > 0
    /\ Listening(n)
    /\ \E k \in 0..node[n].errs :
        /\ node[n].errs > 0 => k > 0
        /\ node' = [node EXCEPT ![n] = TransmitErrors(@, k)]
    /\ UNCHANGED <<tests, traces, waiting, sent>>

-----------------------------------------------------------------------------
(* VMNodeFSM.  register_node_fsm makes no node 'first', so the rows through *)
(* RxGuestData are never taken.                                            *)

VMTxConfig(n) ==
    /\ Visit(n, "TxConfig", IF UpdateImage THEN "ValidateImage" ELSE "Commence")
    /\ Send(n, <<Command("config")>>)
    /\ UNCHANGED <<tests, traces, waiting, received, node>>

\* is_image_valid asks the node for its image information.
ValidateImage(n) ==
    \E to \in {"UpdateImage", "Commence"} : Listening(n) /\ QuietVisit(n, "ValidateImage", to)

UpdateNodeImage(n) ==
    /\ Visit(n, "UpdateImage", "Commence")
    /\ Send(n, <<Command("image_info"), Command("image")>>)
    /\ UNCHANGED <<tests, traces, waiting, received, node>>

\* Mutant of CommenceNode: the packet is not sent.
CommenceUnsent(n) == QuietVisit(n, "Commence", "RxStatus")

CommenceNode(n) ==
    /\ Visit(n, "Commence", "RxStatus")
    /\ Send(n, <<Command("commence")>>)
    /\ UNCHANGED <<tests, traces, waiting, received, node>>

\* The request for results: at least one of them, if there are any, and as many
\* as bandwidth_in_bytes allows.
RxResults(n, from, to) ==
    /\ Visit(n, from, to)
    /\ Listening(n)
    /\ \E k \in 0..node[n].out :
        /\ node[n].out > 0 => k > 0
        /\ node' = [node EXCEPT ![n] = Transmit(@, k)]
        /\ received' = [received EXCEPT ![n] = k]
    /\ UNCHANGED <<tests, traces, waiting, sent>>

RxTrace(n) == status[n].traces > 0 /\ RxResults(n, "RxTrace", "TraceRxed")
RxNoTrace(n) == status[n].traces = 0 /\ QuietVisit(n, "RxTrace", "TxTest")

\* to_trace_pool: all_unique_ and next_ grow by the traces the analyzer accepts.
TraceRxed(n) ==
    /\ Visit(n, "TraceRxed", "TxTest")
    /\ \E k \in 0..received[n] : traces' = [next |-> traces.next + k, all |-> traces.all + k]
    /\ received' = [received EXCEPT ![n] = 0]
    /\ UNCHANGED <<tests, waiting, sent, node>>

\* tx_test; rx_status.
TxTest(n) ==
    LET k == Lesser(tests.next, Room(status[n].tests))
    IN  /\ Visit(n, "TxTest", "TestTxed")
        /\ tests' = [tests EXCEPT !.next = @ - k]
        /\ Send(n, IF k > 0 THEN <<Items(k)>> ELSE <<>>)
        /\ waiting' = n
        /\ UNCHANGED <<traces, received, node>>

TestTxed(n) == status[n].errors = 0 /\ QuietVisit(n, "TestTxed", "RxStatus")

VisitVM(n) ==
    \/ VMTxConfig(n) \/ ValidateImage(n) \/ UpdateNodeImage(n) \/ CommenceNode(n)
    \/ RxStatus(n) \/ QuietVisit(n, "StatusRxed", "RxTrace")
    \/ RxTrace(n) \/ RxNoTrace(n) \/ TraceRxed(n)
    \/ TxTest(n) \/ TestTxed(n)
    \/ RxError(n, "TestTxed") /\ UNCHANGED received
    \/ QuietVisit(n, "ErrorRxed", "RxStatus")

-----------------------------------------------------------------------------
(* SVMNodeFSM.                                                             *)

SVMTxConfig(n) ==
    /\ Visit(n, "TxConfig", "Commence")
    /\ Send(n, <<Command("config")>>)
    /\ UNCHANGED <<tests, traces, waiting, received, node>>

\* The loop takes traces until the node has enough or none is left; one whose
\* selection throws is out of the pool and not sent.
TxTrace(n) ==
    LET room == Room(status[n].traces)
    IN  /\ Visit(n, "TxTrace", "TraceTxed")
        /\ \E k \in 0..Lesser(traces.next, room) : \E lost \in 0..(traces.next - k) :
            /\ k < room => k + lost = traces.next
            /\ room = 0 => lost = 0
            /\ traces' = [traces EXCEPT !.next = @ - (k + lost)]
            /\ Send(n, IF k > 0 THEN <<Items(k)>> ELSE <<>>)
        /\ waiting' = n
        /\ UNCHANGED <<tests, received, node>>

RxTest(n) == status[n].tests > 0 /\ RxResults(n, "RxTest", "TestRxed")
RxNoTest(n) ==
    status[n].tests = 0 /\ status[n].errors = 0 /\ QuietVisit(n, "RxTest", "RxStatus")
RxNoTestButError(n) == status[n].tests = 0 /\ RxError(n, "RxTest") /\ UNCHANGED received

\* TestPool::insert: all_ and next_ grow by the tests that are new.
InsertTests(n) ==
    /\ \E k \in 0..received[n] :
        /\ tests.all + k <= DistinctTests
        /\ tests' = [next |-> tests.next + k, all |-> tests.all + k]
    /\ received' = [received EXCEPT ![n] = 0]

TestRxed(n) ==
    /\ status[n].errors = 0
    /\ Visit(n, "TestRxed", "RxStatus")
    /\ InsertTests(n)
    /\ UNCHANGED <<traces, waiting, sent, node>>

\* rx_error is the action of the row.
TestRxedAndError(n) ==
    /\ status[n].errors > 0
    /\ Visit(n, "TestRxed", "ErrorRxed")
    /\ InsertTests(n)
    /\ Listening(n)
    /\ \E k \in 0..node[n].errs :
        /\ node[n].errs > 0 => k > 0
        /\ node' = [node EXCEPT ![n] = TransmitErrors(@, k)]
    /\ UNCHANGED <<traces, waiting, sent>>

VisitSVM(n) ==
    \/ SVMTxConfig(n) \/ CommenceNode(n)
    \/ RxStatus(n) \/ QuietVisit(n, "StatusRxed", "TxTrace")
    \/ TxTrace(n) \/ QuietVisit(n, "TraceTxed", "RxTest")
    \/ RxTest(n) \/ RxNoTest(n) \/ RxNoTestButError(n)
    \/ TestRxed(n) \/ TestRxedAndError(n)
    \/ QuietVisit(n, "ErrorRxed", "RxStatus")

-----------------------------------------------------------------------------
(* The registrar thread, and the nodes.                                    *)

\* The callback that makes the FSM waits for the list it adds to, which the
\* dispatch action holds while it visits the nodes of that kind.
VisitingVMs == todo \cap VMNodes # {} \/ waiting \in VMNodes
VisitingSVMs == ~VisitingVMs /\ (todo # {} \/ waiting # None)

\* NodeRegistrarDriver::connect: the call_back and the push_back in one step.
Connect(n) ==
    /\ n \notin nodes
    /\ n \in VMNodes => ~VisitingVMs
    /\ n \in SVMNodes => ~VisitingSVMs
    /\ nodes' = nodes \cup {n}
    /\ status' = [status EXCEPT ![n] = [StatusOf(n) EXCEPT !.active = TRUE]]
    /\ todo' = IF n \in SVMNodes /\ VisitingVMs THEN todo \cup {n} ELSE todo
    /\ UNCHANGED <<state, first, targets, tests, traces, waiting, fsm, received, sent, node>>

\* The node's listener serves the command at the head of its queue.
Served(n, nd) ==
    LET c == Head(sent[n])
        boots == IF n \in VMNodes THEN 0..Instances ELSE {0}
    IN  CASE c.type = "reset" -> {Reset(nd)}
          [] c.type = "commence" -> UNION {{Commence(nd, b, s) : s \in 0..b} : b \in boots}
          [] c.type = "items" -> {Receive(nd, c.count)}
          [] OTHER -> {nd}

Listen(n) ==
    /\ sent[n] # <<>>
    /\ ~node[n].polling
    /\ \E nd \in Served(n, node[n]) : node' = [node EXCEPT ![n] = nd]
    /\ sent' = [sent EXCEPT ![n] = Tail(@)]
    /\ UNCHANGED <<state, first, targets, tests, traces, todo, waiting, nodes, status, fsm,
                   received>>

Poll(n) ==
    /\ \E nd \in Polled(node[n]) :
        /\ nd.out <= MaxOut
        /\ nd.errs <= MaxErrors
        /\ node' = [node EXCEPT ![n] = nd]
    /\ UNCHANGED <<state, first, targets, tests, traces, todo, waiting, nodes, status, fsm,
                   received, sent>>

-----------------------------------------------------------------------------
Control ==
    SpecTerminate \/ SpecDispatch \/ SpecNextTarget \/ Terminate \/ NextTarget
    \/ Idle \/ DispatchBegin \/ DispatchEnd

DispatchThread ==
    \/ Control
    \/ \E n \in VMNodes : VisitVM(n)
    \/ \E n \in SVMNodes : VisitSVM(n)
    \/ \E n \in Nodes : RxStatusReply(n)

Next == DispatchThread \/ \E n \in Nodes : Connect(n) \/ Listen(n) \/ Poll(n)

Spec == Init /\ [][Next]_vars

\* The threads of Dispatch and of the nodes loop for ever: run() of Dispatch, of
\* the listener and of the node.  A node's poll loop releases the node's lock
\* between two polls and takes it again at once; that its listener, and with it
\* Dispatch, gets the lock in the end is strong fairness.  Nothing makes a node
\* join.
Fairness ==
    /\ SF_vars(DispatchThread)
    /\ \A n \in Nodes : SF_vars(Listen(n)) /\ WF_vars(Poll(n))

FairSpec == Spec /\ Fairness

-----------------------------------------------------------------------------
(* Properties.                                                             *)

TypeOK ==
    /\ state \in States
    /\ first \in BOOLEAN
    /\ targets \in Nat
    /\ tests \in Pool
    /\ traces \in Pool
    /\ todo \subseteq nodes
    /\ nodes \subseteq Nodes
    /\ waiting \in nodes \cup {None}
    /\ status \in [Nodes -> NodeStatus]
    /\ fsm \in [Nodes -> VMStates \cup SVMStates]
    /\ received \in [Nodes -> Nat]
    /\ sent \in [Nodes -> Seq(Commands)]
    /\ node \in [Nodes -> NodeState]

NoItems(n) == \A i \in 1..Len(sent[n]) : sent[n][i].type # "items"

\* No node of the cluster has, or is being sent, anything to work on or to report,
\* and no pool has anything left to send.
Quiescent ==
    /\ tests.next = 0
    /\ traces.next = 0
    /\ \A n \in nodes :
        /\ node[n].inq = 0 /\ node[n].busy = 0 /\ node[n].out = 0
        /\ received[n] = 0
        /\ NoItems(n)

\* is_converged, which DispatchFSM evaluates on the statuses it has cached, is
\* true only if the cluster is quiescent: a target is never given up as converged
\* while a test or a trace of it is queued, in a message, or being worked on.
ConvergedIsQuiescent == state = "SpecCheck" /\ is_converged => Quiescent

\* dispatch() tops a node up from the cached status, yet the queue of a node never
\* outgrows the multiplier, the initial tests of its own VMs apart.
QueueBounded ==
    \A n \in Nodes :
        node[n].inq <= NodeQueue + (IF n \in VMNodes THEN Instances ELSE 0)

\* States of a node's FSM in which Dispatch takes results from the node or gives it
\* work.
Serving == {"StatusRxed", "RxTrace", "TraceRxed", "TxTest", "TestTxed", "TxTrace",
            "TraceTxed", "RxTest", "TestRxed", "ErrorRxed"}

\* Dispatch takes results from a node, and gives it work, only once the node has
\* executed the reset and the commence that begin the target: what it had queued for
\* the previous target never enters the pools of this one.
ResetBeforeResults ==
    \A n \in nodes :
        fsm[n] \in Serving /\ waiting # n =>
            sent[n] = <<>> /\ node[n].commenced

\* When has_trace or has_tests holds, the node has at least as many results as its
\* cached status says: receive_traces and receive_tests never come back empty.
ResultsAreThere ==
    \A n \in nodes :
        /\ fsm[n] = "RxTrace" => node[n].out >= status[n].traces
        /\ fsm[n] = "RxTest" /\ waiting # n => node[n].out >= status[n].tests

\* assign_next_target takes one target for each VM node: if there are targets, and no
\* more than one VM node may join, front() and pop_front() are never called on an
\* empty next_target_queue_, whenever the node joins.
TargetQueueNotOverrun ==
    Targets > 0 /\ Cardinality(VMNodes) <= 1 => state # "Undefined"

\* A quiescent cluster does not stay so undetected: DispatchFSM leaves the target,
\* unless a node joins or resumes work.
QuiescenceDetected ==
    (Quiescent /\ nodes = Nodes) ~> (~Quiescent \/ state \in {"NextTarget", "Terminate",
                                                              "Terminated"})
=============================================================================
