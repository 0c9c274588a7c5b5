--------------------------- MODULE DispatchVisits ---------------------------
(***************************************************************************)
(* The proof that Dispatch is type correct, and that the visits to the     *)
(* node FSMs preserve IndInv, for every set of nodes and every value of    *)
(* the options.                                                            *)
(***************************************************************************)
EXTENDS DispatchInv, FiniteSetTheorems, TLAPS

-----------------------------------------------------------------------------
(* Types.                                                                  *)

\* The operations of a node keep its record well formed.
LEMMA NodeTypes ==
    ASSUME NEW nd \in NodeState
    PROVE  /\ Reset(nd) \in NodeState
           /\ \A b, s \in Nat : Commence(nd, b, s) \in NodeState
           /\ \A k \in Nat : Receive(nd, k) \in NodeState
           /\ \A k \in 0..nd.out : Transmit(nd, k) \in NodeState
           /\ \A k \in 0..nd.errs : TransmitErrors(nd, k) \in NodeState
           /\ Polled(nd) \subseteq NodeState
<1>1. Reset(nd) \in NodeState
  BY Zenon DEF Reset, NodeState
<1>2. \A b, s \in Nat : Commence(nd, b, s) \in NodeState
  BY Zenon DEF Commence, NodeState
<1>3. \A k \in Nat : Receive(nd, k) \in NodeState
  BY DEF Receive, NodeState
<1>4. \A k \in 0..nd.out : Transmit(nd, k) \in NodeState
  BY DEF Transmit, NodeState
<1>5. \A k \in 0..nd.errs : TransmitErrors(nd, k) \in NodeState
  BY DEF TransmitErrors, NodeState
<1>6. Polled(nd) \subseteq NodeState
  <2>a. /\ nd.inq \in Nat /\ nd.busy \in Nat /\ nd.seeds \in Nat
        /\ nd.out \in Nat /\ nd.errs \in Nat
    BY DEF NodeState
  <2>1. Engaged(nd) \subseteq NodeState
    <3>1. \A x, y \in Nat : [nd EXCEPT !.inq = x, !.busy = y] \in NodeState
      BY Zenon DEF NodeState
    <3>2. nd.inq > 0 => nd.inq - 1 \in Nat /\ nd.busy + 1 \in Nat
      BY <2>a
    <3>3. QED
      BY Zenon, <3>1, <3>2 DEF Engaged, When
  <2>2. Dropped(nd) \subseteq NodeState
    BY DEF Dropped, When, NodeState
  <2>3. Released(nd) \subseteq NodeState
    <3> DEFINE R(x, y, z) == [nd EXCEPT !.busy = x, !.out = y, !.errs = z]
    <3>1. \A x, y, z \in Nat : R(x, y, z) \in NodeState
      BY Zenon DEF NodeState
    <3>2. \A k \in 0..MaxYield, e \in {0, 1} : nd.busy > nd.seeds =>
            nd.busy - 1 \in Nat /\ nd.out + k \in Nat /\ nd.errs + e \in Nat
      BY <2>a, MaxYieldAssumption
    <3>3. Released(nd) = IF nd.busy > nd.seeds
                         THEN {R(nd.busy - 1, nd.out + k, nd.errs + e) :
                                 k \in 0..MaxYield, e \in {0, 1}}
                         ELSE {}
      BY DEF Released, When
    <3> HIDE DEF R
    <3>4. QED
      BY <3>1, <3>2, <3>3
  <2>4. Seeded(nd) \subseteq NodeState
    <3> DEFINE R(x, y, z) == [nd EXCEPT !.busy = x, !.seeds = y, !.inq = z]
    <3>1. \A x, y, z \in Nat : R(x, y, z) \in NodeState
      BY Zenon DEF NodeState
    <3>2. \A k \in {0, 1} : nd.busy > 0 /\ nd.seeds > 0 =>
            nd.busy - 1 \in Nat /\ nd.seeds - 1 \in Nat /\ nd.inq + k \in Nat
      BY <2>a
    <3>3. Seeded(nd) = IF nd.busy > 0 /\ nd.seeds > 0
                       THEN {R(nd.busy - 1, nd.seeds - 1, nd.inq + k) : k \in {0, 1}}
                       ELSE {}
      BY DEF Seeded, When
    <3> HIDE DEF R
    <3>4. QED
      BY <3>1, <3>2, <3>3
  <2>5. Replaced(nd) \subseteq NodeState
    <3>1. \A x, y \in Nat : [nd EXCEPT !.errs = x, !.seeds = y] \in NodeState
      BY Zenon DEF NodeState
    <3>2. nd.errs + 1 \in Nat
      BY <2>a
    <3>3. {t \in {nd.seeds - 1, nd.seeds} : 0 <= t /\ t < nd.busy} \subseteq Nat
      BY <2>a
    <3>4. QED
      BY Zenon, <3>1, <3>2, <3>3 DEF Replaced
  <2>6. PollStarted(nd) \subseteq NodeState
    BY Zenon DEF PollStarted, When, NodeState
  <2>7. PollEnded(nd) \subseteq NodeState
    <3>1. (nd.busy > 0) \in BOOLEAN
      BY <2>a
    <3>2. \A b \in BOOLEAN : [nd EXCEPT !.polling = FALSE, !.active = b] \in NodeState
      BY Zenon DEF NodeState
    <3>3. QED
      BY Zenon, <3>1, <3>2 DEF PollEnded, When
  <2>8. QED
    BY <2>1, <2>2, <2>3, <2>4, <2>5, <2>6, <2>7 DEF Polled, Visited, When
<1>7. QED
  BY <1>1, <1>2, <1>3, <1>4, <1>5, <1>6

\* The part of the state that a visit to a node FSM changes or leaves alone.
LEMMA VisitType ==
    ASSUME TypeOK, NEW n \in Nodes, NEW from, NEW to \in VMStates \cup SVMStates,
           Visit(n, from, to)
    PROVE  /\ state' \in States
           /\ first' \in BOOLEAN
           /\ targets' \in Nat
           /\ todo' \subseteq nodes'
           /\ nodes' \subseteq Nodes
           /\ n \in nodes'
           /\ status' \in [Nodes -> NodeStatus]
           /\ fsm' \in [Nodes -> VMStates \cup SVMStates]
  BY DEF TypeOK, Visit

LEMMA QuietVisitType ==
    ASSUME TypeOK, NEW n \in Nodes, NEW from, NEW to \in VMStates \cup SVMStates,
           QuietVisit(n, from, to)
    PROVE  TypeOK'
<1>1. Visit(n, from, to)
  BY DEF QuietVisit
<1>2. QED
  BY <1>1, VisitType DEF TypeOK, QuietVisit, Visit

LEMMA RxErrorType ==
    ASSUME TypeOK, NEW n \in Nodes, NEW from, RxError(n, from), UNCHANGED received
    PROVE  TypeOK'
<1>1. Visit(n, from, "ErrorRxed")
  BY DEF RxError
<1>2. node[n] \in NodeState
  BY DEF TypeOK
<1>3. node' \in [Nodes -> NodeState]
  BY <1>2, NodeTypes DEF TypeOK, RxError
<1>4. QED
  BY <1>1, <1>3, VisitType DEF TypeOK, RxError, Visit, VMStates

LEMMA RxResultsType ==
    ASSUME TypeOK, NEW n \in Nodes, NEW from, NEW to \in VMStates \cup SVMStates,
           RxResults(n, from, to)
    PROVE  TypeOK'
<1>1. Visit(n, from, to)
  BY DEF RxResults
<1>2. node[n] \in NodeState
  BY DEF TypeOK
<1>3. node' \in [Nodes -> NodeState]
  BY <1>2, NodeTypes DEF TypeOK, RxResults
<1>4. node[n].out \in Nat
  BY <1>2 DEF NodeState
<1>5. received' \in [Nodes -> Nat]
  BY <1>4 DEF TypeOK, RxResults
<1>6. QED
  BY <1>1, <1>3, <1>5, VisitType DEF TypeOK, RxResults, Visit

\* The commands that the FSMs send.
LEMMA SendType ==
    ASSUME TypeOK, NEW n \in Nodes
    PROVE  /\ \A t \in {"config", "commence"} :
                Send(n, <<Command(t)>>) => sent' \in [Nodes -> Seq(Commands)]
           /\ Send(n, <<Command("image_info"), Command("image")>>)
                => sent' \in [Nodes -> Seq(Commands)]
           /\ \A k \in Nat : Send(n, IF k > 0 THEN <<Items(k)>> ELSE <<>>)
                => sent' \in [Nodes -> Seq(Commands)]
<1>1. \A cmds \in Seq(Commands) : sent[n] \o cmds \in Seq(Commands)
  BY DEF TypeOK
<1>2. \A cmds \in Seq(Commands) : Send(n, cmds) => sent' \in [Nodes -> Seq(Commands)]
  BY <1>1 DEF TypeOK, Send
<1>3. \A t \in {"config", "commence", "image_info", "image"} : Command(t) \in Commands
  BY DEF Command, Commands
<1>4. \A k \in Nat : Items(k) \in Commands
  BY DEF Items, Commands
<1>5. \A t \in {"config", "commence"} : <<Command(t)>> \in Seq(Commands)
  BY <1>3
<1>6. <<Command("image_info"), Command("image")>> \in Seq(Commands)
  BY <1>3
<1>7. \A k \in Nat : (IF k > 0 THEN <<Items(k)>> ELSE <<>>) \in Seq(Commands)
  BY <1>4
<1>8. QED
  BY Zenon, <1>2, <1>5, <1>6, <1>7

LEMMA InsertTestsType ==
    ASSUME TypeOK, NEW n \in Nodes, InsertTests(n)
    PROVE  tests' \in Pool /\ received' \in [Nodes -> Nat]
<1>1. received[n] \in Nat
  BY DEF TypeOK
<1>2. QED
  BY <1>1 DEF TypeOK, InsertTests, Pool

LEMMA VisitVMType ==
    ASSUME TypeOK, NEW n \in VMNodes, VisitVM(n)
    PROVE  TypeOK'
<1>a. n \in Nodes
  BY DEF Nodes
<1>1. CASE VMTxConfig(n)
  <2>1. PICK to \in VMStates : Visit(n, "TxConfig", to)
    BY <1>1 DEF VMTxConfig, VMStates
  <2>2. sent' \in [Nodes -> Seq(Commands)]
    BY <1>1, <1>a, SendType DEF VMTxConfig
  <2>3. QED
    BY Zenon, <1>1, <1>a, <2>1, <2>2, VisitType DEF TypeOK, VMTxConfig, Visit
<1>2. CASE ValidateImage(n)
  BY <1>2, <1>a, QuietVisitType DEF ValidateImage, VMStates
<1>3. CASE UpdateNodeImage(n)
  <2>1. Visit(n, "UpdateImage", "Commence")
    BY <1>3 DEF UpdateNodeImage
  <2>2. sent' \in [Nodes -> Seq(Commands)]
    BY <1>3, <1>a, SendType DEF UpdateNodeImage
  <2>3. QED
    BY Zenon, <1>3, <1>a, <2>1, <2>2, VisitType DEF TypeOK, UpdateNodeImage, Visit, VMStates
<1>4. CASE CommenceNode(n)
  <2>1. Visit(n, "Commence", "RxStatus")
    BY <1>4 DEF CommenceNode
  <2>2. sent' \in [Nodes -> Seq(Commands)]
    BY <1>4, <1>a, SendType DEF CommenceNode
  <2>3. QED
    BY Zenon, <1>4, <1>a, <2>1, <2>2, VisitType DEF TypeOK, CommenceNode, Visit, VMStates
<1>5. CASE RxStatus(n)
  BY <1>5, <1>a, VisitType DEF TypeOK, RxStatus, Visit, VMStates
<1>6. CASE QuietVisit(n, "StatusRxed", "RxTrace")
  BY <1>6, <1>a, QuietVisitType DEF VMStates
<1>7. CASE RxTrace(n)
  BY <1>7, <1>a, RxResultsType DEF RxTrace, VMStates
<1>8. CASE RxNoTrace(n)
  BY <1>8, <1>a, QuietVisitType DEF RxNoTrace, VMStates
<1>9. CASE TraceRxed(n)
  <2>1. Visit(n, "TraceRxed", "TxTest")
    BY <1>9 DEF TraceRxed
  <2>2. received[n] \in Nat
    BY <1>a DEF TypeOK
  <2>3. traces' \in Pool /\ received' \in [Nodes -> Nat]
    <3>1. traces.next \in Nat /\ traces.all \in Nat
      BY DEF TypeOK, Pool
    <3>2. PICK k \in 0..received[n] : traces' = [next |-> traces.next + k, all |-> traces.all + k]
      BY <1>9 DEF TraceRxed
    <3>3. traces.next + k \in Nat /\ traces.all + k \in Nat
      BY <2>2, <3>1
    <3>4. QED
      BY Zenon, <1>9, <3>2, <3>3 DEF TypeOK, TraceRxed, Pool
  <2>4. QED
    BY <1>9, <1>a, <2>1, <2>3, VisitType DEF TypeOK, TraceRxed, Visit, VMStates
<1>10. CASE TxTest(n)
  <2> DEFINE k == Lesser(tests.next, Room(status[n].tests))
  <2>1. Visit(n, "TxTest", "TestTxed")
    BY <1>10 DEF TxTest
  <2>2. tests.next \in Nat /\ status[n].tests \in Nat
    BY <1>a DEF TypeOK, Pool, NodeStatus
  <2>3. k \in Nat /\ k <= tests.next
    BY <2>2, OptionsAssumption DEF Lesser, Room
  <2>4. tests' \in Pool
    <3>1. tests' = [tests EXCEPT !.next = @ - k]
      BY <1>10 DEF TxTest
    <3>2. tests.next - k \in Nat
      BY <2>2, <2>3
    <3>3. QED
      BY Zenon, <3>1, <3>2 DEF TypeOK, Pool
  <2>5. Send(n, IF k > 0 THEN <<Items(k)>> ELSE <<>>)
    BY <1>10 DEF TxTest
  <2>6. sent' \in [Nodes -> Seq(Commands)]
    BY <1>a, <2>3, <2>5, SendType
  <2>7. QED
    BY Zenon, <1>10, <1>a, <2>1, <2>4, <2>6, VisitType DEF TypeOK, TxTest, Visit, VMStates
<1>11. CASE TestTxed(n)
  BY <1>11, <1>a, QuietVisitType DEF TestTxed, VMStates
<1>12. CASE RxError(n, "TestTxed") /\ UNCHANGED received
  BY <1>12, <1>a, RxErrorType
<1>13. CASE QuietVisit(n, "ErrorRxed", "RxStatus")
  BY <1>13, <1>a, QuietVisitType DEF VMStates
<1>14. QED
  BY <1>1, <1>2, <1>3, <1>4, <1>5, <1>6, <1>7, <1>8, <1>9, <1>10, <1>11, <1>12, <1>13
  DEF VisitVM

LEMMA VisitSVMType ==
    ASSUME TypeOK, NEW n \in SVMNodes, VisitSVM(n)
    PROVE  TypeOK'
<1>a. n \in Nodes
  BY DEF Nodes
<1>1. CASE SVMTxConfig(n)
  <2>1. Visit(n, "TxConfig", "Commence")
    BY <1>1 DEF SVMTxConfig
  <2>2. sent' \in [Nodes -> Seq(Commands)]
    BY <1>1, <1>a, SendType DEF SVMTxConfig
  <2>3. QED
    BY Zenon, <1>1, <1>a, <2>1, <2>2, VisitType DEF TypeOK, SVMTxConfig, Visit, SVMStates
<1>2. CASE CommenceNode(n)
  <2>1. Visit(n, "Commence", "RxStatus")
    BY <1>2 DEF CommenceNode
  <2>2. sent' \in [Nodes -> Seq(Commands)]
    BY <1>2, <1>a, SendType DEF CommenceNode
  <2>3. QED
    BY Zenon, <1>2, <1>a, <2>1, <2>2, VisitType DEF TypeOK, CommenceNode, Visit, SVMStates
<1>3. CASE RxStatus(n)
  BY <1>3, <1>a, VisitType DEF TypeOK, RxStatus, Visit, SVMStates
<1>4. CASE QuietVisit(n, "StatusRxed", "TxTrace")
  BY <1>4, <1>a, QuietVisitType DEF SVMStates
<1>5. CASE TxTrace(n)
  <2>1. Visit(n, "TxTrace", "TraceTxed")
    BY <1>5 DEF TxTrace
  <2>2. traces.next \in Nat /\ status[n].traces \in Nat
    BY <1>a DEF TypeOK, Pool, NodeStatus
  <2>3. Room(status[n].traces) \in Nat
    BY <2>2, OptionsAssumption DEF Room
  <2>4. PICK k \in 0..Lesser(traces.next, Room(status[n].traces)) :
          \E lost \in 0..(traces.next - k) :
            /\ traces' = [traces EXCEPT !.next = @ - (k + lost)]
            /\ Send(n, IF k > 0 THEN <<Items(k)>> ELSE <<>>)
    BY <1>5 DEF TxTrace
  <2>5. k \in Nat /\ k <= traces.next
    BY <2>2, <2>3 DEF Lesser
  <2>6. traces' \in Pool
    <3>1. PICK lost \in 0..(traces.next - k) : traces' = [traces EXCEPT !.next = @ - (k + lost)]
      BY <2>4
    <3>2. traces.next - (k + lost) \in Nat
      BY <2>2, <2>5, <3>1
    <3>3. QED
      BY Zenon, <3>1, <3>2 DEF TypeOK, Pool
  <2>8. sent' \in [Nodes -> Seq(Commands)]
    BY <1>a, <2>4, <2>5, SendType
  <2>9. QED
    BY Zenon, <1>5, <1>a, <2>1, <2>6, <2>8, VisitType DEF TypeOK, TxTrace, Visit, SVMStates
<1>6. CASE QuietVisit(n, "TraceTxed", "RxTest")
  BY <1>6, <1>a, QuietVisitType DEF SVMStates
<1>7. CASE RxTest(n)
  BY <1>7, <1>a, RxResultsType DEF RxTest, SVMStates
<1>8. CASE RxNoTest(n)
  BY <1>8, <1>a, QuietVisitType DEF RxNoTest, SVMStates
<1>9. CASE RxNoTestButError(n)
  BY <1>9, <1>a, RxErrorType DEF RxNoTestButError
<1>10. CASE TestRxed(n)
  BY <1>10, <1>a, VisitType, InsertTestsType DEF TypeOK, TestRxed, Visit, SVMStates
<1>11. CASE TestRxedAndError(n)
  <2>1. Visit(n, "TestRxed", "ErrorRxed")
    BY <1>11 DEF TestRxedAndError
  <2>2. node[n] \in NodeState
    BY <1>a DEF TypeOK
  <2>3. node' \in [Nodes -> NodeState]
    BY Zenon, <1>11, <2>2, NodeTypes DEF TypeOK, TestRxedAndError
  <2>4. QED
    BY <1>11, <1>a, <2>1, <2>3, VisitType, InsertTestsType
    DEF TypeOK, TestRxedAndError, Visit, SVMStates
<1>12. CASE QuietVisit(n, "ErrorRxed", "RxStatus")
  BY <1>12, <1>a, QuietVisitType DEF SVMStates
<1>13. QED
  BY <1>1, <1>2, <1>3, <1>4, <1>5, <1>6, <1>7, <1>8, <1>9, <1>10, <1>11, <1>12 DEF VisitSVM

LEMMA StatusOfType ==
    ASSUME TypeOK, NEW n \in Nodes
    PROVE  StatusOf(n) \in NodeStatus
<1>1. node[n] \in NodeState
  BY DEF TypeOK
<1>2. QED
  BY <1>1 DEF StatusOf, NodeState, NodeStatus

LEMMA NextTargetType ==
    ASSUME TypeOK, NextTarget
    PROVE  TypeOK'
<1> DEFINE vms == nodes \cap VMNodes
<1>1. Cardinality(vms) \in Nat
  <2>1. IsFiniteSet(vms)
    BY NodesAssumption, FS_Subset DEF TypeOK
  <2>2. QED
    BY <2>1, FS_CardinalityType
<1> HIDE DEF vms
<1>2. state' \in States /\ targets' \in Nat
  BY <1>1 DEF TypeOK, NextTarget, States, vms
<1>3. tests' \in Pool /\ traces' \in Pool
  BY DEF NextTarget, EmptyPool, Pool
<1>4. fsm' \in [Nodes -> VMStates \cup SVMStates] /\ received' \in [Nodes -> Nat]
  BY DEF TypeOK, NextTarget, VMStates
<1>5. status' \in [Nodes -> NodeStatus]
  <2>1. \A n \in Nodes : [status[n] EXCEPT !.active = TRUE] \in NodeStatus
    BY Zenon DEF TypeOK, NodeStatus
  <2>2. QED
    BY <2>1 DEF TypeOK, NextTarget
<1>6. sent' \in [Nodes -> Seq(Commands)]
  <2>1. Command("reset") \in Commands /\ Command("next_target") \in Commands
    BY DEF Command, Commands
  <2>2. \A n \in Nodes : /\ sent[n] \o <<Command("reset"), Command("next_target")>> \in Seq(Commands)
                         /\ Append(sent[n], Command("reset")) \in Seq(Commands)
                         /\ sent[n] \in Seq(Commands)
    BY <2>1 DEF TypeOK
  <2>3. \A n \in Nodes :
          (CASE n \in vms -> sent[n] \o <<Command("reset"), Command("next_target")>>
             [] n \in nodes \ vms -> Append(sent[n], Command("reset"))
             [] OTHER -> sent[n]) \in Seq(Commands)
    BY <2>2
  <2>4. QED
    BY <2>3 DEF NextTarget, vms
<1>7. QED
  BY <1>2, <1>3, <1>4, <1>5, <1>6 DEF TypeOK, NextTarget

\* The outcomes of serving one command.
LEMMA ServedCases ==
    ASSUME NEW n, NEW nd, NEW x \in Served(n, nd)
    PROVE  LET c == Head(sent[n])
           IN  \/ c.type = "reset" /\ x = Reset(nd)
               \/ /\ c.type = "commence"
                  /\ \E b \in 0..Instances : \E s \in 0..b : x = Commence(nd, b, s)
               \/ c.type = "items" /\ x = Receive(nd, c.count)
               \/ c.type \notin {"reset", "commence", "items"} /\ x = nd
<1> DEFINE c == Head(sent[n])
<1>1. CASE c.type = "reset"
  BY <1>1 DEF Served
<1>2. CASE c.type = "commence"
  <2>1. PICK b \in (IF n \in VMNodes THEN 0..Instances ELSE {0}) :
          x \in {Commence(nd, b, s) : s \in 0..b}
    BY <1>2 DEF Served
  <2>2. b \in 0..Instances
    BY <2>1, InstancesAssumption
  <2>3. QED
    BY <1>2, <2>1, <2>2
<1>3. CASE c.type = "items"
  BY <1>3 DEF Served
<1>4. CASE c.type \notin {"reset", "commence", "items"}
  BY <1>4 DEF Served
<1>5. QED
  BY <1>1, <1>2, <1>3, <1>4

LEMMA ListenType ==
    ASSUME TypeOK, NEW n \in Nodes, Listen(n)
    PROVE  TypeOK'
<1>1. node[n] \in NodeState /\ sent[n] \in Seq(Commands) /\ sent[n] # <<>>
  BY DEF TypeOK, Listen
<1>2. Head(sent[n]).count \in Nat
  <2>1. Head(sent[n]) \in Commands
    BY <1>1
  <2>2. QED
    BY <2>1 DEF Commands
<1>3. ASSUME NEW x \in Served(n, node[n]) PROVE x \in NodeState
  <2>1. \A b \in 0..Instances : \A s \in 0..b : b \in Nat /\ s \in Nat
    BY InstancesAssumption
  <2>2. /\ Reset(node[n]) \in NodeState
        /\ \A b, s \in Nat : Commence(node[n], b, s) \in NodeState
        /\ \A k \in Nat : Receive(node[n], k) \in NodeState
    BY <1>1, NodeTypes
  <2>3. \/ x = Reset(node[n])
        \/ \E b \in 0..Instances : \E s \in 0..b : x = Commence(node[n], b, s)
        \/ x = Receive(node[n], Head(sent[n]).count)
        \/ x = node[n]
    BY ServedCases
  <2>4. QED
    BY <1>1, <1>2, <2>1, <2>2, <2>3
<1>4. node' \in [Nodes -> NodeState]
  BY <1>3 DEF TypeOK, Listen
<1>5. sent' \in [Nodes -> Seq(Commands)]
  BY <1>1 DEF TypeOK, Listen
<1>6. QED
  BY <1>4, <1>5 DEF TypeOK, Listen

\* TypeOK is inductive.
LEMMA TypeStep == TypeOK /\ [Next]_vars => TypeOK'
<1> SUFFICES ASSUME TypeOK, [Next]_vars PROVE TypeOK'
  OBVIOUS
<1>1. CASE Control
  <2>1. CASE NextTarget
    BY <2>1, NextTargetType
  <2>2. CASE Control /\ ~NextTarget
    BY Zenon, <2>2 DEF Control, TypeOK, SpecTerminate, SpecDispatch, SpecNextTarget, Terminate, Idle,
                DispatchBegin, DispatchEnd, Go, Stay, States, vars
  <2>3. QED
    BY <1>1, <2>1, <2>2
<1>2. CASE \E n \in VMNodes : VisitVM(n)
  BY <1>2, VisitVMType
<1>3. CASE \E n \in SVMNodes : VisitSVM(n)
  BY <1>3, VisitSVMType
<1>4. CASE \E n \in Nodes : RxStatusReply(n)
  BY <1>4, StatusOfType DEF TypeOK, RxStatusReply
<1>5. CASE \E n \in Nodes : Connect(n)
  <2>1. PICK n \in Nodes : Connect(n)
    BY <1>5
  <2>2. [StatusOf(n) EXCEPT !.active = TRUE] \in NodeStatus
    BY Zenon, StatusOfType DEF NodeStatus
  <2>3. QED
    BY <2>1, <2>2 DEF TypeOK, Connect
<1>6. CASE \E n \in Nodes : Listen(n)
  BY <1>6, ListenType
<1>7. CASE \E n \in Nodes : Poll(n)
  <2>1. PICK n \in Nodes : Poll(n)
    BY <1>7
  <2>2. Polled(node[n]) \subseteq NodeState
    BY NodeTypes DEF TypeOK
  <2>3. QED
    BY <2>1, <2>2 DEF TypeOK, Poll
<1>8. CASE UNCHANGED vars
  BY <1>8 DEF TypeOK, vars
<1>9. QED
  BY <1>1, <1>2, <1>3, <1>4, <1>5, <1>6, <1>7, <1>8 DEF Next, DispatchThread

LEMMA TypeInit == Init => TypeOK
  BY OptionsAssumption
  DEF Init, TypeOK, States, Pool, EmptyPool, NodeStatus, VMStates, Commands, NodeState, NewNode

\* The type invariant of Dispatch, for any nodes and options.
THEOREM TypeCorrect == Spec => []TypeOK
  BY TypeInit, TypeStep, PTL DEF Spec

-----------------------------------------------------------------------------
(* Sequences of commands.                                                  *)

\* Whether a node is commenced once it has served command c.
After(c, commenced) ==
    IF c.type = "reset" THEN FALSE ELSE IF c.type = "commence" THEN TRUE ELSE commenced

LEMMA ZeroNotPositive == \A x : x = 0 => ~(x > 0)
OBVIOUS

LEMMA ConcatEmpty == \A S : \A s \in Seq(S) : s \o <<>> = s
OBVIOUS

\* What sending one more command does to the order of the commands.
LEMMA AppendCommand ==
    ASSUME NEW s \in Seq(Commands), NEW c \in Commands, NEW b \in BOOLEAN
    PROVE  /\ ResetFirst(s, b) /\ (c.type = "commence" => EndsReset(s, b))
                => ResetFirst(Append(s, c), b)
           /\ c.type = "reset" => EndsReset(Append(s, c), b)
           /\ c.type = "commence" => EndsCommenced(Append(s, c), b)
           /\ c.type # "commence" /\ EndsReset(s, b) => EndsReset(Append(s, c), b)
           /\ c.type # "reset" /\ EndsCommenced(s, b) => EndsCommenced(Append(s, c), b)
           /\ c.type # "items" /\ Without(s, "items") => Without(Append(s, c), "items")
<1> DEFINE t == Append(s, c)
<1>1. /\ t \in Seq(Commands)
      /\ Len(t) = Len(s) + 1
      /\ Len(s) \in Nat
      /\ \A i \in 1..Len(s) : t[i] = s[i]
      /\ t[Len(s) + 1] = c
  OBVIOUS
<1> HIDE DEF t
<1>2. ResetFirst(s, b) /\ (c.type = "commence" => EndsReset(s, b)) => ResetFirst(t, b)
  <2> SUFFICES ASSUME ResetFirst(s, b), c.type = "commence" => EndsReset(s, b),
                      NEW i \in 1..Len(t), t[i].type = "commence"
               PROVE  \/ \E j \in 1..Len(t) :
                           /\ j < i
                           /\ t[j].type = "reset"
                           /\ \A k \in 1..Len(t) : j < k /\ k < i => t[k].type # "commence"
                      \/ ~b /\ \A k \in 1..Len(t) : k < i => t[k].type # "commence"
    BY DEF ResetFirst
  <2>1. CASE i \in 1..Len(s)
    <3>1. \A k \in 1..Len(t) : k < i => k \in 1..Len(s) /\ t[k] = s[k]
      BY <1>1, <2>1
    <3>2. \A j \in 1..Len(s) : j \in 1..Len(t) /\ t[j] = s[j]
      BY <1>1
    <3>3. t[i] = s[i]
      BY <1>1, <2>1
    <3>4. \/ \E j \in 1..Len(s) :
              /\ j < i /\ s[j].type = "reset"
              /\ \A k \in 1..Len(s) : j < k /\ k < i => s[k].type # "commence"
          \/ ~b /\ \A k \in 1..Len(s) : k < i => s[k].type # "commence"
      BY Zenon, <2>1, <3>3 DEF ResetFirst
    <3>5. ASSUME NEW j \in 1..Len(s), j < i, s[j].type = "reset",
                 \A k \in 1..Len(s) : j < k /\ k < i => s[k].type # "commence"
          PROVE  /\ j \in 1..Len(t) /\ t[j].type = "reset"
                 /\ \A k \in 1..Len(t) : j < k /\ k < i => t[k].type # "commence"
      BY Zenon, <3>1, <3>2, <3>5
    <3>6. (\A k \in 1..Len(s) : k < i => s[k].type # "commence")
            => \A k \in 1..Len(t) : k < i => t[k].type # "commence"
      BY Zenon, <3>1
    <3>7. QED
      BY Zenon, <3>4, <3>5, <3>6
  <2>2. CASE i = Len(s) + 1
    <3>1. EndsReset(s, b)
      BY <1>1, <2>2
    <3>2. \A k \in 1..Len(t) : k < i => k \in 1..Len(s) /\ t[k] = s[k]
      BY <1>1, <2>2
    <3>3. \A j \in 1..Len(s) : j < i /\ j \in 1..Len(t) /\ t[j] = s[j]
      BY <1>1, <2>2
    <3>4. ASSUME NEW j \in 1..Len(s), s[j].type = "reset",
                 \A k \in 1..Len(s) : j < k => s[k].type # "commence"
          PROVE  /\ j \in 1..Len(t) /\ j < i /\ t[j].type = "reset"
                 /\ \A k \in 1..Len(t) : j < k /\ k < i => t[k].type # "commence"
      BY Zenon, <3>2, <3>3, <3>4
    <3>5. Without(s, "commence") => \A k \in 1..Len(t) : k < i => t[k].type # "commence"
      BY Zenon, <3>2 DEF Without
    <3>6. QED
      BY Zenon, <3>1, <3>4, <3>5 DEF EndsReset, LastIs
  <2>3. QED
    BY <1>1, <2>1, <2>2
<1>3. c.type = "reset" => EndsReset(t, b)
  BY <1>1 DEF EndsReset, LastIs
<1>4. c.type = "commence" => EndsCommenced(t, b)
  BY <1>1 DEF EndsCommenced, LastIs
<1>5. c.type # "commence" /\ EndsReset(s, b) => EndsReset(t, b)
  BY <1>1 DEF EndsReset, LastIs, Without
<1>6. c.type # "reset" /\ EndsCommenced(s, b) => EndsCommenced(t, b)
  BY <1>1 DEF EndsCommenced, LastIs, Without
<1>7. c.type # "items" /\ Without(s, "items") => Without(t, "items")
  BY <1>1 DEF Without
<1>8. QED
  BY <1>2, <1>3, <1>4, <1>5, <1>6, <1>7 DEF t

\* What serving the first command does to the order of the others.
LEMMA TailCommand ==
    ASSUME NEW s \in Seq(Commands), s # <<>>, NEW b \in BOOLEAN
    PROVE  LET c == Head(s)
           IN  /\ ResetFirst(s, b) => ResetFirst(Tail(s), After(c, b))
               /\ ResetFirst(s, b) /\ c.type = "commence" => ~b
               /\ EndsReset(s, b) => EndsReset(Tail(s), After(c, b))
               /\ EndsCommenced(s, b) => EndsCommenced(Tail(s), After(c, b))
               /\ Without(s, "items") => Without(Tail(s), "items") /\ c.type # "items"
<1> DEFINE c == Head(s)
           t == Tail(s)
<1>1. /\ t \in Seq(Commands)
      /\ Len(s) = Len(t) + 1
      /\ Len(t) \in Nat
      /\ \A i \in 1..Len(t) : t[i] = s[i + 1]
      /\ c = s[1]
  OBVIOUS
<1> HIDE DEF t, c
<1>a. \A i \in 1..Len(s) : i # 1 => i - 1 \in 1..Len(t) /\ s[i] = t[i - 1]
  BY <1>1
<1>b. \A i \in 1..Len(t) : i + 1 \in 1..Len(s) /\ s[i + 1] = t[i]
  BY <1>1
<1>c. 1 \in 1..Len(s)
  BY <1>1
<1>2. ASSUME ResetFirst(s, b) PROVE ResetFirst(t, After(c, b))
  <2>1. SUFFICES ASSUME NEW i \in 1..Len(t), t[i].type = "commence"
                 PROVE  \/ \E j \in 1..Len(t) :
                            /\ j < i
                            /\ t[j].type = "reset"
                            /\ \A k \in 1..Len(t) : j < k /\ k < i => t[k].type # "commence"
                        \/ /\ ~After(c, b)
                           /\ \A k \in 1..Len(t) : k < i => t[k].type # "commence"
    BY DEF ResetFirst
  <2>2. i + 1 \in 1..Len(s) /\ s[i + 1].type = "commence"
    BY <1>b, <2>1
  <2>3. CASE \E j \in 1..Len(s) :
                /\ j < i + 1
                /\ s[j].type = "reset"
                /\ \A k \in 1..Len(s) : j < k /\ k < i + 1 => s[k].type # "commence"
    <3>1. PICK j \in 1..Len(s) :
                /\ j < i + 1
                /\ s[j].type = "reset"
                /\ \A k \in 1..Len(s) : j < k /\ k < i + 1 => s[k].type # "commence"
      BY <2>3
    <3>2. CASE j = 1
      <4>1. ~After(c, b)
        BY <1>1, <3>1, <3>2 DEF After
      <4>2. \A k \in 1..Len(t) : k < i => t[k].type # "commence"
        BY <1>1, <1>b, <3>1, <3>2
      <4>3. QED
        BY <4>1, <4>2
    <3>3. CASE j # 1
      <4>1. j - 1 \in 1..Len(t) /\ j - 1 < i /\ t[j - 1].type = "reset"
        BY <1>1, <1>a, <3>1, <3>3
      <4>2. \A k \in 1..Len(t) : j - 1 < k /\ k < i => t[k].type # "commence"
        BY <1>1, <1>b, <3>1
      <4>3. QED
        BY <4>1, <4>2
    <3>4. QED
      BY <3>2, <3>3
  <2>4. CASE ~b /\ \A k \in 1..Len(s) : k < i + 1 => s[k].type # "commence"
    <3>1. ~After(c, b)
      BY <1>1, <1>c, <2>4 DEF After
    <3>2. \A k \in 1..Len(t) : k < i => t[k].type # "commence"
      BY <1>1, <1>b, <2>4
    <3>3. QED
      BY <3>1, <3>2
  <2>5. QED
    BY <1>2, <2>2, <2>3, <2>4 DEF ResetFirst
<1>3. ResetFirst(s, b) /\ c.type = "commence" => ~b
  BY <1>1, <1>c DEF ResetFirst
<1>4. ASSUME NEW x \in {"reset", "commence"}, NEW y \in {"reset", "commence"}, x # y,
             LastIs(s, x, y)
      PROVE  LastIs(t, x, y) \/ (c.type = x /\ Without(t, y))
  <2>1. PICK i \in 1..Len(s) :
            s[i].type = x /\ \A j \in 1..Len(s) : i < j => s[j].type # y
    BY <1>4 DEF LastIs
  <2>2. CASE i = 1
    BY <1>1, <1>b, <2>1, <2>2 DEF Without
  <2>3. CASE i # 1
    <3>1. i - 1 \in 1..Len(t) /\ t[i - 1].type = x
      BY <1>a, <2>1, <2>3
    <3>2. \A j \in 1..Len(t) : i - 1 < j => t[j].type # y
      BY <1>1, <1>b, <2>1
    <3>3. QED
      BY <3>1, <3>2 DEF LastIs
  <2>4. QED
    BY <2>2, <2>3
<1>5. \A y : Without(s, y) => Without(t, y) /\ c.type # y
  BY <1>1, <1>b, <1>c DEF Without
<1>6. EndsReset(s, b) => EndsReset(t, After(c, b))
  BY <1>4, <1>5 DEF EndsReset, After
<1>7. EndsCommenced(s, b) => EndsCommenced(t, After(c, b))
  BY <1>4, <1>5 DEF EndsCommenced, After
<1>8. QED
  BY <1>2, <1>3, <1>5, <1>6, <1>7 DEF t, c

-----------------------------------------------------------------------------
(* Locality: a step of, or towards, node n leaves the others as they are.  *)

Only(n) ==
    \A m \in Nodes \ {n} :
        /\ fsm'[m] = fsm[m] /\ sent'[m] = sent[m] /\ node'[m] = node[m]
        /\ status'[m] = status[m] /\ received'[m] = received[m]
        /\ (waiting' = m) <=> (waiting = m)

Local(n) == Only(n) /\ n \in nodes' /\ nodes \subseteq nodes' /\ ControlInv'

LEMMA FrameInv ==
    ASSUME NEW m, NodeInv(m),
           fsm'[m] = fsm[m], sent'[m] = sent[m], node'[m] = node[m],
           status'[m] = status[m], received'[m] = received[m],
           (waiting' = m) <=> (waiting = m)
    PROVE  NodeInv(m)'
<1>1. CommandsInv(m)'
  BY Zenon DEF NodeInv, CommandsInv, NoItems
<1>2. FlagsInv(m)'
  BY Zenon DEF NodeInv, FlagsInv
<1>3. StatusInv(m)'
  BY Zenon DEF NodeInv, StatusInv, Calm
<1>4. QED
  BY <1>1, <1>2, <1>3 DEF NodeInv

LEMMA LocalStep ==
    ASSUME IndInv, TypeOK', NEW n \in Nodes, Local(n), NodeInv(n)'
    PROVE  IndInv'
<1>1. ASSUME NEW m \in Nodes PROVE NodeInv(m)'
  <2>1. CASE m = n
    BY <2>1
  <2>2. CASE m # n
    BY <2>2, FrameInv DEF IndInv, Local, Only
  <2>3. QED
    BY <2>1, <2>2
<1>2. OutsideInv'
  BY DEF IndInv, OutsideInv, Local, Only
<1>3. QED
  BY <1>1, <1>2 DEF IndInv, Local

LEMMA VisitLocal ==
    ASSUME IndInv, NEW n \in Nodes, NEW from, NEW to, Visit(n, from, to),
           waiting' \in {None, n},
           \A m \in Nodes \ {n} : sent'[m] = sent[m] /\ node'[m] = node[m]
                                 /\ received'[m] = received[m]
    PROVE  /\ Local(n)
           /\ waiting = None /\ None # n
           /\ fsm[n] = from /\ fsm'[n] = to
           /\ status'[n] = status[n]
<1>1. waiting = None /\ None \notin Nodes
  BY NodesAssumption DEF Visit
<1>2. Only(n)
  BY Zenon, <1>1 DEF Only, Visit, IndInv, TypeOK
<1>3. QED
  BY Zenon, <1>1, <1>2 DEF Local, Visit, IndInv, TypeOK, ControlInv

-----------------------------------------------------------------------------
(* Visits to a node FSM.                                                   *)

\* A visit that changes neither the node's queues nor the commands: from one
\* preparing state to another, or from a serving state to one that follows it.
LEMMA QuietInv ==
    ASSUME IndInv, NEW n \in Nodes, NEW from, NEW to, Visit(n, from, to),
           UNCHANGED <<waiting, sent>>,
           node'[n].inq = node[n].inq, node'[n].busy = node[n].busy,
           node'[n].out = node[n].out, node'[n].active = node[n].active,
           node'[n].commenced = node[n].commenced, node'[n].polling = node[n].polling,
           \A m \in Nodes \ {n} : node'[m] = node[m] /\ received'[m] = received[m],
           received'[n] \in {0, received[n]},
           from \in {"TraceRxed", "TestRxed"} => received'[n] = 0,
           \/ from \in Preparing /\ to \in Preparing
           \/ from \in Serving /\ to \in Serving \cup {"RxStatus"}
    PROVE  Local(n) /\ NodeInv(n)'
<1>1. waiting = None
  BY Zenon DEF Visit
<1>2. /\ Local(n)
      /\ waiting' = None /\ None # n
      /\ fsm[n] = from /\ fsm'[n] = to
      /\ status'[n] = status[n]
  BY <1>1, VisitLocal
<1>3. NodeInv(n)
  BY DEF IndInv
<1>4. CommandsInv(n)'
  BY Zenon, <1>1, <1>2, <1>3 DEF NodeInv, CommandsInv, NoItems, Preparing, Serving
<1>5. FlagsInv(n)'
  BY Zenon, <1>3 DEF NodeInv, FlagsInv
<1>6. StatusInv(n)'
  <2>1. StatusInv(n) /\ received[n] \in Nat /\ sent'[n] = sent[n] /\ (Calm(n)' <=> Calm(n))
    BY Zenon, <1>2, <1>3 DEF NodeInv, IndInv, TypeOK, Calm
  <2>2. received'[n] > 0 => received[n] > 0 /\ from \notin {"TraceRxed", "TestRxed"}
    BY Zenon, ZeroNotPositive
  <2>3. received'[n] > 0 => FALSE
    BY Zenon, <1>2, <2>1, <2>2 DEF StatusInv
  <2>4. to \in Preparing => from \in Preparing
    BY Zenon DEF Preparing, Serving
  <2> HIDE DEF Preparing
  <2> QED BY Zenon, <1>1, <1>2, <2>1, <2>3, <2>4 DEF StatusInv
<1>7. QED
  BY Zenon, <1>2, <1>4, <1>5, <1>6 DEF NodeInv

LEMMA QuietVisitInv ==
    ASSUME IndInv, NEW n \in Nodes, NEW from, NEW to, QuietVisit(n, from, to),
           from \notin {"TraceRxed", "TestRxed"},
           \/ from \in Preparing /\ to \in Preparing
           \/ from \in Serving /\ to \in Serving \cup {"RxStatus"}
    PROVE  Local(n) /\ NodeInv(n)'
  BY Zenon, QuietInv DEF QuietVisit

\* TransmitErrors touches nothing the invariant speaks of.
LEMMA ErrorsTaken ==
    ASSUME TypeOK, NEW n \in Nodes, NEW k, node' = [node EXCEPT ![n] = TransmitErrors(@, k)]
    PROVE  /\ node'[n].inq = node[n].inq /\ node'[n].busy = node[n].busy
           /\ node'[n].out = node[n].out /\ node'[n].active = node[n].active
           /\ node'[n].commenced = node[n].commenced /\ node'[n].polling = node[n].polling
           /\ node'[n].seeds = node[n].seeds
           /\ \A m \in Nodes \ {n} : node'[m] = node[m]
<1>1. node[n] \in NodeState
  BY DEF TypeOK
<1>2. QED
  BY <1>1 DEF TypeOK, TransmitErrors, NodeState

LEMMA RxErrorInv ==
    ASSUME IndInv, NEW n \in Nodes, NEW from \in {"TestTxed", "RxTest"}, RxError(n, from),
           UNCHANGED received
    PROVE  Local(n) /\ NodeInv(n)'
<1>1. PICK k : node' = [node EXCEPT ![n] = TransmitErrors(@, k)]
  BY Zenon DEF RxError
<1>2. TypeOK
  BY DEF IndInv
<1>3. Visit(n, from, "ErrorRxed") /\ UNCHANGED <<waiting, sent>>
  BY DEF RxError
<1>4. QED
  BY Zenon, <1>1, <1>2, <1>3, ErrorsTaken, QuietInv DEF Serving

\* The FSM takes results, because its cached status says there are some.
LEMMA RxResultsInv ==
    ASSUME IndInv, NEW n \in Nodes, NEW from, NEW to, RxResults(n, from, to),
           status[n].traces > 0 \/ status[n].tests > 0,
           from \in {"RxTrace", "RxTest"}, to \in {"TraceRxed", "TestRxed"}
    PROVE  Local(n) /\ NodeInv(n)'
<1>1. PICK k : /\ node' = [node EXCEPT ![n] = Transmit(@, k)]
               /\ received' = [received EXCEPT ![n] = k]
  BY Zenon DEF RxResults
<1>2. Visit(n, from, to) /\ UNCHANGED <<waiting, sent>> /\ waiting = None
  BY DEF RxResults, Visit
<1>3. \A m \in Nodes \ {n} : node'[m] = node[m] /\ received'[m] = received[m]
  BY <1>1 DEF IndInv, TypeOK
<1>4. /\ Local(n)
      /\ waiting' = None /\ None # n
      /\ fsm[n] = from /\ fsm'[n] = to
      /\ status'[n] = status[n]
  BY Zenon, <1>2, <1>3, VisitLocal
<1>5. NodeInv(n) /\ node[n] \in NodeState
  BY DEF IndInv, TypeOK
<1>6. /\ node'[n].busy = node[n].busy /\ node'[n].active = node[n].active
      /\ node'[n].commenced = node[n].commenced /\ node'[n].polling = node[n].polling
  BY <1>1, <1>5 DEF IndInv, TypeOK, Transmit, NodeState
<1>7. ~Calm(n)'
  BY Zenon, <1>4, ZeroNotPositive DEF Calm
<1>8. CommandsInv(n)'
  BY Zenon, <1>2, <1>4, <1>5, <1>6 DEF NodeInv, CommandsInv, NoItems, Preparing, Serving
<1>9. FlagsInv(n)'
  BY Zenon, <1>5, <1>6 DEF NodeInv, FlagsInv
<1>10. StatusInv(n)'
  BY Zenon, <1>2, <1>4, <1>5, <1>7 DEF NodeInv, StatusInv, Preparing, Serving, CommandsInv
<1>11. QED
  BY <1>4, <1>8, <1>9, <1>10 DEF NodeInv

\* The commands that the FSMs send, one at a time.
LEMMA SendOne ==
    ASSUME IndInv, NEW n \in Nodes, NEW c \in Commands, Send(n, <<c>>)
    PROVE  /\ sent[n] \in Seq(Commands)
           /\ sent'[n] = Append(sent[n], c)
           /\ \A m \in Nodes \ {n} : sent'[m] = sent[m]
<1>1. sent[n] \in Seq(Commands)
  BY DEF IndInv, TypeOK
<1>2. sent[n] \o <<c>> = Append(sent[n], c)
  BY <1>1
<1>3. QED
  BY <1>1, <1>2 DEF Send, IndInv, TypeOK

\* A visit in a preparing state that sends commands and leaves the node alone.
\* The rest is about the commands, and proved where they are known.
LEMMA PreparingInv ==
    ASSUME IndInv, NEW n \in Nodes, NEW from \in Preparing, NEW to, Visit(n, from, to),
           UNCHANGED <<waiting, received, node>>,
           \A m \in Nodes \ {n} : sent'[m] = sent[m],
           to \in Preparing \cup {"RxStatus"},
           ResetFirst(sent'[n], node[n].commenced),
           to \in Preparing => EndsReset(sent'[n], node[n].commenced),
           to = "RxStatus" => EndsCommenced(sent'[n], node[n].commenced),
           Without(sent'[n], "items")
    PROVE  Local(n) /\ NodeInv(n)'
<1>1. waiting = None
  BY DEF Visit
<1>2. /\ Local(n)
      /\ waiting' = None /\ None # n
      /\ fsm[n] = from /\ fsm'[n] = to
      /\ status'[n] = status[n]
  BY Zenon, <1>1, VisitLocal
<1>3. NodeInv(n)
  BY Zenon DEF IndInv
<1>4. CommandsInv(n)'
  BY Zenon, <1>2 DEF CommandsInv, NoItems, Without, Preparing, Serving
<1>5. FlagsInv(n)'
  BY Zenon, <1>3 DEF NodeInv, FlagsInv
<1>6. StatusInv(n)'
  BY Zenon, <1>1, <1>2, <1>3 DEF NodeInv, StatusInv, Calm, Preparing
<1>7. QED
  BY Zenon, <1>2, <1>4, <1>5, <1>6 DEF NodeInv

LEMMA PreparingFacts ==
    ASSUME IndInv, NEW n \in Nodes, waiting = None, fsm[n] \in Preparing
    PROVE  /\ sent[n] \in Seq(Commands) /\ node[n].commenced \in BOOLEAN
           /\ ResetFirst(sent[n], node[n].commenced)
           /\ EndsReset(sent[n], node[n].commenced)
           /\ Without(sent[n], "items")
<1>1. NodeInv(n) /\ node[n] \in NodeState /\ sent[n] \in Seq(Commands) /\ waiting # n
  BY NodesAssumption DEF IndInv, TypeOK
<1>2. QED
  BY Zenon, <1>1 DEF NodeInv, CommandsInv, NodeState, NoItems, Without

LEMMA TxConfigInv ==
    ASSUME IndInv, NEW n \in Nodes, NEW to \in Preparing, Visit(n, "TxConfig", to),
           Send(n, <<Command("config")>>), UNCHANGED <<waiting, received, node>>
    PROVE  Local(n) /\ NodeInv(n)'
<1>1. Command("config") \in Commands /\ Command("config").type = "config"
  BY DEF Command, Commands
<1>2. waiting = None /\ fsm[n] \in Preparing /\ "TxConfig" \in Preparing
  BY DEF Visit, Preparing
<1>3. /\ ResetFirst(sent'[n], node[n].commenced)
      /\ EndsReset(sent'[n], node[n].commenced)
      /\ Without(sent'[n], "items")
  BY Zenon, <1>1, <1>2, PreparingFacts, SendOne, AppendCommand
<1>4. to # "RxStatus"
  BY DEF Preparing
<1>5. \A m \in Nodes \ {n} : sent'[m] = sent[m]
  BY <1>1, SendOne
<1>6. QED
  BY Zenon, <1>2, <1>3, <1>4, <1>5, PreparingInv

LEMMA CommenceInv ==
    ASSUME IndInv, NEW n \in Nodes, CommenceNode(n)
    PROVE  Local(n) /\ NodeInv(n)'
<1>1. Command("commence") \in Commands /\ Command("commence").type = "commence"
  BY DEF Command, Commands
<1>2. /\ Visit(n, "Commence", "RxStatus") /\ Send(n, <<Command("commence")>>)
      /\ UNCHANGED <<waiting, received, node>>
  BY DEF CommenceNode
<1>3. waiting = None /\ fsm[n] \in Preparing /\ "Commence" \in Preparing
  BY <1>2 DEF Visit, Preparing
<1>4. /\ ResetFirst(sent'[n], node[n].commenced)
      /\ EndsCommenced(sent'[n], node[n].commenced)
      /\ Without(sent'[n], "items")
  BY Zenon, <1>1, <1>2, <1>3, PreparingFacts, SendOne, AppendCommand
<1>5. "RxStatus" \notin Preparing
  BY DEF Preparing
<1>6. \A m \in Nodes \ {n} : sent'[m] = sent[m]
  BY <1>1, <1>2, SendOne
<1>7. QED
  BY Zenon, <1>2, <1>3, <1>4, <1>5, <1>6, PreparingInv

LEMMA UpdateImageInv ==
    ASSUME IndInv, NEW n \in Nodes, UpdateNodeImage(n)
    PROVE  Local(n) /\ NodeInv(n)'
<1> DEFINE c == Command("image_info")
           d == Command("image")
           s == sent[n]
           b == node[n].commenced
<1>1. c \in Commands /\ c.type = "image_info" /\ d \in Commands /\ d.type = "image"
  BY DEF Command, Commands
<1>2. /\ Visit(n, "UpdateImage", "Commence") /\ Send(n, <<c, d>>)
      /\ UNCHANGED <<waiting, received, node>>
  BY DEF UpdateNodeImage
<1>3. waiting = None /\ fsm[n] \in Preparing /\ "UpdateImage" \in Preparing
  BY <1>2 DEF Visit, Preparing
<1>4. s \in Seq(Commands) /\ b \in BOOLEAN
  BY <1>3, PreparingFacts
<1>5. /\ sent'[n] = Append(Append(s, c), d)
      /\ \A m \in Nodes \ {n} : sent'[m] = sent[m]
  <2>1. s \o <<c, d>> = Append(Append(s, c), d)
    BY <1>1, <1>4
  <2>2. QED
    BY <1>2, <2>1 DEF Send, IndInv, TypeOK
<1>6. /\ Append(s, c) \in Seq(Commands)
      /\ ResetFirst(Append(s, c), b) /\ EndsReset(Append(s, c), b)
      /\ Without(Append(s, c), "items")
  <2>1. Append(s, c) \in Seq(Commands)
    BY <1>1, <1>4
  <2>2. ResetFirst(s, b) /\ EndsReset(s, b) /\ Without(s, "items")
    BY <1>3, PreparingFacts
  <2>3. QED
    BY Zenon, <1>1, <1>4, <2>1, <2>2, AppendCommand
<1>7. /\ ResetFirst(Append(Append(s, c), d), b) /\ EndsReset(Append(Append(s, c), d), b)
      /\ Without(Append(Append(s, c), d), "items")
  BY Zenon, <1>1, <1>4, <1>6, AppendCommand
<1>8. "Commence" \in Preparing /\ "Commence" # "RxStatus"
  BY DEF Preparing
<1>9. QED
  BY Zenon, <1>2, <1>3, <1>5, <1>7, <1>8, PreparingInv

\* A visit after which the FSM waits for the status, having sent work or nothing.
LEMMA AskingInv ==
    ASSUME IndInv, NEW n \in Nodes, NEW from, NEW to \in Asking, Visit(n, from, to),
           from \notin Preparing \cup {"TraceRxed", "TestRxed"},
           UNCHANGED <<received, node>>, waiting' = n,
           \/ UNCHANGED sent
           \/ \E k \in Nat : Send(n, IF k > 0 THEN <<Items(k)>> ELSE <<>>)
    PROVE  Local(n) /\ NodeInv(n)'
<1>1. waiting = None /\ fsm[n] = from /\ fsm \in [Nodes -> VMStates \cup SVMStates]
  BY DEF Visit, IndInv, TypeOK
<1>2. NodeInv(n) /\ waiting # n /\ sent[n] \in Seq(Commands) /\ node[n].commenced \in BOOLEAN
  BY Zenon, <1>1, NodesAssumption DEF IndInv, TypeOK, NodeState
<1>3. /\ \A m \in Nodes \ {n} : sent'[m] = sent[m]
      /\ ResetFirst(sent'[n], node[n].commenced)
      /\ EndsCommenced(sent'[n], node[n].commenced)
  <2>1. ResetFirst(sent[n], node[n].commenced) /\ EndsCommenced(sent[n], node[n].commenced)
    BY Zenon, <1>1, <1>2 DEF NodeInv, CommandsInv
  <2>2. CASE UNCHANGED sent
    BY Zenon, <2>1, <2>2
  <2>3. CASE \E k \in Nat : Send(n, IF k > 0 THEN <<Items(k)>> ELSE <<>>)
    <3>1. PICK k \in Nat : Send(n, IF k > 0 THEN <<Items(k)>> ELSE <<>>)
      BY <2>3
    <3>2. Items(k) \in Commands /\ Items(k).type = "items"
      BY DEF Items, Commands
    <3>3. CASE k > 0
      <4>1. Send(n, <<Items(k)>>)
        BY <3>1, <3>3
      <4>2. QED
        BY Zenon, <1>2, <2>1, <3>2, <4>1, SendOne, AppendCommand
    <3>4. CASE ~(k > 0)
      <4>1. sent[n] \o <<>> = sent[n]
        BY Zenon, <1>2, ConcatEmpty
      <4>2. sent' = [sent EXCEPT ![n] = sent[n]]
        BY <3>1, <3>4, <4>1 DEF Send
      <4>3. QED
        BY <2>1, <4>2 DEF IndInv, TypeOK
    <3>5. QED
      BY Zenon, <3>3, <3>4
  <2>4. QED
    BY Zenon, <2>2, <2>3
<1>4. /\ Local(n)
      /\ fsm'[n] = to
      /\ status'[n] = status[n]
  BY Zenon, <1>3, VisitLocal
<1>5. CommandsInv(n)'
  BY Zenon, <1>3, <1>4 DEF CommandsInv, Preparing, Asking
<1>6. FlagsInv(n)'
  BY Zenon, <1>2 DEF NodeInv, FlagsInv
<1>7. StatusInv(n)'
  BY Zenon, <1>1, <1>2, <1>4 DEF NodeInv, StatusInv, Calm, Preparing, Asking, IndInv, TypeOK
<1>8. QED
  BY Zenon, <1>4, <1>5, <1>6, <1>7 DEF NodeInv

LEMMA VisitVMInv ==
    ASSUME IndInv, NEW n \in VMNodes, VisitVM(n)
    PROVE  Local(n) /\ NodeInv(n)'
<1>a. n \in Nodes
  BY DEF Nodes
<1>1. CASE VMTxConfig(n)
  <2>1. PICK to \in Preparing : Visit(n, "TxConfig", to)
    BY <1>1 DEF VMTxConfig, Preparing
  <2>2. QED
    BY <1>1, <1>a, <2>1, TxConfigInv DEF VMTxConfig
<1>2. CASE ValidateImage(n)
  BY <1>2, <1>a, QuietVisitInv DEF ValidateImage, Preparing
<1>3. CASE UpdateNodeImage(n)
  BY <1>3, <1>a, UpdateImageInv
<1>4. CASE CommenceNode(n)
  BY <1>4, <1>a, CommenceInv
<1>5. CASE RxStatus(n)
  BY <1>5, <1>a, AskingInv DEF RxStatus, Preparing, Asking
<1>6. CASE QuietVisit(n, "StatusRxed", "RxTrace")
  BY <1>6, <1>a, QuietVisitInv DEF Serving
<1>7. CASE RxTrace(n)
  BY <1>7, <1>a, RxResultsInv DEF RxTrace
<1>8. CASE RxNoTrace(n)
  BY <1>8, <1>a, QuietVisitInv DEF RxNoTrace, Serving
<1>9. CASE TraceRxed(n)
  <2>1. Visit(n, "TraceRxed", "TxTest") /\ UNCHANGED <<waiting, sent, node>>
    BY <1>9 DEF TraceRxed
  <2>2. received'[n] = 0 /\ \A m \in Nodes \ {n} : received'[m] = received[m]
    BY <1>9, <1>a DEF TraceRxed, IndInv, TypeOK
  <2>3. QED
    BY Zenon, <1>a, <2>1, <2>2, QuietInv DEF Serving
<1>10. CASE TxTest(n)
  <2> DEFINE k == Lesser(tests.next, Room(status[n].tests))
  <2>1. tests.next \in Nat /\ status[n].tests \in Nat
    BY <1>a DEF IndInv, TypeOK, Pool, NodeStatus
  <2>2. k \in Nat
    BY <2>1, OptionsAssumption DEF Lesser, Room
  <2>3. /\ Visit(n, "TxTest", "TestTxed") /\ waiting' = n /\ UNCHANGED <<received, node>>
        /\ Send(n, IF k > 0 THEN <<Items(k)>> ELSE <<>>)
    BY <1>10 DEF TxTest
  <2> HIDE DEF k
  <2>4. QED
    BY <1>a, <2>2, <2>3, AskingInv DEF Preparing, Asking
<1>11. CASE TestTxed(n)
  BY Zenon, <1>11, <1>a, QuietVisitInv DEF TestTxed, Serving
<1>12. CASE RxError(n, "TestTxed") /\ UNCHANGED received
  BY <1>12, <1>a, RxErrorInv
<1>13. CASE QuietVisit(n, "ErrorRxed", "RxStatus")
  BY <1>13, <1>a, QuietVisitInv DEF Serving
<1>14. QED
  BY <1>1, <1>2, <1>3, <1>4, <1>5, <1>6, <1>7, <1>8, <1>9, <1>10, <1>11, <1>12, <1>13
  DEF VisitVM

LEMMA VisitSVMInv ==
    ASSUME IndInv, NEW n \in SVMNodes, VisitSVM(n)
    PROVE  Local(n) /\ NodeInv(n)'
<1>a. n \in Nodes
  BY DEF Nodes
<1>b. InsertTests(n) => received'[n] = 0 /\ \A m \in Nodes \ {n} : received'[m] = received[m]
  BY <1>a DEF InsertTests, IndInv, TypeOK
<1>1. CASE SVMTxConfig(n)
  BY <1>1, <1>a, TxConfigInv DEF SVMTxConfig, Preparing
<1>2. CASE CommenceNode(n)
  BY <1>2, <1>a, CommenceInv
<1>3. CASE RxStatus(n)
  BY <1>3, <1>a, AskingInv DEF RxStatus, Preparing, Asking
<1>4. CASE QuietVisit(n, "StatusRxed", "TxTrace")
  BY <1>4, <1>a, QuietVisitInv DEF Serving
<1>5. CASE TxTrace(n)
  <2>1. traces.next \in Nat /\ status[n].traces \in Nat
    BY <1>a DEF IndInv, TypeOK, Pool, NodeStatus
  <2>2. PICK k \in 0..Lesser(traces.next, Room(status[n].traces)) :
          Send(n, IF k > 0 THEN <<Items(k)>> ELSE <<>>)
    BY <1>5 DEF TxTrace
  <2>3. k \in Nat
    BY <2>1, OptionsAssumption DEF Lesser, Room
  <2>4. Visit(n, "TxTrace", "TraceTxed") /\ waiting' = n /\ UNCHANGED <<received, node>>
    BY <1>5 DEF TxTrace
  <2>5. QED
    BY <1>a, <2>2, <2>3, <2>4, AskingInv DEF Preparing, Asking
<1>6. CASE QuietVisit(n, "TraceTxed", "RxTest")
  BY <1>6, <1>a, QuietVisitInv DEF Serving
<1>7. CASE RxTest(n)
  BY Zenon, <1>7, <1>a, RxResultsInv DEF RxTest
<1>8. CASE RxNoTest(n)
  BY <1>8, <1>a, QuietVisitInv DEF RxNoTest, Serving
<1>9. CASE RxNoTestButError(n)
  BY <1>9, <1>a, RxErrorInv DEF RxNoTestButError
<1>10. CASE TestRxed(n)
  <2>1. Visit(n, "TestRxed", "RxStatus") /\ UNCHANGED <<waiting, sent, node>>
    BY <1>10 DEF TestRxed
  <2>2. QED
    BY Zenon, <1>10, <1>a, <1>b, <2>1, QuietInv DEF TestRxed, Serving
<1>11. CASE TestRxedAndError(n)
  <2>1. Visit(n, "TestRxed", "ErrorRxed") /\ UNCHANGED <<waiting, sent>>
    BY Zenon, <1>11 DEF TestRxedAndError
  <2>2. PICK k : node' = [node EXCEPT ![n] = TransmitErrors(@, k)]
    BY Zenon, <1>11 DEF TestRxedAndError
  <2>3. TypeOK
    BY DEF IndInv
  <2>4. QED
    BY Zenon, <1>11, <1>a, <1>b, <2>1, <2>2, <2>3, ErrorsTaken, QuietInv DEF TestRxedAndError, Serving
<1>12. CASE QuietVisit(n, "ErrorRxed", "RxStatus")
  BY <1>12, <1>a, QuietVisitInv DEF Serving
<1>13. QED
  BY <1>1, <1>2, <1>3, <1>4, <1>5, <1>6, <1>7, <1>8, <1>9, <1>10, <1>11, <1>12 DEF VisitSVM

=============================================================================
