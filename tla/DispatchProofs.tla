--------------------------- MODULE DispatchProofs ---------------------------
(***************************************************************************)
(* The proof that IndInv is inductive, that SupplyInv holds given IndInv,  *)
(* and of what follows: convergence, the order of resets and results, and  *)
(* the bounds on the queues of the nodes and of the targets.               *)
(***************************************************************************)
EXTENDS DispatchVisits

-----------------------------------------------------------------------------
(* The other steps.                                                        *)

\* What a step of poll() may do: in particular, it leaves a node without work so.
LEMMA PollFacts ==
    ASSUME NEW nd \in NodeState, NEW x \in Polled(nd)
    PROVE  /\ x.commenced = nd.commenced
           /\ nd.polling \/ nd.commenced
           /\ x.polling \/ (~x.active => x.busy = 0)
           /\ nd.polling \/ x.active = nd.active
           /\ nd.inq = 0 /\ nd.busy = 0 /\ nd.out = 0 => x.inq = 0 /\ x.busy = 0 /\ x.out = 0
<1>a. /\ nd.inq \in Nat /\ nd.busy \in Nat /\ nd.seeds \in Nat
      /\ nd.out \in Nat /\ nd.errs \in Nat
  BY DEF NodeState
<1>1. CASE x \in PollStarted(nd)
  <2>1. nd.commenced /\ x = [nd EXCEPT !.polling = TRUE]
    BY <1>1 DEF PollStarted, When
  <2>2. QED
    BY Zenon, <2>1 DEF NodeState
<1>2. CASE x \in PollEnded(nd)
  <2>1. nd.polling /\ x = [nd EXCEPT !.polling = FALSE, !.active = nd.busy > 0]
    BY <1>2 DEF PollEnded, When
  <2> DEFINE b == nd.busy > 0
             y == [nd EXCEPT !.polling = FALSE, !.active = b]
  <2>2. b \in BOOLEAN /\ (~b => nd.busy = 0)
    BY <1>a
  <2> HIDE DEF b
  <2>3. /\ y.commenced = nd.commenced /\ y.inq = nd.inq /\ y.busy = nd.busy
        /\ y.out = nd.out /\ y.active = b
    BY <2>2 DEF NodeState
  <2>4. x = y
    BY <2>1 DEF b
  <2> HIDE DEF y
  <2>5. QED
    BY Zenon, <2>1, <2>2, <2>3, <2>4
<1>3. CASE nd.polling /\ x \in Engaged(nd)
  <2>1. nd.inq > 0 /\ x = [nd EXCEPT !.inq = nd.inq - 1, !.busy = nd.busy + 1]
    BY <1>3 DEF Engaged, When
  <2>2. x.commenced = nd.commenced /\ x.polling = nd.polling
    BY <2>1 DEF NodeState
  <2>3. QED
    BY <1>3, <1>a, <2>1, <2>2
<1>4. CASE nd.polling /\ x \in Dropped(nd)
  <2>1. nd.inq > 0 /\ x = [nd EXCEPT !.inq = @ - 1]
    BY <1>4 DEF Dropped, When
  <2>2. x.commenced = nd.commenced /\ x.polling = nd.polling
    BY <2>1 DEF NodeState
  <2>3. QED
    BY <1>4, <1>a, <2>1, <2>2
<1>5. CASE nd.polling /\ x \in Released(nd)
  <2> DEFINE R(i, j, k) == [nd EXCEPT !.busy = i, !.out = j, !.errs = k]
  <2>1. \A i, j, k : R(i, j, k).commenced = nd.commenced /\ R(i, j, k).polling = nd.polling
    BY DEF NodeState
  <2>2. Released(nd) = IF nd.busy > nd.seeds
                       THEN {R(nd.busy - 1, nd.out + k, nd.errs + e) :
                               k \in 0..MaxYield, e \in {0, 1}}
                       ELSE {}
    BY DEF Released, When
  <2> HIDE DEF R
  <2>3. nd.busy > nd.seeds
    BY <1>5, <2>2
  <2>4. x \in {R(nd.busy - 1, nd.out + k, nd.errs + e) : k \in 0..MaxYield, e \in {0, 1}}
    BY <1>5, <2>2, <2>3
  <2>5. PICK k \in 0..MaxYield, e \in {0, 1} : x = R(nd.busy - 1, nd.out + k, nd.errs + e)
    BY <2>4
  <2>6. x.commenced = nd.commenced /\ x.polling = nd.polling
    BY <2>1, <2>5
  <2>7. QED
    BY <1>5, <1>a, <2>3, <2>6
<1>6. CASE nd.polling /\ x \in Seeded(nd)
  <2> DEFINE R(i, j, k) == [nd EXCEPT !.busy = i, !.seeds = j, !.inq = k]
  <2>1. \A i, j, k : R(i, j, k).commenced = nd.commenced /\ R(i, j, k).polling = nd.polling
    BY DEF NodeState
  <2>2. Seeded(nd) = IF nd.busy > 0 /\ nd.seeds > 0
                     THEN {R(nd.busy - 1, nd.seeds - 1, nd.inq + k) : k \in {0, 1}}
                     ELSE {}
    BY DEF Seeded, When
  <2> HIDE DEF R
  <2>3. nd.busy > 0
    BY <1>6, <2>2
  <2>4. PICK k \in {0, 1} : x = R(nd.busy - 1, nd.seeds - 1, nd.inq + k)
    BY <1>6, <2>2
  <2>5. x.commenced = nd.commenced /\ x.polling = nd.polling
    BY <2>1, <2>4
  <2>6. QED
    BY <1>6, <1>a, <2>3, <2>5
<1>7. CASE nd.polling /\ x \in Replaced(nd)
  <2>1. PICK s \in {t \in {nd.seeds - 1, nd.seeds} : 0 <= t /\ t < nd.busy} :
          x = [nd EXCEPT !.errs = nd.errs + 1, !.seeds = s]
    BY Zenon, <1>7 DEF Replaced
  <2>2. nd.busy > 0
    BY <1>a, <2>1
  <2>3. x.commenced = nd.commenced /\ x.polling = nd.polling
    BY <2>1 DEF NodeState
  <2>4. QED
    BY <1>7, <1>a, <2>2, <2>3
<1>8. QED
  BY <1>1, <1>2, <1>3, <1>4, <1>5, <1>6, <1>7 DEF Polled, Visited, When

LEMMA PollInv ==
    ASSUME IndInv, NEW n \in Nodes, Poll(n)
    PROVE  Local(n) /\ NodeInv(n)'
<1>1. NodeInv(n) /\ node[n] \in NodeState
  BY DEF IndInv, TypeOK
<1>2. PICK x \in Polled(node[n]) : node' = [node EXCEPT ![n] = x]
  BY Zenon DEF Poll
<1>3. node'[n] = x /\ \A m \in Nodes \ {n} : node'[m] = node[m]
  BY <1>2 DEF IndInv, TypeOK
<1>4. /\ x.commenced = node[n].commenced
      /\ node[n].polling \/ node[n].commenced
      /\ x.polling \/ (~x.active => x.busy = 0)
      /\ node[n].polling \/ x.active = node[n].active
      /\ node[n].inq = 0 /\ node[n].busy = 0 /\ node[n].out = 0
            => x.inq = 0 /\ x.busy = 0 /\ x.out = 0
  BY <1>1, PollFacts
<1>5. UNCHANGED <<state, todo, waiting, nodes, status, fsm, received, sent>>
  BY DEF Poll
<1>6. node[n].commenced
  BY <1>1, <1>4 DEF NodeInv, FlagsInv
<1>7. n \in nodes
  BY <1>6 DEF IndInv, OutsideInv, NewNode
<1>8. Local(n)
  BY <1>3, <1>5, <1>7 DEF Local, Only, IndInv, ControlInv
<1>9. CommandsInv(n)'
  BY <1>1, <1>3, <1>4, <1>5 DEF NodeInv, CommandsInv, NoItems
<1>10. FlagsInv(n)'
  BY <1>3, <1>4, <1>6 DEF FlagsInv
<1>11. StatusInv(n)'
  BY <1>1, <1>3, <1>4, <1>5 DEF NodeInv, StatusInv, Calm
<1>12. QED
  BY <1>8, <1>9, <1>10, <1>11 DEF NodeInv

LEMMA ListenInv ==
    ASSUME IndInv, NEW n \in Nodes, Listen(n)
    PROVE  Local(n) /\ NodeInv(n)'
<1> DEFINE s == sent[n]
           nd == node[n]
           c == Head(s)
<1>1. NodeInv(n) /\ nd \in NodeState /\ s \in Seq(Commands) /\ s # <<>> /\ ~nd.polling
  BY DEF IndInv, TypeOK, Listen
<1>2. PICK x \in Served(n, nd) : node' = [node EXCEPT ![n] = x]
  BY Zenon DEF Listen
<1>3. /\ node'[n] = x /\ sent'[n] = Tail(s)
      /\ \A m \in Nodes \ {n} : node'[m] = node[m] /\ sent'[m] = sent[m]
  BY <1>2 DEF IndInv, TypeOK, Listen
<1>4. UNCHANGED <<state, todo, waiting, nodes, status, fsm, received>>
  BY DEF Listen
<1>5. n \in nodes
  BY <1>1 DEF IndInv, OutsideInv
<1>6. Local(n)
  BY <1>3, <1>4, <1>5 DEF Local, Only, IndInv, ControlInv
<1>7. nd.commenced \in BOOLEAN /\ nd.active \in BOOLEAN
  BY <1>1 DEF NodeState
<1>8. /\ ResetFirst(Tail(s), After(c, nd.commenced))
      /\ c.type = "commence" => ~nd.commenced
      /\ EndsReset(s, nd.commenced) => EndsReset(Tail(s), After(c, nd.commenced))
      /\ EndsCommenced(s, nd.commenced) => EndsCommenced(Tail(s), After(c, nd.commenced))
      /\ Without(s, "items") => Without(Tail(s), "items")
  <2>1. ResetFirst(s, nd.commenced)
    BY <1>1 DEF NodeInv, CommandsInv
  <2>2. QED
    BY <1>1, <1>7, <2>1, TailCommand
<1>9. /\ x.commenced = After(c, nd.commenced)
      /\ x.polling = nd.polling
      /\ ~x.active => x.busy = 0
      /\ ~x.commenced => x.active
  <2>1. /\ ~nd.active => nd.busy = 0
        /\ ~nd.commenced => nd.active
    BY <1>1 DEF NodeInv, FlagsInv
  <2>2. CASE c.type = "reset" /\ x = Reset(nd)
    BY <1>1, <2>2 DEF Reset, NodeState, After
  <2>3. CASE c.type = "commence" /\ \E b \in 0..Instances : \E k \in 0..b : x = Commence(nd, b, k)
    BY <1>1, <1>8, <2>1, <2>3 DEF Commence, NodeState, After
  <2>4. CASE c.type = "items" /\ x = Receive(nd, c.count)
    BY Zenon, <1>1, <2>1, <2>4 DEF Receive, NodeState, After
  <2>5. CASE c.type \notin {"reset", "commence", "items"} /\ x = nd
    BY Zenon, <2>1, <2>5 DEF After
  <2>6. QED
    BY <2>2, <2>3, <2>4, <2>5, ServedCases
<1>10. CommandsInv(n)'
  BY Zenon, <1>1, <1>3, <1>4, <1>8, <1>9 DEF NodeInv, CommandsInv, NoItems, Without
<1>11. FlagsInv(n)'
  BY <1>1, <1>3, <1>9 DEF FlagsInv
<1>12. StatusInv(n)'
  BY <1>1, <1>3, <1>4 DEF NodeInv, StatusInv, Calm
<1>13. QED
  BY <1>6, <1>10, <1>11, <1>12 DEF NodeInv

LEMMA ReplyInv ==
    ASSUME IndInv, NEW n \in Nodes, RxStatusReply(n)
    PROVE  Local(n) /\ NodeInv(n)'
<1>1. NodeInv(n) /\ node[n] \in NodeState /\ None # n
  BY NodesAssumption DEF IndInv, TypeOK
<1>2. /\ waiting = n /\ waiting' = None /\ sent[n] = <<>> /\ ~node[n].polling
      /\ status' = [status EXCEPT ![n] = StatusOf(n)]
      /\ UNCHANGED <<state, todo, nodes, fsm, received, sent, node>>
  BY DEF RxStatusReply, Listening
<1>3. status'[n] = StatusOf(n) /\ \A m \in Nodes \ {n} : status'[m] = status[m]
  BY <1>2 DEF IndInv, TypeOK
<1>4. fsm[n] \in Asking
  BY <1>1, <1>2 DEF NodeInv, CommandsInv
<1>5. Local(n)
  BY <1>1, <1>2, <1>3, NodesAssumption DEF Local, Only, IndInv, TypeOK, ControlInv
<1>6. CommandsInv(n)'
  <2>1. /\ sent'[n] = <<>> /\ node'[n] = node[n] /\ fsm'[n] = fsm[n]
        /\ waiting' # n
    BY <1>1, <1>2
  <2>2. /\ ResetFirst(sent'[n], node'[n].commenced)
        /\ fsm'[n] \in Preparing => EndsReset(sent'[n], node'[n].commenced)
        /\ fsm'[n] \notin Preparing => EndsCommenced(sent'[n], node'[n].commenced)
    BY <1>1, <1>2, <2>1 DEF NodeInv, CommandsInv
  <2>3. NoItems(n)'
    BY <2>1 DEF NoItems
  <2>4. QED
    BY <2>1, <2>2, <2>3 DEF CommandsInv
<1>7. FlagsInv(n)'
  BY <1>1, <1>2 DEF NodeInv, FlagsInv
<1>8. StatusInv(n)'
  <2>1. received[n] = 0
    BY <1>1, <1>4 DEF NodeInv, StatusInv, Asking, IndInv, TypeOK
  <2>2. Calm(n)' => node[n].inq = 0 /\ node[n].out = 0 /\ ~node[n].active
    BY <1>3 DEF Calm, StatusOf
  <2>3. Calm(n)' => node[n].busy = 0
    BY <1>1, <1>2, <2>2 DEF NodeInv, FlagsInv
  <2>4. QED
    BY <1>2, <1>4, <2>1, <2>2, <2>3 DEF StatusInv, Asking, Preparing
<1>9. QED
  BY <1>5, <1>6, <1>7, <1>8 DEF NodeInv

LEMMA ConnectInv ==
    ASSUME IndInv, NEW n \in Nodes, Connect(n)
    PROVE  Local(n) /\ NodeInv(n)'
<1>1. NodeInv(n) /\ n \notin nodes /\ waiting # n
  BY NodesAssumption DEF IndInv, TypeOK, Connect
<1>2. /\ fsm[n] = "TxConfig" /\ sent[n] = <<>> /\ received[n] = 0
  BY <1>1 DEF IndInv, OutsideInv
<1>3. /\ nodes' = nodes \cup {n}
      /\ UNCHANGED <<state, waiting, fsm, received, sent, node>>
      /\ \A m \in Nodes \ {n} : status'[m] = status[m]
      /\ status'[n] = [StatusOf(n) EXCEPT !.active = TRUE]
  BY DEF Connect, IndInv, TypeOK
<1>4. status'[n].active
  BY <1>3 DEF StatusOf
<1>5. ControlInv'
  <2>1. state # "Dispatching" => ~VisitingVMs /\ waiting = None /\ todo = {}
    BY NodesAssumption DEF IndInv, ControlInv, VisitingVMs, Nodes
  <2>2. QED
    BY <1>3, <2>1 DEF ControlInv, Connect
<1>6. Local(n)
  BY <1>3, <1>5 DEF Local, Only
<1>7. CommandsInv(n)' /\ FlagsInv(n)'
  BY <1>1, <1>3 DEF NodeInv, CommandsInv, FlagsInv, NoItems
<1>8. StatusInv(n)'
  BY <1>2, <1>3, <1>4 DEF StatusInv, Calm
<1>9. QED
  BY <1>6, <1>7, <1>8 DEF NodeInv

LEMMA NextTargetInv ==
    ASSUME IndInv, NextTarget
    PROVE  ControlInv' /\ OutsideInv' /\ \A n \in Nodes : NodeInv(n)'
<1>1. /\ state = "NextTarget" /\ state' # "Dispatching"
      /\ UNCHANGED <<todo, waiting, nodes, node>>
  BY DEF NextTarget
<1>2. waiting = None /\ todo = {}
  BY <1>1 DEF IndInv, ControlInv
<1>3. ControlInv'
  BY <1>1, <1>2 DEF ControlInv
<1>4. \A n \in Nodes \ nodes :
        /\ fsm'[n] = fsm[n] /\ received'[n] = received[n] /\ status'[n] = status[n]
        /\ sent'[n] = sent[n]
  BY DEF NextTarget
<1>5. OutsideInv'
  BY <1>1, <1>4 DEF IndInv, OutsideInv
<1>6. ASSUME NEW n \in Nodes PROVE NodeInv(n)'
  <2>1. NodeInv(n) /\ waiting # n
    BY <1>2, NodesAssumption DEF IndInv
  <2>2. CASE n \notin nodes
    BY <1>1, <1>4, <2>1, <2>2, FrameInv
  <2>3. CASE n \in nodes
    <3> DEFINE r == Command("reset")
               t == Command("next_target")
               s == sent[n]
               b == node[n].commenced
    <3>1. fsm'[n] = "TxConfig" /\ received'[n] = 0 /\ status'[n] = [status[n] EXCEPT !.active = TRUE]
      BY <2>3 DEF NextTarget
    <3>2. status'[n].active
      BY <3>1 DEF IndInv, TypeOK, NodeStatus
    <3>3. r \in Commands /\ r.type = "reset" /\ t \in Commands /\ t.type = "next_target"
      BY DEF Command, Commands
    <3>4. s \in Seq(Commands) /\ b \in BOOLEAN
      BY DEF IndInv, TypeOK, NodeState
    <3>5. sent'[n] = Append(s, r) \/ sent'[n] = Append(Append(s, r), t)
      <4>1. s \o <<r, t>> = Append(Append(s, r), t)
        BY <3>3, <3>4
      <4>2. sent'[n] = s \o <<r, t>> \/ sent'[n] = Append(s, r)
        BY <2>3 DEF NextTarget
      <4>3. QED
        BY <4>1, <4>2
    <3>6. ResetFirst(s, b) /\ Without(s, "items")
      BY <2>1 DEF NodeInv, CommandsInv, NoItems, Without
    <3>7. /\ Append(s, r) \in Seq(Commands)
          /\ ResetFirst(Append(s, r), b) /\ EndsReset(Append(s, r), b)
          /\ Without(Append(s, r), "items")
      BY <3>3, <3>4, <3>6, AppendCommand
    <3>8. /\ ResetFirst(Append(Append(s, r), t), b) /\ EndsReset(Append(Append(s, r), t), b)
          /\ Without(Append(Append(s, r), t), "items")
      BY Zenon, <3>3, <3>4, <3>7, AppendCommand
    <3>9. ResetFirst(sent'[n], b) /\ EndsReset(sent'[n], b) /\ Without(sent'[n], "items")
      BY Zenon, <3>5, <3>7, <3>8
    <3>10. CommandsInv(n)'
      BY <1>1, <2>1, <3>1, <3>9 DEF CommandsInv, NoItems, Without, Preparing, Serving
    <3>11. FlagsInv(n)'
      BY <1>1, <2>1 DEF NodeInv, FlagsInv
    <3>12. StatusInv(n)'
      BY <3>1, <3>2 DEF StatusInv, Calm
    <3>13. QED
      BY <3>10, <3>11, <3>12 DEF NodeInv
  <2>4. QED
    BY <2>2, <2>3
<1>7. QED
  BY <1>3, <1>5, <1>6

\* A step that leaves the nodes, their FSMs and the cached statuses as they are.
LEMMA ControlStep ==
    ASSUME IndInv, UNCHANGED <<waiting, nodes, status, fsm, received, sent, node>>,
           state' # "Dispatching" => waiting' = None /\ todo' = {}
    PROVE  ControlInv' /\ OutsideInv' /\ \A n \in Nodes : NodeInv(n)'
<1>1. ControlInv' /\ OutsideInv'
  BY DEF IndInv, ControlInv, OutsideInv
<1>2. ASSUME NEW n \in Nodes PROVE NodeInv(n)'
  BY FrameInv DEF IndInv
<1>3. QED
  BY <1>1, <1>2

-----------------------------------------------------------------------------
(* The invariant, and what follows from it.                                *)

LEMMA InvInit == Init => IndInv
<1> SUFFICES ASSUME Init PROVE IndInv
  OBVIOUS
<1>1. TypeOK
  BY TypeInit
<1>2. ControlInv /\ OutsideInv
  BY DEF Init, ControlInv, OutsideInv
<1>3. ASSUME NEW n \in Nodes PROVE NodeInv(n)
  <2>1. /\ waiting # n /\ fsm[n] = "TxConfig" /\ sent[n] = <<>> /\ received[n] = 0
        /\ status[n].active /\ node[n] = NewNode
    BY NodesAssumption DEF Init
  <2>2. CommandsInv(n)
    BY <2>1 DEF CommandsInv, NoItems, ResetFirst, EndsReset, Without, NewNode, Preparing, Serving
  <2>3. FlagsInv(n)
    BY <2>1 DEF FlagsInv, NewNode
  <2>4. StatusInv(n)
    BY <2>1 DEF StatusInv, Calm
  <2>5. QED
    BY <2>2, <2>3, <2>4 DEF NodeInv
<1>4. QED
  BY <1>1, <1>2, <1>3 DEF IndInv

LEMMA InvStep == IndInv /\ [Next]_vars => IndInv'
<1> SUFFICES ASSUME IndInv, [Next]_vars PROVE IndInv'
  OBVIOUS
<1>a. TypeOK'
  BY TypeStep DEF IndInv
<1>1. CASE Control
  <2>1. CASE NextTarget
    BY <1>a, <2>1, NextTargetInv DEF IndInv
  <2>2. CASE Control /\ ~NextTarget
    <3>1. /\ UNCHANGED <<waiting, nodes, status, fsm, received, sent, node>>
          /\ state' # "Dispatching" => waiting' = None /\ todo' = {}
      BY <2>2 DEF Control, SpecTerminate, SpecDispatch, SpecNextTarget, Terminate, Idle,
                  DispatchBegin, DispatchEnd, Go, Stay, vars, IndInv, ControlInv
    <3>2. QED
      BY <1>a, <3>1, ControlStep DEF IndInv
  <2>3. QED
    BY <1>1, <2>1, <2>2
<1>2. CASE \E n \in VMNodes : VisitVM(n)
  BY <1>a, <1>2, VisitVMInv, LocalStep DEF Nodes
<1>3. CASE \E n \in SVMNodes : VisitSVM(n)
  BY <1>a, <1>3, VisitSVMInv, LocalStep DEF Nodes
<1>4. CASE \E n \in Nodes : RxStatusReply(n)
  BY <1>a, <1>4, ReplyInv, LocalStep
<1>5. CASE \E n \in Nodes : Connect(n)
  BY <1>a, <1>5, ConnectInv, LocalStep
<1>6. CASE \E n \in Nodes : Listen(n)
  BY <1>a, <1>6, ListenInv, LocalStep
<1>7. CASE \E n \in Nodes : Poll(n)
  BY <1>a, <1>7, PollInv, LocalStep
<1>8. CASE UNCHANGED vars
  <2>1. UNCHANGED <<state, todo, waiting, nodes, status, fsm, received, sent, node>>
    BY <1>8 DEF vars
  <2>2. QED
    BY <1>a, <2>1, ControlStep DEF IndInv, ControlInv
<1>9. QED
  BY <1>1, <1>2, <1>3, <1>4, <1>5, <1>6, <1>7, <1>8 DEF Next, DispatchThread

\* IndInv holds throughout.
THEOREM Invariance == Spec => []IndInv
  BY InvInit, InvStep, PTL DEF Spec

\* DispatchFSM finds a target converged (is_converged, on cached statuses) only
\* when the cluster is quiescent, for any number of nodes, instances and results.
THEOREM Convergence == Spec => []ConvergedIsQuiescent
<1>1. IndInv => ConvergedIsQuiescent
  <2> SUFFICES ASSUME IndInv, state = "SpecCheck", is_converged PROVE Quiescent
    BY DEF ConvergedIsQuiescent
  <2>1. tests.next = 0 /\ traces.next = 0
    BY DEF is_converged, are_all_queues_empty
  <2>2. ASSUME NEW n \in nodes
        PROVE  /\ node[n].inq = 0 /\ node[n].busy = 0 /\ node[n].out = 0
               /\ received[n] = 0
               /\ NoItems(n)
    <3>1. Calm(n)
      BY DEF Calm, is_converged, are_all_queues_empty, are_node_queues_empty, are_nodes_inactive
    <3>2. n \in Nodes /\ NodeInv(n) /\ waiting # n /\ received[n] \in Nat
      BY NodesAssumption DEF IndInv, TypeOK, ControlInv
    <3>3. NoItems(n)
      BY Zenon, <3>2 DEF NodeInv, CommandsInv
    <3>4. /\ node[n].inq = 0 /\ node[n].busy = 0 /\ node[n].out = 0
          /\ ~(received[n] > 0)
      BY Zenon, <3>1, <3>2 DEF NodeInv, StatusInv
    <3>5. received[n] = 0
      BY <3>2, <3>4
    <3>6. QED
      BY Zenon, <3>3, <3>4, <3>5
  <2>3. QED
    BY <2>1, <2>2 DEF Quiescent
<1>2. QED
  BY <1>1, Invariance, PTL

\* A node FSM takes results and gives work only to a node that has executed the
\* reset and the commence of the target.
THEOREM TargetsSeparate == Spec => []ResetBeforeResults
<1>1. IndInv => ResetBeforeResults
  <2> SUFFICES ASSUME IndInv, NEW n \in nodes, fsm[n] \in Serving, waiting # n
               PROVE  sent[n] = <<>> /\ node[n].commenced
    BY DEF ResetBeforeResults
  <2>1. n \in Nodes /\ NodeInv(n)
    BY DEF IndInv, TypeOK
  <2>2. sent[n] = <<>> /\ EndsCommenced(sent[n], node[n].commenced)
    BY Zenon, <2>1 DEF NodeInv, CommandsInv, Serving, Preparing
  <2>3. QED
    BY <2>2 DEF EndsCommenced, LastIs
<1>2. QED
  BY <1>1, Invariance, PTL

-----------------------------------------------------------------------------
(* The supply of work: QueueBounded and ResultsAreThere.                   *)

\* The types of what WorkInv is about.
LEMMA WorkTypes ==
    ASSUME TypeOK, NEW n \in Nodes
    PROVE  /\ node[n] \in NodeState /\ sent[n] \in Seq(Commands)
           /\ node[n].inq \in Nat /\ node[n].seeds \in Nat /\ node[n].out \in Nat
           /\ node[n].commenced \in BOOLEAN
           /\ ItemsKnown(n) \in Nat /\ ResultsKnown(n) \in Nat
           /\ OwnItems(n) \in Nat /\ NodeQueue \in Nat /\ Load(n) \in Nat
<1>1. node[n] \in NodeState /\ sent[n] \in Seq(Commands) /\ status[n] \in NodeStatus
  BY DEF TypeOK
<1>2. /\ node[n].inq \in Nat /\ node[n].seeds \in Nat /\ node[n].out \in Nat
      /\ node[n].commenced \in BOOLEAN
  BY <1>1 DEF NodeState
<1>3. status[n].tests \in Nat /\ status[n].traces \in Nat
  BY <1>1 DEF NodeStatus
<1>4. ItemsKnown(n) \in Nat /\ ResultsKnown(n) \in Nat
  BY Zenon, <1>3 DEF ItemsKnown, ResultsKnown
<1>5. OwnItems(n) \in Nat
  <2>1. Instances \in Nat /\ 0 \in Nat
    BY InstancesAssumption
  <2>2. QED
    BY Zenon, <2>1 DEF OwnItems
<1>6. NodeQueue \in Nat
  BY OptionsAssumption
<1>7. Load(n) \in Nat
  <2> DEFINE a == node[n].inq  b == node[n].seeds
  <2>1. a \in Nat /\ b \in Nat
    BY <1>2
  <2> HIDE DEF a, b
  <2>2. a + b \in Nat
    BY <2>1
  <2>3. QED
    BY Zenon, <2>2 DEF Load, a, b
<1>8. QED
  BY Zenon, <1>1, <1>2, <1>4, <1>5, <1>6, <1>7

\* How many items tx_test and tx_trace give a node.
LEMMA RoomFacts ==
    ASSUME NEW a \in Nat, NEW b \in Nat
    PROVE  /\ Room(b) \in Nat /\ Lesser(a, Room(b)) \in Nat
           /\ Lesser(a, Room(b)) <= Room(b)
  BY OptionsAssumption DEF Lesser, Room

LEMMA Below ==
    ASSUME NEW a \in Nat, NEW b \in Nat, NEW c \in Nat, a <= b, b <= c
    PROVE  a <= c
  OBVIOUS

LEMMA Above ==
    ASSUME NEW a \in Nat, NEW b \in Nat, NEW c \in Nat, a >= b, b >= c
    PROVE  a >= c
  OBVIOUS

LEMMA BelowSum ==
    ASSUME NEW a \in Nat, NEW b \in Nat, NEW c \in Nat, NEW d \in Nat, a <= b, b + c <= d
    PROVE  a + c <= d
  OBVIOUS

LEMMA TailAt ==
    ASSUME NEW S, NEW s \in Seq(S), s # <<>>, NEW i \in 1..Len(Tail(s))
    PROVE  i + 1 \in 1..Len(s) /\ Tail(s)[i] = s[i + 1]
  OBVIOUS

LEMMA SumOfNats ==
    ASSUME NEW a \in Nat, NEW b \in Nat
    PROVE  a + b \in Nat
  OBVIOUS

LEMMA RoomLeft ==
    ASSUME NEW a \in Nat, NEW k \in Nat, NEW w \in Nat, NEW q \in Nat,
           k <= Room(q), a <= NodeQueue + w, a <= q + w
    PROVE  a + k <= NodeQueue + w
  BY OptionsAssumption DEF Room

LEMMA FrameWork ==
    ASSUME NEW m, WorkInv(m),
           fsm'[m] = fsm[m], sent'[m] = sent[m], node'[m] = node[m], status'[m] = status[m],
           (waiting' = m) <=> (waiting = m)
    PROVE  WorkInv(m)'
  BY Zenon DEF WorkInv, ItemsInv, Load, OwnItems, ItemsKnown, ResultsKnown, FSMStates

\* A visit that gives the node no items.
LEMMA VisitWork ==
    ASSUME TypeOK, NEW n \in Nodes, WorkInv(n), waiting = None,
           NEW from, NEW to \in FSMStates(n), Visit(n, from, to), NoItems(n)',
           node'[n].inq = node[n].inq, node'[n].seeds = node[n].seeds,
           node'[n].commenced = node[n].commenced,
           waiting' = n \/ (to \in BeforeWork => from \in BeforeWork),
           waiting' = n \/ (to \in BeforeResults =>
                              from \in BeforeResults /\ node'[n].out = node[n].out)
    PROVE  WorkInv(n)'
<1>1. fsm[n] = from /\ fsm'[n] = to /\ status' = status /\ waiting # n
  BY Zenon, NodesAssumption DEF Visit, TypeOK
<1>2. /\ Load(n)' = Load(n) /\ OwnItems(n)' = OwnItems(n) /\ ItemsKnown(n)' = ItemsKnown(n)
      /\ ResultsKnown(n)' = ResultsKnown(n) /\ FSMStates(n)' = FSMStates(n)
  BY <1>1 DEF Load, OwnItems, ItemsKnown, ResultsKnown, FSMStates
<1>3. ItemsInv(n)'
  BY Zenon DEF ItemsInv, NoItems
<1>4. QED
  BY Zenon, <1>1, <1>2, <1>3 DEF WorkInv

\* tx_test and tx_trace: the node is sent no more than the status left room for.
LEMMA TopUpWork ==
    ASSUME IndInv, NEW n \in Nodes, WorkInv(n),
           NEW from \in {"TxTest", "TxTrace"}, NEW to \in FSMStates(n), Visit(n, from, to),
           waiting' = n, UNCHANGED node,
           NEW k \in Nat, k <= Room(ItemsKnown(n)),
           Send(n, IF k > 0 THEN <<Items(k)>> ELSE <<>>)
    PROVE  WorkInv(n)'
<1>1. fsm[n] = from /\ fsm'[n] = to /\ status' = status /\ waiting # n
  BY NodesAssumption DEF Visit, IndInv, TypeOK
<1>2. NodeInv(n) /\ TypeOK
  BY DEF IndInv
<1>3. sent[n] = <<>> /\ node[n].commenced
  <2>1. fsm[n] \in Serving /\ fsm[n] \notin Preparing
    BY Zenon, <1>1 DEF Serving, Preparing
  <2>2. sent[n] = <<>> /\ EndsCommenced(sent[n], node[n].commenced)
    BY Zenon, <1>1, <1>2, <2>1 DEF NodeInv, CommandsInv
  <2>3. ~LastIs(<<>>, "commence", "reset")
    BY DEF LastIs
  <2> QED BY Zenon, <2>2, <2>3 DEF EndsCommenced
<1>4. sent'[n] = IF k > 0 THEN <<Items(k)>> ELSE <<>>
  <2>1. sent'[n] = sent[n] \o (IF k > 0 THEN <<Items(k)>> ELSE <<>>)
    BY <1>2 DEF Send, TypeOK
  <2>2. Items(k) \in Commands
    BY DEF Items, Commands
  <2>3. <<>> \o <<Items(k)>> = <<Items(k)>> /\ <<>> \o <<>> = <<>>
    BY <2>2
  <2>4. QED
    BY Zenon, <1>3, <2>1, <2>3
<1>5. /\ Load(n)' = Load(n) /\ OwnItems(n)' = OwnItems(n) /\ FSMStates(n)' = FSMStates(n)
  BY Zenon DEF Load, OwnItems, FSMStates
<1>6. Load(n) + k <= NodeQueue + OwnItems(n)
  <2>1. Load(n) <= NodeQueue + OwnItems(n) /\ Load(n) <= ItemsKnown(n) + OwnItems(n)
    BY Zenon, <1>1 DEF WorkInv, BeforeWork
  <2>2. QED
    BY Zenon, <1>2, <2>1, WorkTypes, RoomLeft
<1>7. ItemsInv(n)'
  <2>1. CASE k > 0
    <3>1. sent'[n] = <<Items(k)>>
      BY Zenon, <1>4, <2>1
    <3>2. ASSUME NEW i \in 1..Len(<<Items(k)>>)
          PROVE  <<Items(k)>>[i].count = k /\ Len(<<Items(k)>>) = 1
      BY DEF Items
    <3>3. QED
      BY Zenon, <1>3, <1>5, <1>6, <3>1, <3>2 DEF ItemsInv
  <2>2. CASE ~(k > 0)
    <3>1. sent'[n] = <<>>
      BY Zenon, <1>4, <2>2
    <3>2. 1..Len(<<>>) = {}
      OBVIOUS
    <3>3. QED
      BY Zenon, <3>1, <3>2 DEF ItemsInv
  <2>3. QED
    BY Zenon, <2>1, <2>2
<1>8. QED
  BY Zenon, <1>1, <1>5, <1>7 DEF WorkInv

\* A visit, of any kind, finds and leaves no items unread, unless it waits.
LEMMA VisitNoItems ==
    ASSUME IndInv, NEW n \in Nodes, waiting = None, NodeInv(n)'
    PROVE  /\ NoItems(n) /\ waiting # n
           /\ waiting' # n => NoItems(n)'
           /\ sent' = sent => NoItems(n)'
<1>1. NoItems(n) /\ waiting # n
  BY Zenon, NodesAssumption DEF IndInv, NodeInv, CommandsInv
<1>2. waiting' # n => NoItems(n)'
  BY Zenon DEF NodeInv, CommandsInv
<1>3. QED
  BY Zenon, <1>1, <1>2 DEF NoItems

\* Taking results changes only their number.
LEMMA ResultsTaken ==
    ASSUME TypeOK, NEW n \in Nodes, NEW k, node' = [node EXCEPT ![n] = Transmit(@, k)]
    PROVE  /\ node'[n].inq = node[n].inq /\ node'[n].seeds = node[n].seeds
           /\ node'[n].commenced = node[n].commenced
<1>1. node[n] \in NodeState
  BY DEF TypeOK
<1>2. QED
  BY <1>1 DEF TypeOK, NodeState, Transmit

LEMMA VisitVMWork ==
    ASSUME IndInv, NEW n \in VMNodes, WorkInv(n), VisitVM(n)
    PROVE  WorkInv(n)'
<1>a. n \in Nodes /\ TypeOK /\ FSMStates(n) = VMStates
  BY DEF Nodes, IndInv, FSMStates
<1>b. waiting = None
  BY Zenon DEF VisitVM, VMTxConfig, ValidateImage, UpdateNodeImage, CommenceNode, RxStatus, RxTrace,
         RxNoTrace, TraceRxed, TxTest, TestTxed, RxError, RxResults, QuietVisit, Visit
<1>c. /\ NoItems(n) /\ waiting # n
      /\ waiting' # n => NoItems(n)'
      /\ sent' = sent => NoItems(n)'
  BY <1>a, <1>b, VisitVMInv, VisitNoItems
<1>1. CASE VMTxConfig(n)
  <2>1. PICK to \in VMStates \ (BeforeWork \cup BeforeResults) : Visit(n, "TxConfig", to)
    BY <1>1 DEF VMTxConfig, VMStates, BeforeWork, BeforeResults
  <2>2. UNCHANGED <<waiting, node>>
    BY <1>1 DEF VMTxConfig
  <2>3. QED
    BY <1>a, <1>b, <1>c, <2>1, <2>2, VisitWork
<1>2. CASE ValidateImage(n)
  <2>1. PICK to \in VMStates \ (BeforeWork \cup BeforeResults) : QuietVisit(n, "ValidateImage", to)
    BY <1>2 DEF ValidateImage, VMStates, BeforeWork, BeforeResults
  <2>2. QED
    BY <1>a, <1>b, <1>c, <2>1, VisitWork DEF QuietVisit
<1>3. CASE UpdateNodeImage(n)
  BY <1>3, <1>a, <1>b, <1>c, VisitWork DEF UpdateNodeImage, VMStates, BeforeWork, BeforeResults
<1>4. CASE CommenceNode(n)
  BY <1>4, <1>a, <1>b, <1>c, VisitWork DEF CommenceNode, VMStates, BeforeWork, BeforeResults
<1>5. CASE RxStatus(n)
  BY <1>5, <1>a, <1>b, <1>c, VisitWork DEF RxStatus, VMStates
<1>6. CASE QuietVisit(n, "StatusRxed", "RxTrace")
  BY <1>6, <1>a, <1>b, <1>c, VisitWork DEF QuietVisit, VMStates, BeforeWork, BeforeResults
<1>7. CASE RxTrace(n)
  <2>1. Visit(n, "RxTrace", "TraceRxed") /\ UNCHANGED <<waiting, sent>>
    BY Zenon, <1>7 DEF RxTrace, RxResults
  <2>2. PICK k : node' = [node EXCEPT ![n] = Transmit(@, k)]
    BY Zenon, <1>7 DEF RxTrace, RxResults
  <2>3. QED
    BY Zenon, <1>a, <1>b, <1>c, <2>1, <2>2, ResultsTaken, VisitWork DEF VMStates, BeforeWork, BeforeResults
<1>8. CASE RxNoTrace(n)
  BY Zenon, <1>8, <1>a, <1>b, <1>c, VisitWork DEF RxNoTrace, QuietVisit, VMStates, BeforeWork, BeforeResults
<1>9. CASE TraceRxed(n)
  BY <1>9, <1>a, <1>b, <1>c, VisitWork DEF TraceRxed, VMStates, BeforeWork, BeforeResults
<1>10. CASE TxTest(n)
  <2> DEFINE k == Lesser(tests.next, Room(status[n].tests))
  <2>1. tests.next \in Nat /\ status[n].tests \in Nat /\ ItemsKnown(n) = status[n].tests
    BY <1>a DEF TypeOK, Pool, NodeStatus, ItemsKnown
  <2>2. k \in Nat /\ k <= Room(ItemsKnown(n))
    BY Zenon, <2>1, RoomFacts
  <2>3. /\ Visit(n, "TxTest", "TestTxed") /\ waiting' = n /\ UNCHANGED node
        /\ Send(n, IF k > 0 THEN <<Items(k)>> ELSE <<>>)
    BY <1>10 DEF TxTest
  <2> HIDE DEF k
  <2>4. QED
    BY <1>a, <2>2, <2>3, TopUpWork DEF VMStates
<1>11. CASE TestTxed(n)
  BY Zenon, <1>11, <1>a, <1>b, <1>c, VisitWork DEF TestTxed, QuietVisit, VMStates, BeforeWork, BeforeResults
<1>12. CASE RxError(n, "TestTxed")
  <2>1. Visit(n, "TestTxed", "ErrorRxed") /\ UNCHANGED <<waiting, sent>>
    BY Zenon, <1>12 DEF RxError
  <2>2. PICK k : node' = [node EXCEPT ![n] = TransmitErrors(@, k)]
    BY Zenon, <1>12 DEF RxError
  <2>3. QED
    BY Zenon, <1>a, <1>b, <1>c, <2>1, <2>2, ErrorsTaken, VisitWork DEF VMStates, BeforeWork, BeforeResults
<1>13. CASE QuietVisit(n, "ErrorRxed", "RxStatus")
  BY <1>13, <1>a, <1>b, <1>c, VisitWork DEF QuietVisit, VMStates, BeforeWork, BeforeResults
<1>14. QED
  BY <1>1, <1>2, <1>3, <1>4, <1>5, <1>6, <1>7, <1>8, <1>9, <1>10, <1>11, <1>12, <1>13
  DEF VisitVM

LEMMA VisitSVMWork ==
    ASSUME IndInv, NEW n \in SVMNodes, WorkInv(n), VisitSVM(n)
    PROVE  WorkInv(n)'
<1>a. n \in Nodes /\ n \notin VMNodes /\ TypeOK /\ FSMStates(n) = SVMStates
  BY NodesAssumption DEF Nodes, IndInv, FSMStates
<1>b. waiting = None
  BY Zenon DEF VisitSVM, SVMTxConfig, CommenceNode, RxStatus, TxTrace, RxTest, RxNoTest,
         RxNoTestButError, TestRxed, TestRxedAndError, RxError, RxResults, QuietVisit, Visit
<1>c. /\ NoItems(n) /\ waiting # n
      /\ waiting' # n => NoItems(n)'
      /\ sent' = sent => NoItems(n)'
  BY <1>a, <1>b, VisitSVMInv, VisitNoItems
<1>1. CASE SVMTxConfig(n)
  BY <1>1, <1>a, <1>b, <1>c, VisitWork DEF SVMTxConfig, SVMStates, BeforeWork, BeforeResults
<1>2. CASE CommenceNode(n)
  BY <1>2, <1>a, <1>b, <1>c, VisitWork DEF CommenceNode, SVMStates, BeforeWork, BeforeResults
<1>3. CASE RxStatus(n)
  BY <1>3, <1>a, <1>b, <1>c, VisitWork DEF RxStatus, SVMStates
<1>4. CASE QuietVisit(n, "StatusRxed", "TxTrace")
  BY <1>4, <1>a, <1>b, <1>c, VisitWork DEF QuietVisit, SVMStates, BeforeWork, BeforeResults
<1>5. CASE TxTrace(n)
  <2>1. traces.next \in Nat /\ status[n].traces \in Nat /\ ItemsKnown(n) = status[n].traces
    BY <1>a DEF TypeOK, Pool, NodeStatus, ItemsKnown
  <2>2. PICK k \in 0..Lesser(traces.next, Room(status[n].traces)) :
          Send(n, IF k > 0 THEN <<Items(k)>> ELSE <<>>)
    BY <1>5 DEF TxTrace
  <2>3. k \in Nat /\ k <= Room(ItemsKnown(n))
    <3> DEFINE l == Lesser(traces.next, Room(status[n].traces))
    <3>1. l \in Nat /\ l <= Room(ItemsKnown(n)) /\ Room(ItemsKnown(n)) \in Nat
      BY Zenon, <2>1, RoomFacts
    <3>2. k \in 0..l
      BY Zenon
    <3> HIDE DEF l
    <3>3. k \in Nat /\ k <= l
      BY <3>1, <3>2
    <3>4. QED
      BY Zenon, <3>1, <3>3, Below
  <2>4. Visit(n, "TxTrace", "TraceTxed") /\ waiting' = n /\ UNCHANGED node
    BY <1>5 DEF TxTrace
  <2>5. QED
    BY <1>a, <2>2, <2>3, <2>4, TopUpWork DEF SVMStates
<1>6. CASE QuietVisit(n, "TraceTxed", "RxTest")
  BY <1>6, <1>a, <1>b, <1>c, VisitWork DEF QuietVisit, SVMStates, BeforeWork, BeforeResults
<1>7. CASE RxTest(n)
  <2>1. Visit(n, "RxTest", "TestRxed") /\ UNCHANGED <<waiting, sent>>
    BY <1>7 DEF RxTest, RxResults
  <2>2. PICK k : node' = [node EXCEPT ![n] = Transmit(@, k)]
    BY Zenon, <1>7 DEF RxTest, RxResults
  <2>3. QED
    BY Zenon, <1>a, <1>b, <1>c, <2>1, <2>2, ResultsTaken, VisitWork DEF SVMStates, BeforeWork, BeforeResults
<1>8. CASE RxNoTest(n)
  BY Zenon, <1>8, <1>a, <1>b, <1>c, VisitWork DEF RxNoTest, QuietVisit, SVMStates, BeforeWork, BeforeResults
<1>9. CASE RxNoTestButError(n)
  <2>1. Visit(n, "RxTest", "ErrorRxed") /\ UNCHANGED <<waiting, sent>>
    BY Zenon, <1>9 DEF RxNoTestButError, RxError
  <2>2. PICK k : node' = [node EXCEPT ![n] = TransmitErrors(@, k)]
    BY Zenon, <1>9 DEF RxNoTestButError, RxError
  <2>3. QED
    BY Zenon, <1>a, <1>b, <1>c, <2>1, <2>2, ErrorsTaken, VisitWork DEF SVMStates, BeforeWork, BeforeResults
<1>10. CASE TestRxed(n)
  BY Zenon, <1>10, <1>a, <1>b, <1>c, VisitWork DEF TestRxed, SVMStates, BeforeWork, BeforeResults
<1>11. CASE TestRxedAndError(n)
  <2>1. Visit(n, "TestRxed", "ErrorRxed") /\ UNCHANGED <<waiting, sent>>
    BY Zenon, <1>11 DEF TestRxedAndError
  <2>2. PICK k : node' = [node EXCEPT ![n] = TransmitErrors(@, k)]
    BY Zenon, <1>11 DEF TestRxedAndError
  <2>3. QED
    BY Zenon, <1>a, <1>b, <1>c, <2>1, <2>2, ErrorsTaken, VisitWork DEF SVMStates, BeforeWork, BeforeResults
<1>12. CASE QuietVisit(n, "ErrorRxed", "RxStatus")
  BY <1>12, <1>a, <1>b, <1>c, VisitWork DEF QuietVisit, SVMStates, BeforeWork, BeforeResults
<1>13. QED
  BY <1>1, <1>2, <1>3, <1>4, <1>5, <1>6, <1>7, <1>8, <1>9, <1>10, <1>11, <1>12 DEF VisitSVM

\* A step of poll() adds no items but those of first instances, and loses no results.
LEMMA PollWork ==
    ASSUME IndInv, NEW n \in Nodes, WorkInv(n), Poll(n)
    PROVE  WorkInv(n)'
<1> DEFINE nd == node[n]
<1>1. TypeOK /\ nd \in NodeState
  BY DEF IndInv, TypeOK
<1>a. /\ nd.inq \in Nat /\ nd.busy \in Nat /\ nd.seeds \in Nat
      /\ nd.out \in Nat /\ nd.errs \in Nat
  BY <1>1 DEF NodeState
<1>2. PICK x \in Polled(nd) : node' = [node EXCEPT ![n] = x]
  BY Zenon DEF Poll
<1>3. node'[n] = x /\ x \in NodeState
  <2>1. node'[n] = x
    BY <1>1, <1>2 DEF TypeOK
  <2>2. TypeOK'
    BY TypeStep DEF IndInv, Next
  <2>3. QED
    BY <2>1, <2>2 DEF TypeOK
<1>4. x.commenced = nd.commenced
  BY <1>1, PollFacts
<1> HIDE DEF nd
<1>5. x.inq + x.seeds <= nd.inq + nd.seeds /\ x.seeds <= nd.seeds /\ x.out >= nd.out
  <2>1. CASE x \in PollStarted(nd)
    <3>1. x = [nd EXCEPT !.polling = TRUE]
      BY <2>1 DEF PollStarted, When
    <3>2. x.inq = nd.inq /\ x.seeds = nd.seeds /\ x.out = nd.out
      BY <1>1, <3>1 DEF NodeState
    <3>3. QED
      BY <1>a, <3>2
  <2>2. CASE x \in PollEnded(nd)
    <3>1. PICK b : x = [nd EXCEPT !.polling = FALSE, !.active = b]
      BY Zenon, <2>2 DEF PollEnded, When
    <3>2. x.inq = nd.inq /\ x.seeds = nd.seeds /\ x.out = nd.out
      BY <1>1, <3>1 DEF NodeState
    <3>3. QED
      BY <1>a, <3>2
  <2>3. CASE x \in Engaged(nd)
    <3>1. x = [nd EXCEPT !.inq = nd.inq - 1, !.busy = nd.busy + 1]
      BY <2>3 DEF Engaged, When
    <3>2. x.inq = nd.inq - 1 /\ x.seeds = nd.seeds /\ x.out = nd.out
      BY <1>1, <3>1 DEF NodeState
    <3>3. QED
      BY <1>a, <3>2
  <2>4. CASE x \in Dropped(nd)
    <3>1. x = [nd EXCEPT !.inq = nd.inq - 1]
      BY <2>4 DEF Dropped, When
    <3>2. x.inq = nd.inq - 1 /\ x.seeds = nd.seeds /\ x.out = nd.out
      BY <1>1, <3>1 DEF NodeState
    <3>3. QED
      BY <1>a, <3>2
  <2>5. CASE x \in Released(nd)
    <3> DEFINE R(i, j, k) == [nd EXCEPT !.busy = i, !.out = j, !.errs = k]
    <3>1. \A i, j, k : R(i, j, k).inq = nd.inq /\ R(i, j, k).seeds = nd.seeds /\ R(i, j, k).out = j
      BY <1>1 DEF NodeState
    <3>2. Released(nd) = IF nd.busy > nd.seeds
                         THEN {R(nd.busy - 1, nd.out + k, nd.errs + e) :
                                 k \in 0..MaxYield, e \in {0, 1}}
                         ELSE {}
      BY DEF Released, When
    <3> HIDE DEF R
    <3>3. PICK k \in 0..MaxYield, e \in {0, 1} : x = R(nd.busy - 1, nd.out + k, nd.errs + e)
      BY <2>5, <3>2
    <3>4. QED
      BY <1>a, <3>1, <3>3, MaxYieldAssumption
  <2>6. CASE x \in Seeded(nd)
    <3>1. PICK k \in {0, 1} :
            x = [nd EXCEPT !.busy = nd.busy - 1, !.seeds = nd.seeds - 1, !.inq = nd.inq + k]
      BY <2>6 DEF Seeded, When
    <3>2. x.inq = nd.inq + k /\ x.seeds = nd.seeds - 1 /\ x.out = nd.out
      BY <1>1, <3>1 DEF NodeState
    <3>3. QED
      BY <1>a, <3>2
  <2>7. CASE x \in Replaced(nd)
    <3>1. PICK s \in {nd.seeds - 1, nd.seeds} : x = [nd EXCEPT !.errs = nd.errs + 1, !.seeds = s]
      BY Zenon, <2>7 DEF Replaced
    <3>2. x.inq = nd.inq /\ x.seeds = s /\ x.out = nd.out
      BY <1>1, <3>1 DEF NodeState
    <3>3. QED
      BY <1>a, <3>1, <3>2
  <2>8. QED
    BY <2>1, <2>2, <2>3, <2>4, <2>5, <2>6, <2>7 DEF Polled, Visited, When
<1>6. UNCHANGED <<waiting, status, fsm, sent>>
  BY DEF Poll
<1>7. QED
  <2>a. /\ Load(n) \in Nat /\ OwnItems(n) \in Nat /\ NodeQueue \in Nat
        /\ ItemsKnown(n) \in Nat /\ ResultsKnown(n) \in Nat
        /\ node[n].seeds \in Nat /\ node[n].out \in Nat
        /\ NodeQueue + OwnItems(n) \in Nat /\ ItemsKnown(n) + OwnItems(n) \in Nat
    BY Zenon, <1>1, WorkTypes, SumOfNats
  <2>1. node[n].commenced
    BY Zenon, <1>1, PollFacts DEF IndInv, NodeInv, FlagsInv, nd
  <2>2. /\ OwnItems(n)' = OwnItems(n) /\ ItemsKnown(n)' = ItemsKnown(n)
        /\ ResultsKnown(n)' = ResultsKnown(n) /\ FSMStates(n)' = FSMStates(n)
    BY Zenon, <1>6 DEF OwnItems, ItemsKnown, ResultsKnown, FSMStates
  <2>3. /\ Load(n)' <= Load(n) /\ Load(n)' \in Nat /\ node'[n].seeds <= node[n].seeds
        /\ node'[n].out >= node[n].out /\ node'[n].seeds \in Nat /\ node'[n].out \in Nat
        /\ node'[n].commenced
    BY <1>3, <1>4, <1>5, <2>1 DEF Load, nd, NodeState
  <2>4. ItemsInv(n)'
    <3> SUFFICES ASSUME NEW i \in 1..Len(sent[n]), sent[n][i].type = "items"
                 PROVE  Len(sent[n]) = 1 /\ Load(n)' + sent[n][i].count <= NodeQueue + OwnItems(n)
      BY Zenon, <1>6, <2>2, <2>3 DEF ItemsInv
    <3>1. Len(sent[n]) = 1 /\ Load(n) + sent[n][i].count <= NodeQueue + OwnItems(n)
      BY Zenon DEF WorkInv, ItemsInv
    <3>2. sent[n][i].count \in Nat
      <4>1. sent[n] \in Seq(Commands)
        BY <1>1, WorkTypes
      <4>2. sent[n][i] \in Commands
        BY <4>1
      <4>3. QED
        BY <4>2 DEF Commands
    <3>3. QED
      BY Zenon, <2>3, <2>a, <3>1, <3>2, BelowSum
  <2>5. /\ node'[n].seeds <= OwnItems(n)
        /\ Load(n)' <= NodeQueue + OwnItems(n)
    <3>1. node[n].seeds <= OwnItems(n) /\ Load(n) <= NodeQueue + OwnItems(n)
      BY Zenon DEF WorkInv
    <3>2. QED
      BY Zenon, <2>3, <2>a, <3>1, Below
  <2>6. /\ waiting # n /\ fsm[n] \in BeforeWork => Load(n)' <= ItemsKnown(n) + OwnItems(n)
        /\ waiting # n /\ fsm[n] \in BeforeResults => node'[n].out >= ResultsKnown(n)
    <3>1. /\ waiting # n /\ fsm[n] \in BeforeWork => Load(n) <= ItemsKnown(n) + OwnItems(n)
          /\ waiting # n /\ fsm[n] \in BeforeResults => node[n].out >= ResultsKnown(n)
      BY Zenon DEF WorkInv
    <3>2. QED
      BY Zenon, <2>3, <2>a, <3>1, Below, Above
  <2>7. fsm[n] \in FSMStates(n)
    BY DEF WorkInv
  <2>8. QED
    BY Zenon, <1>6, <2>2, <2>3, <2>4, <2>5, <2>6, <2>7 DEF WorkInv

\* The listener serves a command: items reach a node with room for them, and a node
\* that is commenced has none.
LEMMA ListenWork ==
    ASSUME IndInv, NEW n \in Nodes, WorkInv(n), Listen(n)
    PROVE  WorkInv(n)'
<1> DEFINE s == sent[n]
           nd == node[n]
           c == Head(s)
<1>1. TypeOK /\ nd \in NodeState /\ s \in Seq(Commands) /\ s # <<>> /\ NodeInv(n)
  BY DEF IndInv, TypeOK, Listen
<1>2. /\ nd.inq \in Nat /\ nd.seeds \in Nat /\ nd.commenced \in BOOLEAN
      /\ OwnItems(n) \in Nat /\ NodeQueue \in Nat /\ c \in Commands /\ c.count \in Nat
  <2>1. c \in Commands
    BY <1>1
  <2>2. QED
    BY Zenon, <1>1, <2>1, WorkTypes DEF Commands
<1>3. PICK x \in Served(n, nd) : node' = [node EXCEPT ![n] = x]
  BY Zenon DEF Listen
<1>4. node'[n] = x /\ sent'[n] = Tail(s) /\ UNCHANGED <<waiting, status, fsm>>
  BY <1>1, <1>3 DEF TypeOK, Listen
<1>5. ~(waiting # n /\ fsm[n] \in BeforeWork) /\ ~(waiting # n /\ fsm[n] \in BeforeResults)
  BY Zenon, <1>1 DEF NodeInv, CommandsInv, Serving, BeforeWork, BeforeResults
<1>6. OwnItems(n)' = OwnItems(n) /\ FSMStates(n)' = FSMStates(n)
  BY DEF OwnItems, FSMStates
<1>7. c.type = "items" => /\ nd.commenced
                          /\ Load(n) + c.count <= NodeQueue + OwnItems(n)
  <2>1. 1 \in 1..Len(s) /\ c = s[1]
    BY <1>1
  <2>2. QED
    BY Zenon, <2>1 DEF WorkInv, ItemsInv
<1>8. ItemsInv(n)'
  <2> SUFFICES ASSUME NEW i \in 1..Len(Tail(s)), Tail(s)[i].type = "items" PROVE FALSE
    BY <1>4 DEF ItemsInv
  <2>1. i + 1 \in 1..Len(s) /\ Tail(s)[i] = s[i + 1]
    BY Zenon, <1>1, TailAt
  <2>2. Len(s) = 1
    BY Zenon, <2>1 DEF WorkInv, ItemsInv
  <2>3. QED
    BY <1>1, <2>1, <2>2
<1>9. /\ x.seeds <= OwnItems(n)
      /\ ~x.commenced => x.inq + x.seeds = 0
      /\ x.inq + x.seeds <= NodeQueue + OwnItems(n)
  <2>a. /\ nd.seeds <= OwnItems(n)
        /\ ~nd.commenced => nd.inq + nd.seeds = 0
        /\ nd.inq + nd.seeds <= NodeQueue + OwnItems(n)
    BY Zenon DEF WorkInv, Load
  <2>1. CASE c.type = "reset"
    <3>1. x = Reset(nd)
      BY <1>3, <2>1 DEF Served
    <3>2. x.inq = 0 /\ x.seeds = 0
      BY <1>1, <3>1 DEF Reset, NodeState
    <3>3. QED
      BY <1>2, <3>2
  <2>2. CASE c.type = "commence"
    <3>1. PICK b \in IF n \in VMNodes THEN 0..Instances ELSE {0} :
            \E k \in 0..b : x = Commence(nd, b, k)
      BY <1>3, <2>2 DEF Served
    <3>2. PICK k \in 0..b : x = Commence(nd, b, k)
      BY <3>1
    <3>3. x.inq = nd.inq /\ x.seeds = k /\ x.commenced
      BY <1>1, <3>2 DEF Commence, NodeState
    <3>4. k \in Nat /\ k <= OwnItems(n)
      BY InstancesAssumption DEF OwnItems
    <3>5. ~nd.commenced
      <4>1. ResetFirst(s, nd.commenced)
        BY Zenon, <1>1 DEF NodeInv, CommandsInv
      <4>2. QED
        BY Zenon, <1>1, <1>2, <2>2, <4>1, TailCommand
    <3>6. nd.inq = 0
      <4>1. nd.inq + nd.seeds = 0
        BY Zenon, <2>a, <3>5
      <4>2. QED
        BY <1>2, <4>1
    <3>7. \A w \in Nat : k <= w => 0 + k <= NodeQueue + w
      BY <1>2, <3>4
    <3>8. QED
      BY Zenon, <1>2, <3>3, <3>4, <3>6, <3>7
  <2>3. CASE c.type = "items"
    <3>1. x = Receive(nd, c.count)
      BY <1>3, <2>3 DEF Served
    <3>2. x.inq = nd.inq + c.count /\ x.seeds = nd.seeds /\ x.commenced = nd.commenced
      BY <1>1, <3>1 DEF Receive, NodeState
    <3>3. nd.commenced /\ (nd.inq + nd.seeds) + c.count <= NodeQueue + OwnItems(n)
      BY <1>7, <2>3 DEF Load
    <3> HIDE DEF nd, c, s
    <3>4. QED
      BY <1>2, <2>a, <3>2, <3>3
  <2>4. CASE c.type \notin {"reset", "commence", "items"}
    <3>1. x = nd
      BY <1>3, <2>4 DEF Served
    <3>2. QED
      BY <2>a, <3>1
  <2>5. QED
    BY <2>1, <2>2, <2>3, <2>4
<1>10. QED
  BY Zenon, <1>4, <1>5, <1>6, <1>8, <1>9 DEF WorkInv, Load

LEMMA ReplyWork ==
    ASSUME IndInv, NEW n \in Nodes, WorkInv(n), RxStatusReply(n)
    PROVE  WorkInv(n)'
<1>1. TypeOK
  BY DEF IndInv
<1>2. status'[n] = StatusOf(n) /\ UNCHANGED <<fsm, sent, node>>
  BY <1>1 DEF RxStatusReply, TypeOK
<1>3. ItemsKnown(n)' = node[n].inq /\ ResultsKnown(n)' = node[n].out
  <2>1. /\ status'[n].tests = IF n \in VMNodes THEN node[n].inq ELSE node[n].out
        /\ status'[n].traces = IF n \in VMNodes THEN node[n].out ELSE node[n].inq
    BY <1>2 DEF StatusOf
  <2>2. CASE n \in VMNodes
    BY Zenon, <2>1, <2>2 DEF ItemsKnown, ResultsKnown
  <2>3. CASE n \notin VMNodes
    BY Zenon, <2>1, <2>3 DEF ItemsKnown, ResultsKnown
  <2>4. QED
    BY Zenon, <2>2, <2>3
<1>4. /\ Load(n)' = Load(n) /\ OwnItems(n)' = OwnItems(n) /\ FSMStates(n)' = FSMStates(n)
      /\ ItemsInv(n)' = ItemsInv(n)
  BY Zenon, <1>2 DEF Load, OwnItems, FSMStates, ItemsInv
<1>5. Load(n) <= node[n].inq + OwnItems(n) /\ node[n].out >= node[n].out
  <2> DEFINE a == node[n].inq  b == node[n].seeds  o == node[n].out  w == OwnItems(n)
  <2>1. a \in Nat /\ b \in Nat /\ o \in Nat /\ w \in Nat /\ b <= w
    BY Zenon, <1>1, WorkTypes DEF WorkInv
  <2> HIDE DEF a, b, o, w
  <2>2. a + b <= a + w /\ o >= o
    BY <2>1
  <2>3. QED
    BY Zenon, <2>2 DEF Load, a, b, o, w
<1>6. QED
  BY Zenon, <1>2, <1>3, <1>4, <1>5 DEF WorkInv

LEMMA ConnectWork ==
    ASSUME IndInv, NEW n \in Nodes, WorkInv(n), Connect(n)
    PROVE  WorkInv(n)'
<1>1. fsm[n] = "TxConfig" /\ UNCHANGED <<waiting, fsm, sent, node>>
  BY DEF IndInv, OutsideInv, Connect
<1>2. QED
  BY Zenon, <1>1 DEF WorkInv, ItemsInv, Load, OwnItems, FSMStates, BeforeWork, BeforeResults

LEMMA NextTargetWork ==
    ASSUME IndInv, NEW n \in Nodes, WorkInv(n), NextTarget
    PROVE  WorkInv(n)'
<1>1. UNCHANGED <<waiting, nodes, node>> /\ waiting = None
  BY DEF NextTarget, IndInv, ControlInv
<1>2. CASE n \notin nodes
  <2>1. fsm'[n] = fsm[n] /\ sent'[n] = sent[n] /\ status'[n] = status[n]
    BY <1>2 DEF NextTarget
  <2>2. QED
    BY Zenon, <1>1, <2>1, FrameWork
<1>3. CASE n \in nodes
  <2>1. fsm'[n] = "TxConfig"
    BY <1>3 DEF NextTarget
  <2>2. NoItems(n)'
    BY Zenon, <1>1, NextTargetInv, NodesAssumption DEF NodeInv, CommandsInv
  <2>3. QED
    BY Zenon, <1>1, <2>1, <2>2 DEF WorkInv, ItemsInv, NoItems, Load, OwnItems, FSMStates, VMStates,
                            SVMStates, BeforeWork, BeforeResults
<1>4. QED
  BY <1>2, <1>3

LEMMA WorkInit == Init => \A n \in Nodes : WorkInv(n)
<1> SUFFICES ASSUME Init, NEW n \in Nodes PROVE WorkInv(n)
  OBVIOUS
<1>1. fsm[n] = "TxConfig" /\ sent[n] = <<>> /\ node[n] = NewNode
  BY Zenon DEF Init
<1>2. node[n].inq = 0 /\ node[n].seeds = 0
  BY <1>1 DEF NewNode
<1>3. 1..Len(<<>>) = {} /\ 0 + 0 = 0
  OBVIOUS
<1>4. ItemsInv(n)
  BY Zenon, <1>1, <1>3 DEF ItemsInv
<1>5. Load(n) = 0
  BY Zenon, <1>2, <1>3 DEF Load
<1>6. OwnItems(n) \in Nat
  <2>1. Instances \in Nat /\ 0 \in Nat
    BY InstancesAssumption
  <2>2. QED
    BY Zenon, <2>1 DEF OwnItems
<1>7. 0 <= OwnItems(n) /\ 0 <= NodeQueue + OwnItems(n)
  BY <1>6, OptionsAssumption
<1>8. fsm[n] \in FSMStates(n) /\ fsm[n] \notin BeforeWork /\ fsm[n] \notin BeforeResults
  BY Zenon, <1>1 DEF FSMStates, VMStates, SVMStates, BeforeWork, BeforeResults
<1>9. QED
  BY Zenon, <1>2, <1>4, <1>5, <1>7, <1>8 DEF WorkInv

\* What one node does leaves the others as they are.
LEMMA LocalWork ==
    ASSUME \A m \in Nodes : WorkInv(m), NEW n \in Nodes, Local(n), WorkInv(n)'
    PROVE  \A m \in Nodes : WorkInv(m)'
<1>1. ASSUME NEW m \in Nodes PROVE WorkInv(m)'
  <2>1. CASE m = n
    BY <2>1
  <2>2. CASE m # n
    BY Zenon, <2>2, FrameWork DEF Local, Only
  <2>3. QED
    BY <2>1, <2>2
<1>2. QED
  BY <1>1

LEMMA WorkStep ==
    IndInv /\ (\A n \in Nodes : WorkInv(n)) /\ [Next]_vars => (\A n \in Nodes : WorkInv(n))'
<1> SUFFICES ASSUME IndInv, \A n \in Nodes : WorkInv(n), [Next]_vars
             PROVE  \A n \in Nodes : WorkInv(n)'
  OBVIOUS
<1>1. CASE NextTarget
  BY <1>1, NextTargetWork
<1>2. CASE (Control /\ ~NextTarget) \/ UNCHANGED vars
  <2>1. UNCHANGED <<waiting, status, fsm, sent, node>>
    BY Zenon, <1>2 DEF Control, SpecTerminate, SpecDispatch, SpecNextTarget, Terminate, Idle,
                DispatchBegin, DispatchEnd, Go, Stay, vars
  <2>2. QED
    BY <2>1, FrameWork
<1>3. CASE \E n \in VMNodes : VisitVM(n)
  BY <1>3, VisitVMInv, VisitVMWork, LocalWork DEF Nodes
<1>4. CASE \E n \in SVMNodes : VisitSVM(n)
  BY <1>4, VisitSVMInv, VisitSVMWork, LocalWork DEF Nodes
<1>5. CASE \E n \in Nodes : RxStatusReply(n)
  BY <1>5, ReplyInv, ReplyWork, LocalWork
<1>6. CASE \E n \in Nodes : Connect(n)
  BY <1>6, ConnectInv, ConnectWork, LocalWork
<1>7. CASE \E n \in Nodes : Listen(n)
  BY <1>7, ListenInv, ListenWork, LocalWork
<1>8. CASE \E n \in Nodes : Poll(n)
  BY <1>8, PollInv, PollWork, LocalWork
<1>9. QED
  BY <1>1, <1>2, <1>3, <1>4, <1>5, <1>6, <1>7, <1>8 DEF Next, DispatchThread, Control

-----------------------------------------------------------------------------
(* The targets: TargetQueueNotOverrun.                                     *)

LEMMA TargetInit == Init /\ Targets > 0 => TargetInv
  BY DEF Init, TargetInv

LEMMA TargetStep ==
    Targets > 0 /\ Cardinality(VMNodes) <= 1 /\ IndInv /\ TargetInv /\ [Next]_vars => TargetInv'
<1> SUFFICES ASSUME Targets > 0, Cardinality(VMNodes) <= 1, IndInv, TargetInv, [Next]_vars
             PROVE  TargetInv'
  OBVIOUS
<1>1. targets \in Nat /\ first \in BOOLEAN /\ Targets \in Nat
  BY OptionsAssumption DEF IndInv, TypeOK
<1>2. CASE NextTarget
  <2> DEFINE vms == nodes \cap VMNodes
  <2>1. Cardinality(vms) \in Nat /\ Cardinality(vms) <= 1
    <3>1. IsFiniteSet(VMNodes)
      BY NodesAssumption, FS_Subset DEF Nodes
    <3>2. IsFiniteSet(vms) /\ Cardinality(vms) <= Cardinality(VMNodes)
      BY <3>1, FS_Subset
    <3>3. Cardinality(vms) \in Nat /\ Cardinality(VMNodes) \in Nat
      BY <3>1, <3>2, FS_CardinalityType
    <3>4. QED
      BY <3>2, <3>3
  <2>2. targets > 0
    BY <1>2 DEF NextTarget, TargetInv
  <2>3. state' = "Dispatch"
    BY <1>1, <1>2, <2>1, <2>2 DEF NextTarget, have_next_target
  <2>4. QED
    BY <2>3 DEF TargetInv
<1>3. CASE SpecNextTarget
  <2>1. state' = "NextTarget" /\ targets' = targets /\ state = "SpecCheck"
        /\ (first \/ have_next_target)
    BY <1>3 DEF SpecNextTarget, Go, Stay
  <2>2. targets > 0
    BY <1>1, <2>1 DEF TargetInv, have_next_target
  <2>3. QED
    BY <2>1, <2>2 DEF TargetInv
<1>4. CASE SpecTerminate \/ SpecDispatch \/ Terminate \/ DispatchBegin \/ DispatchEnd
  BY <1>4 DEF SpecTerminate, SpecDispatch, Terminate, DispatchBegin, DispatchEnd, Go, TargetInv
<1>5. CASE UNCHANGED <<state, first, targets>>
  BY <1>5 DEF TargetInv
<1>6. Next => \/ NextTarget \/ SpecNextTarget
              \/ SpecTerminate \/ SpecDispatch \/ Terminate \/ DispatchBegin \/ DispatchEnd
              \/ UNCHANGED <<state, first, targets>>
  <2>1. ASSUME NEW n, VisitVM(n) PROVE UNCHANGED <<state, first, targets>>
    BY Zenon, <2>1 DEF VisitVM, VMTxConfig, ValidateImage, UpdateNodeImage, CommenceNode, RxStatus,
                RxTrace, RxNoTrace, TraceRxed, TxTest, TestTxed, RxError, RxResults,
                QuietVisit, Visit
  <2>2. ASSUME NEW n, VisitSVM(n) PROVE UNCHANGED <<state, first, targets>>
    BY Zenon, <2>2 DEF VisitSVM, SVMTxConfig, CommenceNode, RxStatus, TxTrace, RxTest, RxNoTest,
                RxNoTestButError, TestRxed, TestRxedAndError, RxError, RxResults,
                QuietVisit, Visit
  <2>3. ASSUME NEW n, RxStatusReply(n) \/ Connect(n) \/ Listen(n) \/ Poll(n)
        PROVE  UNCHANGED <<state, first, targets>>
    BY <2>3 DEF RxStatusReply, Connect, Listen, Poll
  <2>4. Idle => UNCHANGED <<state, first, targets>>
    BY DEF Idle, vars
  <2>5. QED
    BY <2>1, <2>2, <2>3, <2>4 DEF Next, DispatchThread, Control
<1>7. QED
  BY <1>2, <1>3, <1>4, <1>5, <1>6 DEF vars

-----------------------------------------------------------------------------
(* What follows.                                                           *)

LEMMA SupplyStep == IndInv /\ SupplyInv /\ [Next]_vars => SupplyInv'
  BY WorkStep, TargetStep DEF SupplyInv

\* SupplyInv holds throughout.
THEOREM Supply == Spec => []SupplyInv
<1>1. Init => SupplyInv
  BY WorkInit, TargetInit DEF SupplyInv
<1>2. QED
  BY <1>1, SupplyStep, Invariance, PTL DEF Spec

\* Topping up from the cached status (tx_test, tx_trace) never overfills the queue of
\* a node, for any multiplier and any number of nodes and instances.
THEOREM NodeQueuesBounded == Spec => []QueueBounded
<1>1. IndInv /\ SupplyInv => QueueBounded
  <2> SUFFICES ASSUME IndInv, SupplyInv, NEW n \in Nodes
               PROVE  node[n].inq <= NodeQueue + OwnItems(n)
    BY DEF QueueBounded, OwnItems
  <2>1. Load(n) <= NodeQueue + OwnItems(n) /\ TypeOK
    BY Zenon DEF IndInv, SupplyInv, WorkInv
  <2>2. QED
    BY <2>1, WorkTypes DEF Load
<1>2. QED
  BY <1>1, Invariance, Supply, PTL

\* rx_trace and rx_test find the results that the status announced.
THEOREM AnnouncedResults == Spec => []ResultsAreThere
<1>1. IndInv /\ SupplyInv => ResultsAreThere
  <2> SUFFICES ASSUME IndInv, SupplyInv, NEW n \in nodes
               PROVE  /\ fsm[n] = "RxTrace" => node[n].out >= status[n].traces
                      /\ fsm[n] = "RxTest" /\ waiting # n => node[n].out >= status[n].tests
    BY DEF ResultsAreThere
  <2>1. n \in Nodes /\ WorkInv(n) /\ NodeInv(n)
    BY DEF IndInv, TypeOK, SupplyInv
  <2>2. fsm[n] = "RxTrace" => n \in VMNodes /\ waiting # n
    BY Zenon, <2>1 DEF WorkInv, FSMStates, SVMStates, NodeInv, CommandsInv, Asking
  <2>3. fsm[n] = "RxTest" => n \notin VMNodes
    BY Zenon, <2>1 DEF WorkInv, FSMStates, VMStates
  <2>4. QED
    BY Zenon, <2>1, <2>2, <2>3 DEF WorkInv, BeforeResults, ResultsKnown
<1>2. QED
  BY <1>1, Invariance, Supply, PTL

\* With targets to begin with and at most one VM node, front() and pop_front() are
\* never called on an empty next_target_queue_, however many targets there are.
THEOREM TargetsSuffice == Spec => []TargetQueueNotOverrun
<1>1. SupplyInv => TargetQueueNotOverrun
  BY DEF SupplyInv, TargetInv, TargetQueueNotOverrun
<1>2. QED
  BY <1>1, Supply, PTL

=============================================================================
