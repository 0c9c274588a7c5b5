---------------------------- MODULE DispatchInv ----------------------------
(***************************************************************************)
(* The inductive invariants of Dispatch: IndInv, behind                    *)
(* ConvergedIsQuiescent and ResetBeforeResults, and, on top of it, WorkInv *)
(* behind QueueBounded and ResultsAreThere, and TargetInv behind           *)
(* TargetQueueNotOverrun.                                                  *)
(***************************************************************************)
EXTENDS Dispatch

\* States of a node's FSM before it sends the commence.
Preparing == {"TxConfig", "ValidateImage", "UpdateImage", "Commence"}

\* States in which an FSM may wait for the status of its node.
Asking == {"StatusRxed", "TestTxed", "TraceTxed"}

\* Position of a command of type t in s, with no command of type u after it.
LastIs(s, t, u) ==
    \E i \in 1..Len(s) : s[i].type = t /\ \A j \in 1..Len(s) : i < j => s[j].type # u

Without(s, t) == \A i \in 1..Len(s) : s[i].type # t

\* Whether the node will be commenced, or not, once it has served the commands in s.
EndsCommenced(s, commenced) ==
    LastIs(s, "commence", "reset") \/ (commenced /\ Without(s, "reset"))

EndsReset(s, commenced) ==
    LastIs(s, "reset", "commence") \/ (~commenced /\ Without(s, "commence"))

\* Every commence in s finds the node reset: it is not commenced, or a reset comes
\* between the commence and the one before it.
ResetFirst(s, commenced) ==
    \A i \in 1..Len(s) : s[i].type = "commence" =>
        \/ \E j \in 1..Len(s) :
            /\ j < i
            /\ s[j].type = "reset"
            /\ \A k \in 1..Len(s) : j < k /\ k < i => s[k].type # "commence"
        \/ ~commenced /\ \A k \in 1..Len(s) : k < i => s[k].type # "commence"

\* The dispatch action is the only one that visits nodes.
ControlInv == state # "Dispatching" => waiting = None /\ todo = {}

\* A node that has not joined is as it was made.
OutsideInv ==
    \A n \in Nodes \ nodes :
        fsm[n] = "TxConfig" /\ sent[n] = <<>> /\ received[n] = 0 /\ node[n] = NewNode

\* The commands on their way, and the state of the FSM that sent them.
CommandsInv(n) ==
    /\ ResetFirst(sent[n], node[n].commenced)
    /\ fsm[n] \in Preparing => EndsReset(sent[n], node[n].commenced)
    /\ fsm[n] \notin Preparing => EndsCommenced(sent[n], node[n].commenced)
    /\ waiting = n => fsm[n] \in Asking
    /\ waiting # n => NoItems(n)
    /\ waiting # n /\ fsm[n] \in Serving => sent[n] = <<>>

\* The active flag of a node is FALSE only if its instances are idle.
FlagsInv(n) ==
    /\ ~node[n].polling /\ ~node[n].active => node[n].busy = 0
    /\ ~node[n].commenced => node[n].active
    /\ node[n].polling => node[n].commenced

Calm(n) == status[n].tests = 0 /\ status[n].traces = 0 /\ ~status[n].active

\* What the cached status says of a node that Dispatch is not waiting for.
StatusInv(n) ==
    /\ fsm[n] \in Preparing => status[n].active
    /\ waiting # n /\ sent[n] # <<>> => status[n].active
    /\ received[n] > 0 => ~Calm(n) /\ fsm[n] \in {"TraceRxed", "TestRxed"}
    /\ waiting # n /\ Calm(n) => node[n].inq = 0 /\ node[n].busy = 0 /\ node[n].out = 0

NodeInv(n) == CommandsInv(n) /\ FlagsInv(n) /\ StatusInv(n)

\* The inductive invariant: a cached status that shows no work is still true,
\* because nothing reaches a node between its answer and the next question.
IndInv == TypeOK /\ ControlInv /\ OutsideInv /\ \A n \in Nodes : NodeInv(n)

-----------------------------------------------------------------------------
FSMStates(n) == IF n \in VMNodes THEN VMStates ELSE SVMStates

\* The items a node has, and those its first instances may still queue.
Load(n) == node[n].inq + node[n].seeds

\* How many items a node may queue by itself.
OwnItems(n) == IF n \in VMNodes THEN Instances ELSE 0

\* What the cached status says of the items and of the results of a node.
ItemsKnown(n) == IF n \in VMNodes THEN status[n].tests ELSE status[n].traces
ResultsKnown(n) == IF n \in VMNodes THEN status[n].traces ELSE status[n].tests

\* States between the status and the visit that tops the node up, and between the
\* status and the visit that asks for the results.
BeforeWork == {"StatusRxed", "RxTrace", "TraceRxed", "TxTest", "TxTrace"}
BeforeResults == {"StatusRxed", "RxTrace", "TxTrace", "TraceTxed", "RxTest"}

\* Items are the only command on their way, to a node that has room for them.
ItemsInv(n) ==
    \A i \in 1..Len(sent[n]) : sent[n][i].type = "items" =>
        /\ Len(sent[n]) = 1
        /\ node[n].commenced
        /\ Load(n) + sent[n][i].count <= NodeQueue + OwnItems(n)

\* After its status a node queues no items but its own, and loses no results, until
\* Dispatch has acted on the status.
WorkInv(n) ==
    /\ fsm[n] \in FSMStates(n)
    /\ node[n].seeds <= OwnItems(n)
    /\ ~node[n].commenced => Load(n) = 0
    /\ Load(n) <= NodeQueue + OwnItems(n)
    /\ ItemsInv(n)
    /\ waiting # n /\ fsm[n] \in BeforeWork => Load(n) <= ItemsKnown(n) + OwnItems(n)
    /\ waiting # n /\ fsm[n] \in BeforeResults => node[n].out >= ResultsKnown(n)

\* The first target is there, and DispatchFSM goes on to another only if there is one.
TargetInv ==
    /\ state = "SpecCheck" /\ first => targets = Targets
    /\ state = "NextTarget" => targets > 0
    /\ state # "Undefined"

\* What the queues of the nodes and of the targets rest on, besides IndInv: Dispatch
\* acts on a status before anything but the node itself has changed what it says
\* (tx_test, tx_trace, rx_trace, rx_test), and assign_next_target finds a target.
SupplyInv ==
    /\ \A n \in Nodes : WorkInv(n)
    /\ Targets > 0 /\ Cardinality(VMNodes) <= 1 => TargetInv
=============================================================================
