----------------------------- MODULE Registrar ------------------------------
(***************************************************************************)
(* The two threads of Dispatch that share the registry of nodes: the       *)
(* registrar thread (NodeRegistrarDriver, lib/cluster/node_registrar.cpp), *)
(* which makes the FSM of a node that joins and then lists the node, and   *)
(* the thread that runs DispatchFSM (lib/cluster/dispatch.cpp), whose      *)
(* reset action makes the FSMs of all listed nodes anew.                   *)
(*                                                                         *)
(* Dispatch takes a registration for one step; here each use of an         *)
(* AtomicGuard is a step.  The guards are those of the two lists of FSMs   *)
(* and of the registrar.  The FSMs of a node are counted.                  *)
(***************************************************************************)
EXTENDS Naturals, FiniteSets

CONSTANTS
    VMNodes, SVMNodes,
    None,           \* no node
    MaxResets,      \* bound: targets; 0 in developer mode, which has no NextTarget
    MayShutDown     \* whether cluster_shutdown may come

Nodes == VMNodes \cup SVMNodes

ASSUME RegistrarAssumption ==
    /\ VMNodes \cap SVMNodes = {} /\ None \notin Nodes /\ IsFiniteSet(Nodes)
    /\ MaxResets \in Nat /\ MayShutDown \in BOOLEAN

VARIABLES
    pc,         \* where the thread of DispatchFSM is
    todo,       \* nodes that its loop has still to deal with
    resets,     \* number of reset actions
    rpc,        \* where the registrar thread is
    joining,    \* the node it is registering, or None
    nodes,      \* nodes()
    fsms,       \* how many FSMs of a node the lists hold
    shutdown,   \* cluster_shutdown was served
    aborted     \* exception_caught of a node FSM has asserted

vars == <<pc, todo, resets, rpc, joining, nodes, fsms, shutdown, aborted>>

Listed(S) == {n \in S : fsms[n] > 0}

Init ==
    /\ pc = "run" /\ todo = {} /\ resets = 0
    /\ rpc = "accept" /\ joining = None
    /\ nodes = {} /\ fsms = [n \in Nodes |-> 0]
    /\ shutdown = FALSE /\ aborted = FALSE

-----------------------------------------------------------------------------
(* The thread of DispatchFSM.                                              *)

\* The guards that it holds over several steps.
HoldsRegistrar == pc = "register"
HoldsVMs == pc = "visitVM"
HoldsSVMs == pc = "visitSVM"

\* Mutant of HasNodes: the guard is missing.
AnyNodes ==
    /\ pc = "run"
    /\ pc' = "event"
    /\ UNCHANGED <<todo, resets, rpc, joining, nodes, fsms, shutdown, aborted>>

\* Dispatch::run: has_nodes, then the event.
HasNodes ==
    /\ pc = "run" /\ nodes # {}
    /\ pc' = "event"
    /\ UNCHANGED <<todo, resets, rpc, joining, nodes, fsms, shutdown, aborted>>

\* dispatch: the VM nodes, then the SVM nodes, each list locked for its loop.
DispatchBegin ==
    /\ pc = "event"
    /\ pc' = "visitVM" /\ todo' = Listed(VMNodes)
    /\ UNCHANGED <<resets, rpc, joining, nodes, fsms, shutdown, aborted>>

\* The connection of a node that was told to shut down is closed, sooner or later.
Visit(n) ==
    /\ pc \in {"visitVM", "visitSVM"} /\ n \in todo /\ ~aborted
    /\ todo' = todo \ {n}
    /\ aborted' \in {FALSE, shutdown}
    /\ UNCHANGED <<pc, resets, rpc, joining, nodes, fsms, shutdown>>

DispatchNext ==
    /\ pc \in {"visitVM", "visitSVM"} /\ todo = {} /\ ~aborted
    /\ IF pc = "visitVM" THEN pc' = "visitSVM" /\ todo' = Listed(SVMNodes)
                         ELSE pc' = "run" /\ todo' = {}
    /\ UNCHANGED <<resets, rpc, joining, nodes, fsms, shutdown, aborted>>

\* reset: it clears the two lists, then locks the registrar and, for each node,
\* sends cluster_reset and makes an FSM.
ClearVMs ==
    /\ pc = "event" /\ resets < MaxResets
    /\ pc' = "clearSVMs" /\ resets' = resets + 1
    /\ fsms' = [n \in Nodes |-> IF n \in VMNodes THEN 0 ELSE fsms[n]]
    /\ UNCHANGED <<todo, rpc, joining, nodes, shutdown, aborted>>

ClearSVMs ==
    /\ pc = "clearSVMs"
    /\ pc' = "lockRegistrar"
    /\ fsms' = [n \in Nodes |-> IF n \in SVMNodes THEN 0 ELSE fsms[n]]
    /\ UNCHANGED <<todo, resets, rpc, joining, nodes, shutdown, aborted>>

LockRegistrar ==
    /\ pc = "lockRegistrar"
    /\ pc' = "register" /\ todo' = nodes
    /\ UNCHANGED <<resets, rpc, joining, nodes, fsms, shutdown, aborted>>

RegisterAgain(n) ==
    /\ pc = "register" /\ n \in todo
    /\ todo' = todo \ {n}
    /\ fsms' = [fsms EXCEPT ![n] = @ + 1]
    /\ UNCHANGED <<pc, resets, rpc, joining, nodes, shutdown, aborted>>

ResetEnd ==
    /\ pc = "register" /\ todo = {}
    /\ pc' = "run"
    /\ UNCHANGED <<todo, resets, rpc, joining, nodes, fsms, shutdown, aborted>>

DispatchThread ==
    \/ HasNodes \/ DispatchBegin \/ DispatchNext \/ ClearVMs \/ ClearSVMs \/ LockRegistrar
    \/ ResetEnd \/ \E n \in Nodes : Visit(n) \/ RegisterAgain(n)

-----------------------------------------------------------------------------
(* The registrar thread: NodeRegistrarDriver::connect.                     *)

\* Mutant of Accept: push_back before call_back.
AcceptListed(n) ==
    /\ rpc = "accept" /\ ~shutdown /\ ~aborted /\ n \notin nodes
    /\ rpc' = "callback" /\ joining' = n /\ nodes' = nodes \cup {n}
    /\ UNCHANGED <<pc, todo, resets, fsms, shutdown, aborted>>

\* The node asks to join and gets its port; its status is read.
Accept(n) ==
    /\ rpc = "accept" /\ ~shutdown /\ ~aborted /\ n \notin nodes
    /\ rpc' = "callback" /\ joining' = n
    /\ UNCHANGED <<pc, todo, resets, nodes, fsms, shutdown, aborted>>

\* Mutant of CallBack: the guard of the list is not acquired.
CallBackUnlocked ==
    /\ rpc = "callback" /\ ~aborted
    /\ rpc' = "push"
    /\ fsms' = [fsms EXCEPT ![joining] = @ + 1]
    /\ UNCHANGED <<pc, todo, resets, joining, nodes, shutdown, aborted>>

\* Mutant of CallBack: the push_back is missing.
CallBackOnly ==
    /\ rpc = "callback" /\ ~aborted
    /\ rpc' = "accept" /\ joining' = None
    /\ fsms' = [fsms EXCEPT ![joining] = @ + 1]
    /\ UNCHANGED <<pc, todo, resets, nodes, shutdown, aborted>>

\* register_node_fsm, which waits for the list that it adds to.
CallBack ==
    /\ rpc = "callback" /\ ~aborted
    /\ joining \in VMNodes => ~HoldsVMs
    /\ joining \in SVMNodes => ~HoldsSVMs
    /\ rpc' = "push"
    /\ fsms' = [fsms EXCEPT ![joining] = @ + 1]
    /\ UNCHANGED <<pc, todo, resets, joining, nodes, shutdown, aborted>>

\* Mutant of PushBack: it does not wait for a node.
PushAnything ==
    /\ rpc # "callback" /\ ~HoldsRegistrar /\ ~aborted
    /\ rpc' = "accept" /\ joining' = None
    /\ nodes' = nodes \cup {joining}
    /\ UNCHANGED <<pc, todo, resets, fsms, shutdown, aborted>>

PushBack ==
    /\ rpc = "push" /\ ~HoldsRegistrar /\ ~aborted
    /\ rpc' = "accept" /\ joining' = None
    /\ nodes' = nodes \cup {joining}
    /\ UNCHANGED <<pc, todo, resets, fsms, shutdown, aborted>>

\* cluster_shutdown: disconnect tells the nodes to shut down and forgets them.
Disconnect ==
    /\ rpc = "accept" /\ MayShutDown /\ ~shutdown /\ ~HoldsRegistrar /\ ~aborted
    /\ shutdown' = TRUE /\ nodes' = {}
    /\ UNCHANGED <<pc, todo, resets, rpc, joining, fsms, aborted>>

RegistrarThread == CallBack \/ PushBack \/ Disconnect \/ \E n \in Nodes : Accept(n)

\* Dispatch::run returns at once for as long as there is no node.
Idle == (aborted \/ (pc = "run" /\ nodes = {})) /\ UNCHANGED vars

Next == DispatchThread \/ RegistrarThread \/ Idle

Spec == Init /\ [][Next]_vars

\* Both threads loop for ever; no node has to join.
Fairness == WF_vars(DispatchThread) /\ SF_vars(CallBack) /\ SF_vars(PushBack)

FairSpec == Spec /\ Fairness

-----------------------------------------------------------------------------
(* Properties.                                                             *)

TypeOK ==
    /\ pc \in {"run", "event", "visitVM", "visitSVM", "clearSVMs", "lockRegistrar", "register"}
    /\ rpc \in {"accept", "callback", "push"} /\ joining \in Nodes \cup {None}
    /\ nodes \subseteq Nodes /\ todo \subseteq Nodes /\ fsms \in [Nodes -> Nat]
    /\ resets \in 0..MaxResets /\ {shutdown, aborted} \subseteq BOOLEAN

\* node_registrar.cpp:131: "call_back must happen before push_back, or race condition
\* ensues".  A node that DispatchFSM can see has one FSM, outside of the reset action.
OneFSMPerNode == pc \in {"run", "event", "visitVM", "visitSVM"} => \A n \in nodes : fsms[n] = 1

\* Up to the first reset action, and so for ever in developer mode, the order of
\* call_back and push_back in NodeRegistrarDriver::connect is enough for that.
OneFSMUntilReset == resets = 0 => OneFSMPerNode

\* The loops of dispatch and reset walk through a list or the registry under its
\* guard: nothing is added to or removed from what they walk through.
StableWhileWalked ==
    [][/\ HoldsVMs /\ HoldsVMs' => \A n \in VMNodes : fsms'[n] = fsms[n]
       /\ HoldsSVMs /\ HoldsSVMs' => \A n \in SVMNodes : fsms'[n] = fsms[n]
       /\ HoldsRegistrar /\ HoldsRegistrar' => nodes' = nodes]_vars

\* Every node that a dispatch in progress meets on a closed connection was there when
\* Dispatch::run asked has_nodes: no dispatch begins after the disconnection.
NoDispatchAfterDisconnect == [][shutdown /\ pc = "run" => pc' = "run"]_vars

\* A node that has asked to join is listed in the end, or the process is at its end.
JoinersListed == \A n \in Nodes : (joining = n) ~> (n \in nodes \/ shutdown \/ aborted)
=============================================================================
