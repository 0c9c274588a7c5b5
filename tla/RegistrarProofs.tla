-------------------------- MODULE RegistrarProofs ---------------------------
(***************************************************************************)
(* The registration of nodes for any nodes and any number of resets: the   *)
(* order of call_back and push_back is enough up to the first reset, what  *)
(* a loop walks through does not change, and no dispatch begins after the  *)
(* disconnection.                                                          *)
(***************************************************************************)
EXTENDS Registrar, TLAPS

\* The node that the registrar thread has in hand is not listed, and has an FSM if it
\* waits for push_back; nothing is in hand, nor listed, after the disconnection.
InHand ==
  /\ rpc = "accept" <=> joining = None
  /\ joining \notin nodes
  /\ shutdown => rpc = "accept" /\ nodes = {}

\* Up to the first reset action a node has its FSM from call_back on, and only one.
Registered ==
  resets = 0 =>
    /\ pc \in {"run", "event", "visitVM", "visitSVM"}
    /\ ~shutdown => \A n \in Nodes :
         fsms[n] = IF n \in nodes \/ (n = joining /\ rpc = "push") THEN 1 ELSE 0

RegistryInv == TypeOK /\ InHand /\ Registered

-----------------------------------------------------------------------------
LEMMA RegistryInit == Init => RegistryInv
<1> SUFFICES ASSUME Init PROVE RegistryInv
  OBVIOUS
<1>1. shutdown \in BOOLEAN /\ aborted \in BOOLEAN
  BY Zenon DEF Init
<1>2. TypeOK
  BY RegistrarAssumption, <1>1 DEF Init, TypeOK
<1>3. InHand
  BY DEF Init, InHand
<1>4. Registered
  BY RegistrarAssumption DEF Init, Registered
<1> QED BY <1>2, <1>3, <1>4 DEF RegistryInv

LEMMA TypesStep == RegistryInv /\ [Next]_vars => TypeOK'
<1> SUFFICES ASSUME TypeOK, InHand, [Next]_vars PROVE TypeOK'
  BY DEF RegistryInv
<1> USE RegistrarAssumption DEF TypeOK
<1>1. CASE HasNodes
  BY <1>1 DEF HasNodes
<1>2. CASE DispatchBegin
  BY <1>2 DEF DispatchBegin, Listed, Nodes
<1>3. CASE DispatchNext
  BY <1>3 DEF DispatchNext, Listed, Nodes
<1>4. CASE ClearVMs
  BY <1>4 DEF ClearVMs
<1>5. CASE ClearSVMs
  BY <1>5 DEF ClearSVMs
<1>6. CASE LockRegistrar
  BY <1>6 DEF LockRegistrar
<1>7. CASE ResetEnd
  BY <1>7 DEF ResetEnd
<1>8. CASE \E n \in Nodes : Visit(n)
  BY Zenon, <1>8 DEF Visit
<1>9. CASE \E n \in Nodes : RegisterAgain(n)
  BY <1>9 DEF RegisterAgain
<1>10. CASE CallBack
  BY <1>10 DEF CallBack, InHand
<1>11. CASE PushBack
  BY <1>11 DEF PushBack, InHand
<1>12. CASE Disconnect
  BY <1>12 DEF Disconnect
<1>13. CASE \E n \in Nodes : Accept(n)
  BY <1>13 DEF Accept
<1>14. CASE UNCHANGED vars
  BY <1>14 DEF vars
<1> QED
  BY <1>1, <1>2, <1>3, <1>4, <1>5, <1>6, <1>7, <1>8, <1>9, <1>10, <1>11, <1>12, <1>13, <1>14
     DEF Next, DispatchThread, RegistrarThread, Idle

LEMMA InHandStep == RegistryInv /\ [Next]_vars => InHand'
<1> SUFFICES ASSUME TypeOK, InHand, [Next]_vars PROVE InHand'
  BY DEF RegistryInv
<1> USE RegistrarAssumption DEF InHand
<1>1. CASE DispatchThread
  <2>1. UNCHANGED <<rpc, joining, nodes, shutdown>>
    BY Zenon, <1>1 DEF DispatchThread, HasNodes, DispatchBegin, DispatchNext, ClearVMs, ClearSVMs,
                LockRegistrar, ResetEnd, Visit, RegisterAgain
  <2> QED BY <2>1
<1>2. CASE CallBack
  BY <1>2 DEF CallBack
<1>3. CASE PushBack
  BY <1>3 DEF PushBack, TypeOK
<1>4. CASE Disconnect
  BY <1>4 DEF Disconnect
<1>5. CASE \E n \in Nodes : Accept(n)
  BY <1>5 DEF Accept
<1>6. CASE UNCHANGED vars
  BY <1>6 DEF vars
<1> QED
  BY <1>1, <1>2, <1>3, <1>4, <1>5, <1>6 DEF Next, RegistrarThread, Idle

LEMMA RegisteredStep == RegistryInv /\ [Next]_vars => Registered'
<1> SUFFICES ASSUME TypeOK, InHand, Registered, [Next]_vars, resets' = 0 PROVE Registered'
  BY DEF RegistryInv, Registered
<1> USE RegistrarAssumption DEF TypeOK, Registered
<1>1. CASE HasNodes
  BY <1>1 DEF HasNodes
<1>2. CASE DispatchBegin
  BY <1>2 DEF DispatchBegin
<1>3. CASE DispatchNext
  BY <1>3 DEF DispatchNext
<1>4. CASE ClearVMs
  BY <1>4 DEF ClearVMs
<1>5. CASE ClearSVMs
  BY <1>5 DEF ClearSVMs
<1>6. CASE LockRegistrar
  BY <1>6 DEF LockRegistrar
<1>7. CASE ResetEnd
  BY <1>7 DEF ResetEnd
<1>8. CASE \E n \in Nodes : Visit(n)
  BY <1>8 DEF Visit
<1>9. CASE \E n \in Nodes : RegisterAgain(n)
  BY <1>9 DEF RegisterAgain
<1>10. CASE CallBack
  BY <1>10 DEF CallBack, InHand
<1>11. CASE PushBack
  BY <1>11 DEF PushBack, InHand
<1>12. CASE Disconnect
  BY <1>12 DEF Disconnect
<1>13. CASE \E n \in Nodes : Accept(n)
  BY <1>13 DEF Accept
<1>14. CASE UNCHANGED vars
  BY <1>14 DEF vars
<1> QED
  BY <1>1, <1>2, <1>3, <1>4, <1>5, <1>6, <1>7, <1>8, <1>9, <1>10, <1>11, <1>12, <1>13, <1>14
     DEF Next, DispatchThread, RegistrarThread, Idle

\* The registry is as InHand and Registered say, whatever the two threads do.
LEMMA RegistryInvariant == Spec => []RegistryInv
<1>1. RegistryInv /\ [Next]_vars => RegistryInv'
  BY TypesStep, InHandStep, RegisteredStep DEF RegistryInv
<1> QED BY RegistryInit, <1>1, PTL DEF Spec

-----------------------------------------------------------------------------
\* The variables of the two threads of Dispatch have their types.
THEOREM RegistrarTypes == Spec => []TypeOK
<1>1. RegistryInv => TypeOK
  BY DEF RegistryInv
<1> QED BY RegistryInvariant, <1>1, PTL

\* node_registrar.cpp:131: calling back before pushing back gives every node that
\* DispatchFSM can see exactly one FSM, until the first reset action.
THEOREM OneFSMBeforeReset == Spec => []OneFSMUntilReset
<1>1. RegistryInv => OneFSMUntilReset
  <2> SUFFICES ASSUME TypeOK, InHand, Registered, resets = 0, NEW n \in nodes PROVE fsms[n] = 1
    BY DEF RegistryInv, OneFSMUntilReset, OneFSMPerNode
  <2> QED BY DEF TypeOK, InHand, Registered
<1> QED BY RegistryInvariant, <1>1, PTL

\* Under the guard it holds, a loop of dispatch or reset walks through a list or a
\* registry that no step of the other thread changes.
THEOREM WalksAreStable == Spec => StableWhileWalked
<1> DEFINE Stable ==
       /\ HoldsVMs /\ HoldsVMs' => \A n \in VMNodes : fsms'[n] = fsms[n]
       /\ HoldsSVMs /\ HoldsSVMs' => \A n \in SVMNodes : fsms'[n] = fsms[n]
       /\ HoldsRegistrar /\ HoldsRegistrar' => nodes' = nodes
<1>1. TypeOK /\ [Next]_vars => [Stable]_vars
  <2> SUFFICES ASSUME TypeOK, Next PROVE Stable
    OBVIOUS
  <2> USE DEF TypeOK, HoldsVMs, HoldsSVMs, HoldsRegistrar, Nodes
  <2>1. CASE DispatchThread
    BY Zenon, <2>1 DEF DispatchThread, HasNodes, DispatchBegin, DispatchNext, ClearVMs, ClearSVMs,
                LockRegistrar, ResetEnd, Visit, RegisterAgain
  <2>2. CASE CallBack
    BY <2>2, RegistrarAssumption DEF CallBack
  <2>3. CASE PushBack \/ Disconnect
    BY <2>3 DEF PushBack, Disconnect
  <2>4. CASE \E n \in Nodes : Accept(n)
    BY <2>4 DEF Accept
  <2>5. CASE Idle
    BY <2>5 DEF Idle, vars
  <2> QED BY <2>1, <2>2, <2>3, <2>4, <2>5 DEF Next, RegistrarThread
<1> QED BY RegistrarTypes, <1>1, PTL DEF Spec, StableWhileWalked

\* Once cluster_shutdown is served the registry stays empty, so that Dispatch::run finds no
\* node and begins no dispatch.
THEOREM NoDispatchAfterwards == Spec => NoDispatchAfterDisconnect
<1>1. RegistryInv /\ [Next]_vars => [shutdown /\ pc = "run" => pc' = "run"]_vars
  <2> SUFFICES ASSUME InHand, Next, shutdown, pc = "run" PROVE pc' = "run"
    BY DEF RegistryInv
  <2>1. nodes = {}
    BY DEF InHand
  <2> QED
    BY Zenon, <2>1 DEF Next, DispatchThread, RegistrarThread, HasNodes, DispatchBegin, DispatchNext,
                ClearVMs, ClearSVMs, LockRegistrar, ResetEnd, Visit, RegisterAgain, CallBack,
                PushBack, Disconnect, Accept, Idle, vars
<1> QED BY RegistryInvariant, <1>1, PTL DEF Spec, NoDispatchAfterDisconnect

=============================================================================
