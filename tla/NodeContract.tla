---------------------------- MODULE NodeContract ----------------------------
(***************************************************************************)
(* What Dispatch relies on of a node, VM or SVM (crete::cluster::Node with *)
(* its poll() loop and its listener).  A node takes work items from an     *)
(* input queue, engages one of its instances (a QemuFSM or a KleeFSM) on   *)
(* each, and puts results in an output queue.  Only counts are kept: the   *)
(* status that Dispatch reads (NodeStatus) holds nothing else.             *)
(*                                                                         *)
(* A node is a record, so that Dispatch can hold one for each node.        *)
(* WorkNode is the specification of one node; VMNode and SVMNode are       *)
(* checked to implement it.                                                *)
(***************************************************************************)
EXTENDS Integers

CONSTANTS
    Instances,  \* number of VM or KLEE instances of a node: vm.count, svm.count
    MaxYield    \* most results one work item gives

ASSUME InstancesAssumption == Instances \in Nat \ {0}
ASSUME MaxYieldAssumption == MaxYield \in Nat \ {0}

\* inq: items waiting; busy: instances that are not waiting for an item;
\* seeds: instances among them that may still queue the initial test; out:
\* results waiting; errs: error logs waiting; active, commenced: the flags of
\* Node; polling: poll() is running and holds the node's lock.
NodeState ==
    [inq : Nat, busy : Nat, seeds : Nat, out : Nat, errs : Nat,
     active : BOOLEAN, commenced : BOOLEAN, polling : BOOLEAN]

NewNode ==
    [inq |-> 0, busy |-> 0, seeds |-> 0, out |-> 0, errs |-> 0,
     active |-> TRUE, commenced |-> FALSE, polling |-> FALSE]

-----------------------------------------------------------------------------
(* Requests the listener serves; each takes the node's lock.               *)

Reset(nd) ==
    [nd EXCEPT !.inq = 0, !.busy = 0, !.seeds = 0, !.out = 0,
               !.active = TRUE, !.commenced = FALSE]

\* b instances boot (those of an SVM node are ready at once: b = 0), and s of
\* them are first instances, which queue the initial test.
Commence(nd, b, s) == [nd EXCEPT !.commenced = TRUE, !.busy = b, !.seeds = s]

Receive(nd, k) == [nd EXCEPT !.inq = @ + k]
Transmit(nd, k) == [nd EXCEPT !.out = @ - k]
TransmitErrors(nd, k) == [nd EXCEPT !.errs = @ - k]

-----------------------------------------------------------------------------
(* The steps of poll(): the set of states a visit to one instance may lead *)
(* to.                                                                     *)

When(guard, S) == IF guard THEN S ELSE {}

\* An idle instance takes an item.
Engaged(nd) ==
    When(nd.inq > 0 /\ nd.busy < Instances,
         {[nd EXCEPT !.inq = nd.inq - 1, !.busy = nd.busy + 1]})

\* The item is popped, but the instance does not start on it.
Dropped(nd) ==
    When(nd.inq > 0, {[nd EXCEPT !.inq = @ - 1]})

\* A busy instance goes idle: done, booted, terminated, or replaced after an
\* error by one that is ready at once.
Released(nd) ==
    When(nd.busy > nd.seeds,
         {[nd EXCEPT !.busy = nd.busy - 1, !.out = nd.out + k, !.errs = nd.errs + e] :
            k \in 0..MaxYield, e \in {0, 1}})

\* A first instance goes idle, having queued the initial test or failed.
Seeded(nd) ==
    When(nd.busy > 0 /\ nd.seeds > 0,
         {[nd EXCEPT !.busy = nd.busy - 1, !.seeds = nd.seeds - 1, !.inq = nd.inq + k] :
            k \in {0, 1}})

\* A busy instance fails and is replaced by one that has to boot and is not a
\* first instance.
Replaced(nd) ==
    {[nd EXCEPT !.errs = nd.errs + 1, !.seeds = s] :
        s \in {t \in {nd.seeds - 1, nd.seeds} : 0 <= t /\ t < nd.busy}}

Visited(nd) ==
    Engaged(nd) \cup Dropped(nd) \cup Released(nd) \cup Seeded(nd) \cup Replaced(nd)

PollStarted(nd) == When(nd.commenced /\ ~nd.polling, {[nd EXCEPT !.polling = TRUE]})

\* Mutant of PollEnded: the flag is not updated.
PollEndedActive(nd) == When(nd.polling, {[nd EXCEPT !.polling = FALSE]})

\* active() is called once, after every instance was visited.
PollEnded(nd) ==
    When(nd.polling, {[nd EXCEPT !.polling = FALSE, !.active = nd.busy > 0]})

Polled(nd) ==
    PollStarted(nd) \cup PollEnded(nd) \cup When(nd.polling, Visited(nd))

=============================================================================
