------------------------------- MODULE VMNode -------------------------------
(***************************************************************************)
(* A VM node (lib/cluster/vm_node.cpp) and its QemuFSMs                    *)
(* (lib/cluster/vm_node_fsm.cpp): the poll loop, the requests the listener *)
(* serves, the asynchronous tasks and the VM processes.  Whoever runs      *)
(* poll(), and whoever serves a request, holds the node's lock.            *)
(*                                                                         *)
(* A QemuFSM has three regions.  st is the state of the first; term says   *)
(* that the second or the third is in Terminated, after which the back end *)
(* ignores every event; err says that the third is in Error.               *)
(***************************************************************************)
EXTENDS NodeContract, Sequences, FiniteSets

CONSTANTS
    Distributed,    \* options.mode.distributed
    Tests,          \* tests Dispatch may send
    Initial,        \* the test deduced from the guest's configuration
    None,           \* no test
    Faults,         \* what may go wrong: see FaultKinds
    MaxFaults,      \* bound: how many times
    MaxRounds       \* bound: resets

\* vm: the VM process exits; guest: crete-run in the guest drops the connection,
\* or its configuration gives no test; file: an operation on files or launching
\* the VM fails; race: as file, but between the two reads of is_prev_task_finished.
FaultKinds == {"vm", "guest", "file", "race"}

ASSUME VMNodeAssumption ==
    /\ Distributed \in BOOLEAN
    /\ Initial \notin Tests /\ None \notin Tests /\ Initial # None
    /\ Faults \subseteq FaultKinds
    /\ MaxFaults \in Nat /\ MaxRounds \in Nat

VARIABLES
    queue,      \* test_cases_: pushed at the end, popped at the head
    traces,     \* traces_, each named after the test it is of
    errors,     \* number of errors_
    active, commenced,
    target,     \* whether target_ is set
    vms,        \* vms_
    cur,        \* the instance poll() is visiting; 0 outside of poll()
    anyActive,  \* any_active of poll()
    exc,        \* the exception that exception_caught is handling
    joining,    \* reset() is waiting for the tasks of the old instances
    aborted,    \* the assertion that has aborted the process, or "no"
    given,      \* history: tests received or deduced, in order, since the reset
    delivered,  \* history: traces sent to Dispatch since the reset
    faults,     \* faults that may still happen
    round       \* number of resets

vars == <<queue, traces, errors, active, commenced, target, vms, cur, anyActive, exc,
          joining, aborted, given, delivered, faults, round>>

-----------------------------------------------------------------------------
Ids == 1..Instances

States == {"Start", "ValidateImage", "UpdateImage", "StartVM", "ConnectVM", "RxGuestData",
           "GuestDataRxed", "NextTest", "Testing", "StoreTrace", "Finished"}

\* AsyncTask.  A task that connects waits for the guest, then sends it the target.
\* A missed task has failed after is_prev_task_finished asked for an exception.
Running == {"running", "waiting", "open"}
Tasks == Running \cup {"done", "failVM", "fail", "missed"}

\* task belongs to st, conn to NextTest.  trace is the content of trace_, ready the
\* file that signals a finished trace.
VM == [st : States, term : BOOLEAN, err : BOOLEAN, task : Tasks, conn : Tasks,
       proc : {"none", "up", "dead"}, first : BOOLEAN, test : Tests \cup {Initial, None},
       trace : Tests \cup {Initial, None}, ready : BOOLEAN]

NewVM == [st |-> "Start", term |-> FALSE, err |-> FALSE, task |-> "done", conn |-> "done",
          proc |-> "none", first |-> FALSE, test |-> None, trace |-> None, ready |-> FALSE]

\* ev::start: clean, init and, in developer mode, read_vm_pid.
Started(first) ==
    [NewVM EXCEPT !.first = first,
                  !.st = IF Distributed THEN "ValidateImage" ELSE "ConnectVM",
                  !.proc = IF Distributed THEN "none" ELSE "up"]

\* The flags next_test and terminated are off.
Busy(vm) == vm.st # "NextTest" /\ ~vm.term

Killed(vm) == [vm EXCEPT !.proc = IF @ = "up" THEN "dead" ELSE @]

Init ==
    /\ queue = <<>> /\ traces = <<>> /\ errors = 0
    /\ active = TRUE /\ commenced = FALSE /\ target = FALSE
    /\ vms = [i \in Ids |-> NewVM]
    /\ cur = 0 /\ anyActive = FALSE /\ exc = "none"
    /\ joining = FALSE /\ aborted = "no"
    /\ given = <<>> /\ delivered = <<>> /\ faults = MaxFaults /\ round = 0

-----------------------------------------------------------------------------
(* poll().                                                                 *)

Free == cur = 0 /\ ~joining /\ aborted = "no"

PollBegin ==
    /\ Free /\ commenced
    /\ cur' = 1 /\ anyActive' = FALSE
    /\ UNCHANGED <<queue, traces, errors, active, commenced, target, vms, exc, joining,
                   aborted, given, delivered, faults, round>>

PollEnd ==
    /\ cur = Instances + 1 /\ aborted = "no"
    /\ cur' = 0 /\ active' = anyActive
    /\ UNCHANGED <<queue, traces, errors, commenced, target, vms, anyActive, exc, joining,
                   aborted, given, delivered, faults, round>>

Fault(kind) == kind \in Faults /\ faults > 0 /\ faults' = faults - 1

Visiting(i) == cur = i /\ exc = "none" /\ aborted = "no"

\* Mutant of AnyActive: only the last instance counts.
LastActive(vm) == Busy(vm)

AnyActive(vm) == anyActive \/ Busy(vm)

\* The visit ends with vm as instance i.
Leave(i, vm) ==
    /\ vms' = [vms EXCEPT ![i] = vm]
    /\ cur' = i + 1
    /\ anyActive' = AnyActive(vm)
    /\ UNCHANGED <<active, commenced, target, joining, aborted, delivered, faults, round>>

\* A guard or an action throws: "failVM" is a VMException, "fail" and "clean" any other.
Throw(i, vm, e) ==
    /\ vms' = [vms EXCEPT ![i] = vm]
    /\ exc' = e
    /\ UNCHANGED <<active, commenced, target, cur, anyActive, joining, aborted, delivered,
                   round>>

Abort(assertion) ==
    /\ aborted' = assertion
    /\ UNCHANGED <<active, commenced, target, vms, cur, anyActive, joining, delivered, faults,
                   round>>

\* exception_caught.  In distributed mode it reads the VM's output to the end: it
\* waits for the VM to exit, and get_stdout() asserts that there is a VM.  Then the
\* regions of the FSM process ev::error or ev::terminate.  "clean" is thrown before
\* init has stored the options, so that the mode is taken for developer mode.
Handle(i) ==
    LET vm == vms[i]
        reads == Distributed /\ exc # "clean"
    IN  /\ cur = i /\ exc # "none" /\ aborted = "no"
        /\ reads => vm.proc # "up"
        /\ exc' = "none"
        /\ \/ reads /\ vm.proc = "none" /\ Abort("get_stdout")
           \/ ~(reads /\ vm.proc = "none") /\ exc = "failVM" /\ vm.err /\ Abort("no_transition")
           \/ /\ ~(reads /\ vm.proc = "none") /\ exc = "failVM" /\ ~vm.err
              /\ Leave(i, IF Distributed THEN Killed([vm EXCEPT !.err = TRUE])
                                         ELSE [vm EXCEPT !.term = TRUE])
           \/ /\ ~(reads /\ vm.proc = "none") /\ exc # "failVM"
              /\ Leave(i, Killed([vm EXCEPT !.term = TRUE]))
        /\ UNCHANGED <<queue, traces, errors, given>>

\* Mutant of Passes: a task that has failed is taken for finished.
PassesFailed(task) == task \notin Running

\* is_prev_task_finished: it asks for an exception, which it throws, and then
\* whether the task is finished.
Passes(task) == task \in {"done", "missed"}
Failed(task) == task \in {"failVM", "fail"}

\* Mutant of TraceQueued: the event is not processed.
TraceKept(vm) == vm

\* ev::trace_queued.
TraceQueued(vm) == [vm EXCEPT !.st = "NextTest", !.test = None]

VisitFinished(i) ==
    LET vm == vms[i]
    IN  /\ Visiting(i) /\ vm.st = "Finished"
        /\ traces' = Append(traces, vm.trace)
        /\ Leave(i, TraceQueued(vm))
        /\ UNCHANGED <<queue, errors, exc, given>>

\* start_test.
StartTest(i, vm, t) ==
    \/ Leave(i, [vm EXCEPT !.st = "Testing", !.test = t]) /\ UNCHANGED exc
    \/ vm.proc # "up" /\ Throw(i, vm, "failVM") /\ UNCHANGED faults
    \/ vm.proc = "up" /\ Throw(i, vm, "failVM") /\ Fault("guest")
    \/ Throw(i, vm, "fail") /\ Fault("file")

\* Mutant of Rejected: the test is not pushed again.
RejectedLost(t) == Tail(queue)

Rejected(t) == Append(Tail(queue), t)

\* Only a rejected test is pushed again: one that a terminated FSM ignores, or whose
\* guard or action throws, counts as handled.
VisitNextTest(i) ==
    LET vm == vms[i]
        t == Head(queue)
    IN  /\ Visiting(i) /\ vm.st = "NextTest"
        /\ \/ queue = <<>> /\ Leave(i, vm) /\ UNCHANGED <<queue, exc>>
           \/ queue # <<>> /\ vm.term /\ queue' = Tail(queue) /\ Leave(i, vm) /\ UNCHANGED exc
           \/ /\ queue # <<>> /\ ~vm.term /\ vm.conn \in Running
              /\ queue' = Rejected(t)
              /\ Leave(i, vm) /\ UNCHANGED exc
           \/ /\ queue # <<>> /\ ~vm.term /\ Failed(vm.conn)
              /\ queue' = Tail(queue) /\ Throw(i, vm, vm.conn) /\ UNCHANGED faults
           \/ /\ queue # <<>> /\ ~vm.term /\ Passes(vm.conn)
              /\ queue' = Tail(queue)
              /\ StartTest(i, [vm EXCEPT !.conn = IF @ = "missed" THEN "failVM" ELSE @], t)
        /\ UNCHANGED <<traces, errors, given>>

VisitFirst(i) ==
    LET vm == vms[i]
    IN  /\ Visiting(i) /\ vm.st = "GuestDataRxed"
        /\ queue' = Append(queue, Initial)
        /\ given' = Append(given, Initial)
        /\ Leave(i, [vm EXCEPT !.st = "NextTest"])
        /\ UNCHANGED <<traces, errors, exc>>

\* The instance is replaced by one that is not a first instance.
VisitError(i) ==
    /\ Visiting(i) /\ vms[i].st \notin {"Finished", "NextTest", "GuestDataRxed"} /\ vms[i].err
    /\ errors' = errors + 1
    /\ \/ Leave(i, Started(FALSE)) /\ UNCHANGED exc
       \/ \E e \in {"clean", "fail"} : Throw(i, NewVM, e) /\ Fault("file")
    /\ UNCHANGED <<queue, traces, given>>

VisitTerminated(i) ==
    /\ Visiting(i) /\ vms[i].st \notin {"Finished", "NextTest", "GuestDataRxed"}
    /\ ~vms[i].err /\ vms[i].term
    /\ Leave(i, vms[i])
    /\ UNCHANGED <<queue, traces, errors, exc, given>>

\* connect_vm.
Connect(i, vm) ==
    \/ vm.proc # "up" /\ Throw(i, vm, "failVM") /\ UNCHANGED faults
    \/ /\ vm.proc = "up"
       /\ Leave(i, IF vm.first THEN [vm EXCEPT !.st = "RxGuestData", !.task = "waiting"]
                               ELSE [vm EXCEPT !.st = "NextTest", !.conn = "waiting"])
       /\ UNCHANGED exc

\* receive_guest_info.
ReceiveGuestInfo(i, vm) ==
    \/ vm.proc = "up" /\ Leave(i, [vm EXCEPT !.st = "GuestDataRxed"]) /\ UNCHANGED exc
    \/ vm.proc # "up" /\ Throw(i, vm, "failVM") /\ UNCHANGED faults
    \/ vm.proc = "up" /\ \E e \in {"failVM", "fail"} : Throw(i, vm, e) /\ Fault("guest")

\* ev::poll in a state whose row asks is_prev_task_finished.
PollTask(i) ==
    LET vm == vms[i]
    IN  \/ Failed(vm.task) /\ Throw(i, vm, vm.task) /\ UNCHANGED faults
        \/ vm.task \in Running /\ Leave(i, vm) /\ UNCHANGED exc
        \/ /\ Passes(vm.task)
           /\ \/ /\ vm.st = "StartVM"
                 /\ Leave(i, [vm EXCEPT !.st = "ConnectVM", !.task = "running"])
                 /\ UNCHANGED exc
              \/ /\ vm.st = "ConnectVM"
                 /\ IF Distributed /\ ~target THEN Leave(i, vm) /\ UNCHANGED exc
                                              ELSE Connect(i, vm)
              \/ vm.st = "RxGuestData" /\ ReceiveGuestInfo(i, vm)
              \/ /\ vm.st = "StoreTrace"
                 /\ Leave(i, [vm EXCEPT !.st = "Finished"]) /\ UNCHANGED exc

\* Mutant of Pollable: the flag error is not looked at.
PollableInError(vm) == ~vm.term

Pollable(vm) == ~vm.err /\ ~vm.term

VisitPoll(i) ==
    LET vm == vms[i]
    IN  /\ Visiting(i) /\ Pollable(vm)
        /\ \/ vm.st = "ValidateImage" /\ Leave(i, [vm EXCEPT !.st = "UpdateImage"]) /\ UNCHANGED exc
           \/ vm.st = "ValidateImage" /\ Leave(i, [vm EXCEPT !.st = "StartVM"]) /\ UNCHANGED exc
           \/ vm.st = "ValidateImage" /\ Throw(i, vm, "fail") /\ Fault("file")
           \/ /\ vm.st = "UpdateImage"
              /\ Leave(i, [vm EXCEPT !.st = "StartVM", !.task = "running"]) /\ UNCHANGED exc
           \/ vm.st \in {"StartVM", "ConnectVM", "RxGuestData", "StoreTrace"} /\ PollTask(i)
           \/ vm.st = "Testing" /\ vm.proc # "up" /\ Throw(i, vm, "failVM") /\ UNCHANGED faults
           \/ /\ vm.st = "Testing" /\ vm.proc = "up"
              /\ Leave(i, IF vm.ready THEN [vm EXCEPT !.st = "StoreTrace", !.task = "running"]
                                      ELSE vm)
              /\ UNCHANGED exc
        /\ UNCHANGED <<queue, traces, errors, given>>

Visit(i) ==
    \/ VisitFinished(i) \/ VisitNextTest(i) \/ VisitFirst(i) \/ VisitError(i)
    \/ VisitTerminated(i) \/ VisitPoll(i) \/ Handle(i)

-----------------------------------------------------------------------------
(* Tasks, and the VM processes.                                            *)

\* The task of state s of an instance ends well: update_image in StartVM, start_vm
\* in ConnectVM, connect_vm in RxGuestData and NextTest, store_trace in StoreTrace.
TaskDone(i) ==
    /\ vms[i].task = "running"
    /\ vms' = [vms EXCEPT ![i] =
                 CASE @.st = "ConnectVM" -> [@ EXCEPT !.task = "done", !.proc = "up"]
                   [] @.st = "StoreTrace" -> [@ EXCEPT !.task = "done", !.trace = vms[i].test,
                                                       !.ready = FALSE]
                   [] OTHER -> [@ EXCEPT !.task = "done"]]
    /\ UNCHANGED faults

TaskFails(i) ==
    /\ vms[i].task = "running"
    /\ \/ vms' = [vms EXCEPT ![i].task = "fail"] /\ Fault("file")
       \/ Visiting(i) /\ vms' = [vms EXCEPT ![i].task = "missed"] /\ Fault("race")

\* connect_vm: open_connection_wait, then the removal of the port file and the writes.
SetTask(i, f, v) == vms' = [vms EXCEPT ![i] = [@ EXCEPT ![f] = v]]

ConnectStep(i, f) ==
    LET vm == vms[i]
    IN  /\ \/ vm[f] = "waiting" /\ vm.proc = "up" /\ SetTask(i, f, "open")
           \/ vm[f] = "open" /\ SetTask(i, f, "done")
           \/ vm[f] = "open" /\ vm.proc # "up" /\ SetTask(i, f, "failVM")
        /\ UNCHANGED faults

ConnectFails(i, f) ==
    /\ vms[i][f] = "open"
    /\ \/ SetTask(i, f, "failVM") /\ Fault("guest")
       \/ SetTask(i, f, "fail") /\ Fault("file")
       \/ Visiting(i) /\ SetTask(i, f, "missed") /\ Fault("race")

\* The guest signals that the trace of the test is complete.
TraceReady(i) ==
    /\ vms[i].st = "Testing" /\ vms[i].proc = "up" /\ ~vms[i].ready
    /\ vms' = [vms EXCEPT ![i].ready = TRUE]
    /\ UNCHANGED faults

VMExits(i) ==
    /\ vms[i].proc = "up"
    /\ vms' = [vms EXCEPT ![i].proc = "dead"]
    /\ Fault("vm")

Progress(i) ==
    /\ TaskDone(i) \/ TraceReady(i) \/ \E f \in {"task", "conn"} : ConnectStep(i, f)
    /\ aborted = "no"
    /\ UNCHANGED <<queue, traces, errors, active, commenced, target, cur, anyActive, exc,
                   joining, aborted, given, delivered, round>>

Mishap(i) ==
    /\ TaskFails(i) \/ VMExits(i) \/ \E f \in {"task", "conn"} : ConnectFails(i, f)
    /\ aborted = "no"
    /\ UNCHANGED <<queue, traces, errors, active, commenced, target, cur, anyActive, exc,
                   joining, aborted, given, delivered, round>>

\* store_trace asserts that there was a link runtime-dump-last to remove: QEMU has none
\* when it signals a trace of which no block was kept.  The thread of the task takes the
\* node with it, whatever the poll loop is at.
StoreTraceAsserts(i) ==
    /\ aborted = "no" /\ vms[i].st = "StoreTrace" /\ vms[i].task = "running"
    /\ aborted' = "store_trace" /\ Fault("file")
    /\ UNCHANGED <<queue, traces, errors, active, commenced, target, vms, cur, anyActive, exc,
                   joining, given, delivered, round>>

-----------------------------------------------------------------------------
(* The requests of Dispatch, in the order DispatchFSM and VMNodeFSM send   *)
(* them (Dispatch: ResetBeforeResults).                                    *)

\* receive_target, in distributed mode.
NextTarget ==
    /\ Free /\ ~commenced /\ Distributed /\ ~target
    /\ target' = TRUE
    /\ UNCHANGED <<queue, traces, errors, active, commenced, vms, cur, anyActive, exc,
                   joining, aborted, given, delivered, faults, round>>

\* start_FSMs; commence.  vm_num is incremented in distributed mode only, so that
\* every instance of developer mode is a first one.  For bad instances, see Handle.
CommenceRequest ==
    /\ Free /\ ~commenced
    /\ commenced' = TRUE
    /\ \E bad \in SUBSET Ids :
        /\ bad # {} => "file" \in Faults /\ Cardinality(bad) <= faults
        /\ faults' = faults - Cardinality(bad)
        /\ vms' = [i \in Ids |-> IF i \in bad THEN [vms[i] EXCEPT !.term = TRUE]
                                 ELSE Started(i = 1 \/ ~Distributed)]
        /\ \/ UNCHANGED aborted
           \/ bad # {} /\ Distributed /\ aborted' = "get_stdout"
    /\ UNCHANGED <<queue, traces, errors, active, target, cur, anyActive, exc, joining,
                   given, delivered, round>>

\* reset() kills the VMs and clears the queues, and vms_.clear() joins the threads
\* of the tasks (ResetEnd), all under the lock.
ResetBegin ==
    /\ Free /\ commenced /\ round < MaxRounds
    /\ vms' = [i \in Ids |-> IF vms[i].term THEN vms[i] ELSE Killed([vms[i] EXCEPT !.term = TRUE])]
    /\ commenced' = FALSE /\ queue' = <<>> /\ traces' = <<>> /\ active' = TRUE
    /\ joining' = TRUE /\ round' = round + 1
    /\ given' = <<>> /\ delivered' = <<>>
    /\ UNCHANGED <<errors, target, cur, anyActive, exc, aborted, faults>>

\* Mutant of ResetEnd: a task that has failed is waited for.
ResetEndWaiting ==
    /\ joining /\ aborted = "no"
    /\ \A i \in Ids : vms[i].task = "done" /\ vms[i].conn = "done"
    /\ vms' = [i \in Ids |-> NewVM]
    /\ joining' = FALSE
    /\ UNCHANGED <<queue, traces, errors, active, commenced, target, cur, anyActive, exc,
                   aborted, given, delivered, faults, round>>

ResetEnd ==
    /\ joining /\ aborted = "no"
    /\ \A i \in Ids : vms[i].task \notin Running /\ vms[i].conn \notin Running
    /\ vms' = [i \in Ids |-> NewVM]
    /\ joining' = FALSE
    /\ UNCHANGED <<queue, traces, errors, active, commenced, target, cur, anyActive, exc,
                   aborted, given, delivered, faults, round>>

ReceiveTest(t) ==
    /\ Free /\ commenced /\ \A i \in 1..Len(given) : given[i] # t
    /\ queue' = Append(queue, t)
    /\ given' = Append(given, t)
    /\ UNCHANGED <<traces, errors, active, commenced, target, vms, cur, anyActive, exc,
                   joining, aborted, delivered, faults, round>>

TransmitTraces ==
    /\ Free /\ commenced
    /\ \E k \in 1..Len(traces) :
        /\ delivered' = delivered \o SubSeq(traces, 1, k)
        /\ traces' = SubSeq(traces, k + 1, Len(traces))
    /\ UNCHANGED <<queue, errors, active, commenced, target, vms, cur, anyActive, exc,
                   joining, aborted, given, faults, round>>

\* Mutant of TransmitErrorLogs: the emptiness of errors_ is not checked.
TransmitAnyErrorLog ==
    /\ Free
    /\ errors' = errors - 1
    /\ UNCHANGED <<queue, traces, active, commenced, target, vms, cur, anyActive, exc,
                   joining, aborted, given, delivered, faults, round>>

TransmitErrorLogs ==
    /\ Free
    /\ \E k \in 1..errors : errors' = errors - k
    /\ UNCHANGED <<queue, traces, active, commenced, target, vms, cur, anyActive, exc,
                   joining, aborted, given, delivered, faults, round>>

Requests ==
    \/ NextTarget \/ CommenceRequest \/ ResetBegin \/ TransmitTraces \/ TransmitErrorLogs
    \/ \E t \in Tests : ReceiveTest(t)

Aborted == aborted # "no" /\ UNCHANGED vars

Poll == PollBegin \/ PollEnd \/ \E i \in Ids : Visit(i)

Next ==
    \/ Poll \/ ResetEnd \/ Requests \/ Aborted
    \/ \E i \in Ids : Progress(i) \/ Mishap(i) \/ StoreTraceAsserts(i)

Spec == Init /\ [][Next]_vars

\* The poll loop runs for ever, tasks and guests proceed; nothing makes Dispatch ask.
Fairness ==
    /\ WF_vars(Poll) /\ WF_vars(ResetEnd)
    /\ \A i \in Ids : WF_vars(Progress(i))

FairSpec == Spec /\ Fairness

-----------------------------------------------------------------------------
(* Properties.                                                             *)

TypeOK ==
    /\ queue \in Seq(Tests \cup {Initial}) /\ traces \in Seq(Tests \cup {Initial, None})
    /\ errors \in Nat /\ faults \in 0..MaxFaults /\ round \in 0..MaxRounds
    /\ {active, commenced, target, anyActive, joining} \subseteq BOOLEAN
    /\ vms \in [Ids -> VM] /\ cur \in 0..(Instances + 1)
    /\ exc \in {"none", "failVM", "fail", "clean"}
    /\ aborted \in {"no", "get_stdout", "no_transition", "store_trace"}
    /\ given \in Seq(Tests \cup {Initial}) /\ delivered \in Seq(Tests \cup {Initial, None})

Times(t, s) == Cardinality({k \in 1..Len(s) : s[k] = t})

\* A test is with an instance from start_test until its trace is queued.
Holders(t) ==
    {i \in Ids : ~joining /\ vms[i].test = t /\ vms[i].st \in {"Testing", "StoreTrace", "Finished"}}

Places(t) == Times(t, queue) + Cardinality(Holders(t)) + Times(t, traces) + Times(t, delivered)

\* poll(): with VMs that fail, a test may be lost, but is not run or reported twice:
\* a test that is popped is pushed again only if no instance has taken it.
NotDuplicated == \A t \in Tests \cup {Initial} : Places(t) <= Times(t, given)

Unfailed == faults = MaxFaults

\* poll(): as long as nothing has failed, no test is lost on the way from the test
\* queue through an instance to the trace queue and Dispatch.
NotLost == Unfailed => \A t \in Tests \cup {Initial} : Places(t) = Times(t, given)

\* vm_node_fsm.cpp:262, of trace_: "To be read when is_flag_active<trace_ready>() ==
\* true": poll() reads the trace of the test that the instance has run.
TraceIsOfTest == \A i \in Ids : vms[i].st = "Finished" => vms[i].trace = vms[i].test

\* An instance in Error is replaced before it meets another event, unless it is in
\* NextTest, where poll() does not look at the flag: ev::error has no transition in
\* Error, and the second one aborts the node.
AbortOnlyInNextTest ==
    aborted = "no_transition" => \E i \in Ids : vms[i].err /\ vms[i].st = "NextTest"

\* node.h:32: "trace and test queues are inserted and removed in FIFO fashion": the
\* tests that wait are the last ones given, in the order in which they were given.
TestsInOrder == queue = SubSeq(given, Len(given) - Len(queue) + 1, Len(given))

\* When nothing fails and the node was told its target, every test that it was given
\* is traced, under the polling of NodeDriver::run_node, unless a reset discards it.
EveryTestTraced ==
    \A t \in Tests :
        (target /\ Times(t, given) > 0)
          ~> (Times(t, traces \o delivered) > 0 \/ Times(t, given) = 0 \/ ~Unfailed)

\* vm_node_fsm.cpp:915 says of the wait for the guest's connection that it has no
\* timeout.  It is all that reset(), which joins the tasks of the old instances, can be
\* stuck on: tasks that fail or go on after the VM was killed do not hold it up (one that
\* fails the assertion of store_trace ends the node).
ResetReturns ==
    joining ~> \/ ~joining \/ aborted = "store_trace"
               \/ \E i \in Ids : vms[i].proc # "up" /\ "waiting" \in {vms[i].task, vms[i].conn}

\* The node is a WorkNode: what Dispatch assumes of a VM node holds of VMNode.
Booting == {"Start", "ValidateImage", "UpdateImage", "StartVM", "ConnectVM", "RxGuestData",
            "GuestDataRxed"}

BusyIds == {i \in Ids : commenced /\ Busy(vms[i])}

Contract == INSTANCE WorkNode WITH
    node <- [inq |-> Len(queue), busy |-> Cardinality(BusyIds),
             seeds |-> Cardinality({i \in BusyIds : vms[i].first /\ vms[i].st \in Booting}),
             out |-> Len(traces), errs |-> errors,
             active |-> active, commenced |-> commenced, polling |-> cur > 0]

ImplementsWorkNode == Contract!Spec
-----------------------------------------------------------------------------
(* The inductive invariant behind these properties.                        *)

\* An instance that poll() may visit: only a first instance talks to the guest about
\* its configuration, what poll() looks at without looking at the flags is neither in
\* Error nor terminated, and an instance in Error is not terminated before it is replaced.
Sound(vm) ==
    /\ vm.st \in {"RxGuestData", "GuestDataRxed"} => vm.first
    /\ vm.st \in {"GuestDataRxed", "Finished"} => ~vm.err /\ ~vm.term
    /\ vm.err /\ vm.st # "NextTest" => ~vm.term

\* Without the race on is_prev_task_finished, store_trace ends before its trace is used.
Traced(vm) ==
    /\ vm.st = "StoreTrace" => /\ vm.task \in {"running", "done", "fail"}
                               /\ vm.task = "done" => vm.trace = vm.test
    /\ vm.st = "Finished" => vm.trace = vm.test

\* As long as nothing has failed, no task has, and the VM runs from start_vm on.
Calm(vm) ==
    /\ ~vm.err /\ ~vm.term /\ {vm.task, vm.conn} \subseteq Running \cup {"done"}
    /\ vm.st = "ConnectVM" => vm.task = "running" \/ vm.proc = "up"
    /\ "open" \in {vm.task, vm.conn} => vm.proc = "up"
    /\ vm.st \in {"RxGuestData", "GuestDataRxed", "NextTest", "Testing", "StoreTrace", "Finished"}
         => vm.proc = "up"

\* is_prev_task_finished has not met the race.
NoRace == "race" \notin Faults \/ Unfailed

Instance(vm) ==
    /\ ~joining => Sound(vm)
    /\ NoRace => Traced(vm)
    /\ ~joining /\ Unfailed => Calm(vm)

\* The exception being handled is one of the instance that poll() is visiting.
Handling ==
    /\ ~Unfailed /\ cur \in Ids
    /\ ~vms[cur].term /\ vms[cur].st \notin {"GuestDataRxed", "Finished"}
    /\ vms[cur].err => vms[cur].st = "NextTest"

Polling ==
    /\ cur > 0 => commenced /\ ~joining
    /\ cur > 0 => (anyActive <=> \E j \in Ids : j < cur /\ Busy(vms[j]))
    /\ joining => ~commenced
    /\ ~joining /\ ~commenced => \A i \in Ids : vms[i] = NewVM
    /\ exc # "none" => Handling
    /\ aborted = "no_transition" => cur \in Ids /\ vms[cur].err /\ vms[cur].st = "NextTest"

\* What every step of the node preserves, whatever fails while poll() goes over its instances
\* and while reset() waits for their tasks: each instance is one that poll() may visit, and
\* the loop has counted the instances that it has visited.
NodeInv == TypeOK /\ (\A i \in Ids : Instance(vms[i])) /\ Polling
=============================================================================
