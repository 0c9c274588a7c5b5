------------------------------ MODULE SVMNode -------------------------------
(***************************************************************************)
(* An SVM node (lib/cluster/svm_node.cpp) and its KleeFSMs                 *)
(* (lib/cluster/svm_node_fsm.cpp): the poll loop, the requests the         *)
(* listener serves, and the asynchronous tasks.  Whoever runs poll(), and  *)
(* whoever serves a request, holds the node's lock.                        *)
(*                                                                         *)
(* SVMNode does not override reset(): its KleeFSMs, and the tasks they     *)
(* have started, outlive it.  The next start() takes the FSM back to its   *)
(* initial states, but each state keeps its task, and the FSM its tests_.  *)
(***************************************************************************)
EXTENDS NodeContract, Sequences, FiniteSets

CONSTANTS
    Traces,         \* traces Dispatch may send
    None,           \* no trace
    Faults,         \* what may go wrong: see FaultKinds
    MaxFaults,      \* bound: how many times
    MaxRounds       \* bound: resets

\* svm: an SVMException, KLEE failing for one; other: any other exception; race: a
\* task fails between the two reads of is_prev_task_finished.
FaultKinds == {"svm", "other", "race"}

ASSUME SVMNodeAssumption ==
    /\ None \notin Traces /\ Faults \subseteq FaultKinds
    /\ MaxFaults \in Nat /\ MaxRounds \in Nat

VARIABLES
    queue,      \* traces_
    tests,      \* test_cases_, each named after the trace it was generated from
    errors,     \* number of errors_
    active, commenced,
    svms,       \* svms_
    cur,        \* the instance poll() is visiting; 0 outside of poll()
    anyActive,  \* any_active of poll()
    joining,    \* the visit is waiting for the old task of the state it enters
    aborted,    \* exception_caught has asserted
    received,   \* history: traces received since the reset
    sent,       \* history: traces received before
    faults,     \* faults that may still happen
    round       \* number of resets

vars == <<queue, tests, errors, active, commenced, svms, cur, anyActive, joining, aborted,
          received, sent, faults, round>>

-----------------------------------------------------------------------------
Ids == 1..Instances

\* Prepare, ..., Finished hold a task: to_file, prepare, execute_concolic,
\* execute_symbolic, retrieve_result.
Stages == <<"Prepare", "ExecuteConcolic", "ExecuteSymbolic", "StoreTests", "Finished">>
States == {"Start", "NextTrace", "ResultReady"} \cup {Stages[k] : k \in 1..5}
After(st) ==
    LET k == CHOOSE j \in 1..5 : Stages[j] = st
    IN  IF k = 5 THEN "ResultReady" ELSE Stages[k + 1]

Tasks == {"running", "done", "svm", "other", "missed"}

\* The tests_ of an instance: n tests generated from trace of.
TestSet == [of : Traces \cup {None}, n : 0..MaxYield]

\* old: tasks of the instance that a reset left running, with their state and trace.
SVM == [st : States, err : BOOLEAN, task : Tasks, trace : Traces \cup {None},
        found : TestSet, old : SUBSET [st : States, trace : Traces]]

NewSVM == [st |-> "Start", err |-> FALSE, task |-> "done", trace |-> None,
           found |-> [of |-> None, n |-> 0], old |-> {}]

\* start() and ev::start.
Started(svm) ==
    [svm EXCEPT !.st = "NextTrace", !.err = FALSE, !.task = "done", !.trace = None,
                !.old = IF svm.task = "running"
                        THEN svm.old \cup {[st |-> svm.st, trace |-> svm.trace]} ELSE svm.old]

Idle(svm) == svm.st = "NextTrace"

Init ==
    /\ queue = <<>> /\ tests = <<>> /\ errors = 0
    /\ active = TRUE /\ commenced = FALSE
    /\ svms = [i \in Ids |-> NewSVM]
    /\ cur = 0 /\ anyActive = FALSE /\ joining = FALSE /\ aborted = FALSE
    /\ received = {} /\ sent = {} /\ faults = MaxFaults /\ round = 0

-----------------------------------------------------------------------------
(* poll().                                                                 *)

Free == cur = 0 /\ ~aborted

PollBegin ==
    /\ Free /\ commenced
    /\ cur' = 1 /\ anyActive' = FALSE
    /\ UNCHANGED <<queue, tests, errors, active, commenced, svms, joining, aborted, received,
                   sent, faults, round>>

PollEnd ==
    /\ cur = Instances + 1
    /\ cur' = 0 /\ active' = anyActive
    /\ UNCHANGED <<queue, tests, errors, commenced, svms, anyActive, joining, aborted,
                   received, sent, faults, round>>

Visiting(i) == cur = i /\ ~joining /\ ~aborted

\* Mutant of AnyActive: only the last instance counts.
LastActive(svm) == ~Idle(svm)

AnyActive(svm) == anyActive \/ ~Idle(svm)

\* The visit ends with svm as instance i.
Leave(i, svm) ==
    /\ svms' = [svms EXCEPT ![i] = svm]
    /\ cur' = i + 1
    /\ anyActive' = AnyActive(svm)
    /\ UNCHANGED <<active, commenced, joining, aborted, received, sent, faults, round>>

\* async_task_.reset(new AsyncTask): the new task starts, then the destructor of the
\* one that the state held joins it.
Enter(i, svm) ==
    IF \E o \in svm.old : o.st = svm.st
    THEN /\ svms' = [svms EXCEPT ![i] = svm]
         /\ joining' = TRUE
         /\ UNCHANGED <<active, commenced, cur, anyActive, aborted, received, sent, faults, round>>
    ELSE Leave(i, svm)

Joined(i) ==
    /\ cur = i /\ joining /\ ~aborted
    /\ \A o \in svms[i].old : o.st # svms[i].st
    /\ joining' = FALSE /\ cur' = i + 1 /\ anyActive' = TRUE
    /\ UNCHANGED <<queue, tests, errors, active, commenced, svms, aborted, received, sent,
                   faults, round>>

VisitNextTrace(i) ==
    /\ Visiting(i) /\ svms[i].st = "NextTrace"
    /\ \/ queue = <<>> /\ Leave(i, svms[i]) /\ UNCHANGED queue
       \/ /\ queue # <<>> /\ queue' = Tail(queue)
          /\ Enter(i, [svms[i] EXCEPT !.st = "Prepare", !.trace = Head(queue), !.task = "running"])
    /\ UNCHANGED <<tests, errors>>

\* push(svm->tests()).
Pushed(svm) == tests \o [k \in 1..svm.found.n |-> svm.found.of]

VisitResultReady(i) ==
    /\ Visiting(i) /\ svms[i].st = "ResultReady"
    /\ tests' = Pushed(svms[i])
    /\ Leave(i, [svms[i] EXCEPT !.st = "NextTrace", !.trace = None])
    /\ UNCHANGED <<queue, errors>>

\* The old instance is destroyed once its tasks have ended; they touch nothing else.
VisitError(i) ==
    /\ Visiting(i) /\ svms[i].st \notin {"NextTrace", "ResultReady"} /\ svms[i].err
    /\ errors' = errors + 1
    /\ tests' = Pushed(svms[i])
    /\ Leave(i, Started(NewSVM))
    /\ UNCHANGED queue

\* Mutant of Passes: a task that has failed is taken for finished.
PassesFailed(task) == task # "running"

\* Mutant of Passes: the test of the flag is inverted.
PassesUnfinished(task) == task = "running"

\* is_prev_task_finished: it asks for an exception, which it throws, and then whether
\* the task is finished.
Passes(task) == task \in {"done", "missed"}

\* ev::poll.  exception_caught takes the tests of a
\* SymbolicExecException, and asserts if the exception is not an SVMException.
VisitPoll(i) ==
    LET svm == svms[i]
    IN  /\ Visiting(i) /\ svm.st \notin {"NextTrace", "ResultReady"} /\ ~svm.err
        /\ \/ svm.task = "running" /\ Leave(i, svm)
           \/ /\ Passes(svm.task)
              /\ IF svm.st = "Finished" THEN Leave(i, [svm EXCEPT !.st = "ResultReady"])
                 ELSE Enter(i, [svm EXCEPT !.st = After(svm.st), !.task = "running"])
           \/ /\ svm.task = "svm"
              /\ \/ Leave(i, [svm EXCEPT !.err = TRUE])
                 \/ /\ svm.st = "StoreTests"
                    /\ \E n \in 0..MaxYield :
                        Leave(i, [svm EXCEPT !.err = TRUE, !.found = [of |-> svm.trace, n |-> n]])
           \/ /\ svm.task = "other" /\ aborted' = TRUE
              /\ UNCHANGED <<active, commenced, svms, cur, anyActive, joining, received, sent,
                             faults, round>>
        /\ UNCHANGED <<queue, tests, errors>>

Visit(i) ==
    VisitNextTrace(i) \/ VisitResultReady(i) \/ VisitError(i) \/ VisitPoll(i) \/ Joined(i)

-----------------------------------------------------------------------------
(* Tasks.                                                                  *)

TaskDone(i) ==
    LET svm == svms[i]
    IN  /\ svm.task = "running"
        /\ \E n \in 0..MaxYield :
            svms' = [svms EXCEPT ![i] =
                        IF svm.st = "Finished"
                        THEN [svm EXCEPT !.task = "done", !.found = [of |-> svm.trace, n |-> n]]
                        ELSE [svm EXCEPT !.task = "done"]]

\* A task that a reset left running ends; retrieve_result still writes tests_.
OldTaskDone(i) ==
    LET svm == svms[i]
    IN  \E o \in svm.old, n \in 0..MaxYield :
            svms' = [svms EXCEPT ![i] =
                        IF o.st = "Finished"
                        THEN [svm EXCEPT !.old = svm.old \ {o}, !.found = [of |-> o.trace, n |-> n]]
                        ELSE [svm EXCEPT !.old = svm.old \ {o}]]

Progress(i) ==
    /\ ~aborted
    /\ TaskDone(i) \/ OldTaskDone(i)
    /\ UNCHANGED <<queue, tests, errors, active, commenced, cur, anyActive, joining, aborted,
                   received, sent, faults, round>>

\* to_file throws no SVMException.
TaskFails(i) ==
    /\ ~aborted /\ faults > 0 /\ faults' = faults - 1
    /\ svms[i].task = "running"
    /\ \/ "svm" \in Faults /\ svms[i].st # "Prepare" /\ svms' = [svms EXCEPT ![i].task = "svm"]
       \/ "other" \in Faults /\ svms' = [svms EXCEPT ![i].task = "other"]
       \/ "race" \in Faults /\ Visiting(i) /\ svms' = [svms EXCEPT ![i].task = "missed"]
    /\ UNCHANGED <<queue, tests, errors, active, commenced, cur, anyActive, joining, aborted,
                   received, sent, round>>

\* A task that a reset left running ends with an exception: it stays in the eptr_ of the
\* task, which no poll asks any more, and tests_ is not written.
OldTaskFails(i) ==
    /\ ~aborted /\ faults > 0 /\ faults' = faults - 1
    /\ \E o \in svms[i].old :
        /\ ("svm" \in Faults /\ o.st # "Prepare") \/ "other" \in Faults
        /\ svms' = [svms EXCEPT ![i].old = @ \ {o}]
    /\ UNCHANGED <<queue, tests, errors, active, commenced, cur, anyActive, joining, aborted,
                   received, sent, round>>

\* init() throws (it creates the working directory and its log), in start_FSMs or in the
\* restart of an instance after an error: exception_caught asserts.
InitThrows ==
    /\ \/ Free /\ ~commenced
       \/ \E i \in Ids : /\ Visiting(i) /\ svms[i].err
                         /\ svms[i].st \notin {"NextTrace", "ResultReady"}
    /\ "other" \in Faults /\ faults > 0 /\ faults' = faults - 1
    /\ aborted' = TRUE
    /\ UNCHANGED <<queue, tests, errors, active, commenced, svms, cur, anyActive, joining,
                   received, sent, round>>

-----------------------------------------------------------------------------
(* The requests of Dispatch, in the order DispatchFSM and SVMNodeFSM send  *)
(* them (Dispatch: ResetBeforeResults).                                    *)

CommenceRequest ==
    /\ Free /\ ~commenced
    /\ commenced' = TRUE
    /\ svms' = [i \in Ids |-> Started(svms[i])]
    /\ UNCHANGED <<queue, tests, errors, active, cur, anyActive, joining, aborted, received,
                   sent, faults, round>>

ResetRequest ==
    /\ Free /\ commenced /\ round < MaxRounds
    /\ commenced' = FALSE /\ queue' = <<>> /\ tests' = <<>> /\ active' = TRUE
    /\ round' = round + 1 /\ sent' = sent \cup received /\ received' = {}
    /\ UNCHANGED <<errors, svms, cur, anyActive, joining, aborted, faults>>

ReceiveTrace(t) ==
    /\ Free /\ commenced /\ t \notin received \cup sent
    /\ queue' = Append(queue, t)
    /\ received' = received \cup {t}
    /\ UNCHANGED <<tests, errors, active, commenced, svms, cur, anyActive, joining, aborted,
                   sent, faults, round>>

TransmitTests ==
    /\ Free /\ commenced
    /\ \E k \in 1..Len(tests) : tests' = SubSeq(tests, k + 1, Len(tests))
    /\ UNCHANGED <<queue, errors, active, commenced, svms, cur, anyActive, joining, aborted,
                   received, sent, faults, round>>

\* Mutant of TransmitErrorLogs: the emptiness of errors_ is not checked.
TransmitAnyErrorLog ==
    /\ Free
    /\ errors' = errors - 1
    /\ UNCHANGED <<queue, tests, active, commenced, svms, cur, anyActive, joining, aborted,
                   received, sent, faults, round>>

TransmitErrorLogs ==
    /\ Free
    /\ \E k \in 1..errors : errors' = errors - k
    /\ UNCHANGED <<queue, tests, active, commenced, svms, cur, anyActive, joining, aborted,
                   received, sent, faults, round>>

Requests ==
    \/ CommenceRequest \/ ResetRequest \/ TransmitTests \/ TransmitErrorLogs
    \/ \E t \in Traces : ReceiveTrace(t)

Aborted == aborted /\ UNCHANGED vars

Poll == PollBegin \/ PollEnd \/ \E i \in Ids : Visit(i)

Next ==
    \/ Poll \/ Requests \/ Aborted \/ InitThrows
    \/ \E i \in Ids : Progress(i) \/ TaskFails(i) \/ OldTaskFails(i)

Spec == Init /\ [][Next]_vars

\* The poll loop runs for ever and tasks end; nothing makes Dispatch ask.
Fairness == WF_vars(Poll) /\ \A i \in Ids : WF_vars(Progress(i))

FairSpec == Spec /\ Fairness

-----------------------------------------------------------------------------
(* Properties.                                                             *)

TypeOK ==
    /\ queue \in Seq(Traces) /\ tests \in Seq(Traces \cup {None})
    /\ errors \in Nat /\ faults \in 0..MaxFaults /\ round \in 0..MaxRounds
    /\ {active, commenced, anyActive, joining, aborted} \subseteq BOOLEAN
    /\ svms \in [Ids -> SVM] /\ cur \in 0..(Instances + 1)
    /\ received \subseteq Traces /\ sent \subseteq Traces

\* KleeFSM: when the flag tests_ready is up and retrieve_result has not failed unseen,
\* tests_ holds what KLEE generated from the trace that the instance was given.  After a
\* reset, tasks of the target before may write tests_ too.
ResultOfTrace ==
    \A i \in Ids :
        round = 0 /\ svms[i].st = "ResultReady" /\ svms[i].task # "missed" =>
            svms[i].found.of = svms[i].trace

\* Node::reset clears the queues between targets, and svm_node_fsm.cpp:73 says of
\* ev::start "Basically, serves as constructor": a test that Dispatch may fetch was
\* generated from a trace of the present target.
TestsOfTarget == commenced => \A k \in 1..Len(tests) : tests[k] \in received

\* When nothing fails, every trace that waits in the node is executed, under the
\* polling of NodeDriver::run_node, unless a reset discards it.
EveryTraceExecuted ==
    \A t \in Traces :
        (\E k \in 1..Len(queue) : queue[k] = t)
          ~> \/ \E i \in Ids : svms[i].st = "ResultReady" /\ svms[i].trace = t
             \/ t \notin received \/ faults < MaxFaults

\* The node is a WorkNode: what Dispatch assumes of an SVM node holds of SVMNode.
Contract == INSTANCE WorkNode WITH
    node <- [inq |-> Len(queue),
             busy |-> Cardinality({i \in Ids : commenced /\ ~Idle(svms[i])}), seeds |-> 0,
             out |-> Len(tests), errs |-> errors,
             active |-> active, commenced |-> commenced, polling |-> cur > 0]

ImplementsWorkNode == Contract!Spec
=============================================================================
