--------------------------- MODULE SVMNodeProofs ----------------------------
(***************************************************************************)
(* An SVM node with any number of instances, traces, faults and resets:    *)
(* its types, what a result is generated from, and that it is a WorkNode.  *)
(***************************************************************************)
EXTENDS SVMNode, FiniteSetTheorems, TLAPS

\* The states that hold a task.
Working == {Stages[k] : k \in 1..5}

\* An instance has a trace while it works, and a running task only then.
Instance(svm) ==
  /\ svm.st \in Working => svm.trace \in Traces
  /\ svm.task = "running" => svm.st \in Working
  /\ commenced => svm.st # "Start"

\* What poll() knows of the instances that it has visited.
Polling ==
  /\ cur > 0 => commenced
  /\ joining => cur \in Ids /\ ~Idle(svms[cur])
  /\ cur > 0 => (anyActive <=> \E j \in Ids : j < cur /\ ~Idle(svms[j]))

NodeInv == TypeOK /\ (\A i \in Ids : Instance(svms[i])) /\ Polling

-----------------------------------------------------------------------------
(* Stages and instances.                                                   *)

LEMMA WorkingStates ==
  /\ Working = {"Prepare", "ExecuteConcolic", "ExecuteSymbolic", "StoreTests", "Finished"}
  /\ States = {"Start", "NextTrace", "ResultReady"} \cup Working
BY DEF Working, States, Stages

LEMMA NextStage ==
  ASSUME NEW st \in Working, st # "Finished" PROVE After(st) \in Working
<1> DEFINE k == CHOOSE j \in 1..5 : Stages[j] = st
<1>1. \E j \in 1..5 : Stages[j] = st
  BY DEF Working
<1>2. k \in 1..5 /\ Stages[k] = st
  BY <1>1
<1> HIDE DEF k
<1>3. k # 5
  BY <1>2 DEF Stages
<1>4. After(st) = Stages[k + 1]
  BY <1>3 DEF After, k
<1> QED BY <1>2, <1>3, <1>4 DEF Working

LEMMA NewTyped == NewSVM \in SVM
BY InstancesAssumption, MaxYieldAssumption, WorkingStates DEF NewSVM, SVM, TestSet, Tasks

LEMMA StartedTyped ==
  ASSUME NEW svm \in SVM, svm.st \in Working => svm.trace \in Traces,
         svm.task = "running" => svm.st \in Working
  PROVE  /\ Started(svm) \in SVM
         /\ Started(svm).st = "NextTrace" /\ Started(svm).task = "done"
<1> DEFINE old == IF svm.task = "running"
                  THEN svm.old \cup {[st |-> svm.st, trace |-> svm.trace]} ELSE svm.old
<1>1. svm.old \in SUBSET [st : States, trace : Traces]
  BY DEF SVM
<1>2. svm.task = "running" => [st |-> svm.st, trace |-> svm.trace] \in [st : States, trace : Traces]
  BY WorkingStates
<1>3. old \in SUBSET [st : States, trace : Traces]
  BY <1>1, <1>2
<1> HIDE DEF old
<1>4. Started(svm) = [svm EXCEPT !.st = "NextTrace", !.err = FALSE, !.task = "done",
                                 !.trace = None, !.old = old]
  BY DEF Started, old
<1> QED BY Zenon, <1>3, <1>4, WorkingStates DEF SVM, Tasks

LEMMA NodeInit == Init => NodeInv
<1> SUFFICES ASSUME Init PROVE NodeInv
  OBVIOUS
<1> USE InstancesAssumption, SVMNodeAssumption
<1>1. active \in BOOLEAN /\ commenced \in BOOLEAN /\ anyActive \in BOOLEAN
      /\ joining \in BOOLEAN /\ aborted \in BOOLEAN
  BY Zenon DEF Init
<1>2. svms \in [Ids -> SVM]
  BY NewTyped DEF Init
<1>3. TypeOK
  BY <1>1, <1>2 DEF Init, TypeOK, Ids
<1>4. ASSUME NEW i \in Ids PROVE Instance(svms[i])
  BY <1>4, WorkingStates DEF Init, Instance, NewSVM
<1>5. Polling
  BY DEF Init, Polling
<1> QED BY <1>3, <1>4, <1>5 DEF NodeInv

-----------------------------------------------------------------------------
(* Steps.                                                                  *)

Queues == queue \in Seq(Traces) /\ tests \in Seq(Traces \cup {None}) /\ errors \in Nat

\* The end of a visit.
LEMMA LeaveStep ==
  ASSUME NodeInv, NEW i \in Ids, cur = i, ~joining,
         NEW svm \in SVM, Instance(svm), Leave(i, svm), Queues'
  PROVE  NodeInv'
<1> USE InstancesAssumption DEF Ids
<1>1. /\ svms' = [svms EXCEPT ![i] = svm] /\ cur' = i + 1 /\ anyActive' = (anyActive \/ ~Idle(svm))
      /\ UNCHANGED <<active, commenced, joining, aborted, received, sent, faults, round>>
  BY DEF Leave, AnyActive
<1>2. svms' \in [Ids -> SVM] /\ \A j \in Ids : svms'[j] = IF j = i THEN svm ELSE svms[j]
  BY <1>1 DEF NodeInv, TypeOK
<1>3. anyActive' \in BOOLEAN
  BY <1>1
<1>4. TypeOK'
  BY <1>1, <1>2, <1>3 DEF NodeInv, TypeOK, Queues
<1>5. ASSUME NEW j \in Ids PROVE Instance(svms[j])'
  BY <1>1, <1>2, <1>5 DEF NodeInv, Instance
<1>6. anyActive' <=> \E j \in Ids : j < cur' /\ ~Idle(svms'[j])
  <2>1. anyActive <=> \E j \in Ids : j < i /\ ~Idle(svms[j])
    BY DEF NodeInv, Polling
  <2>2. \A j \in Ids : j < cur' <=> j < i \/ j = i
    BY <1>1
  <2>3. (\E j \in Ids : j < cur' /\ ~Idle(svms'[j]))
          <=> (\E j \in Ids : j < i /\ ~Idle(svms[j])) \/ ~Idle(svm)
    BY <1>2, <2>2
  <2>4. anyActive' <=> anyActive \/ ~Idle(svm)
    BY Zenon, <1>1
  <2> QED BY <2>1, <2>3, <2>4
<1>7. Polling'
  BY <1>1, <1>6 DEF NodeInv, Polling, Idle
<1> QED BY <1>4, <1>5, <1>7 DEF NodeInv

\* A visit that starts a task ends, or waits for the old task of the state it enters.
LEMMA EnterStep ==
  ASSUME NodeInv, NEW i \in Ids, cur = i, ~joining,
         NEW svm \in SVM, Instance(svm), svm.st \in Working, Enter(i, svm), Queues'
  PROVE  NodeInv'
<1>1. CASE Leave(i, svm)
  BY <1>1, LeaveStep
<1>2. CASE /\ svms' = [svms EXCEPT ![i] = svm] /\ joining' = TRUE
           /\ UNCHANGED <<active, commenced, cur, anyActive, aborted, received, sent, faults, round>>
  <2> USE InstancesAssumption DEF Ids
  <2>1. svms' \in [Ids -> SVM] /\ \A j \in Ids : svms'[j] = IF j = i THEN svm ELSE svms[j]
    BY <1>2 DEF NodeInv, TypeOK
  <2>2. TypeOK'
    BY <1>2, <2>1 DEF NodeInv, TypeOK, Queues
  <2>3. ASSUME NEW j \in Ids PROVE Instance(svms[j])'
    BY <1>2, <2>1, <2>3 DEF NodeInv, Instance
  <2>4. ~Idle(svm)
    BY WorkingStates DEF Idle
  <2>5. anyActive' <=> \E j \in Ids : j < cur' /\ ~Idle(svms'[j])
    <3>1. anyActive <=> \E j \in Ids : j < i /\ ~Idle(svms[j])
      BY DEF NodeInv, Polling
    <3>2. \A j \in Ids : j < i => svms'[j] = svms[j]
      BY <2>1
    <3> QED BY <1>2, <3>1, <3>2
  <2>6. Polling'
    BY <1>2, <2>1, <2>4, <2>5 DEF NodeInv, Polling, Idle
  <2> QED BY <2>2, <2>3, <2>6 DEF NodeInv
<1> QED BY Zenon, <1>1, <1>2 DEF Enter

\* A task that runs or ends leaves the state of its instance as it is.
LEMMA TaskStep ==
  ASSUME NodeInv, NEW i \in Ids, NEW svm \in SVM, svm.st = svms[i].st, Instance(svm),
         svms' = [svms EXCEPT ![i] = svm], faults' \in 0..MaxFaults,
         UNCHANGED <<queue, tests, errors, active, commenced, cur, anyActive, joining, aborted,
                     received, sent, round>>
  PROVE  NodeInv'
<1>1. /\ svms' \in [Ids -> SVM]
      /\ \A j \in Ids : svms'[j] = (IF j = i THEN svm ELSE svms[j]) /\ svms'[j].st = svms[j].st
  BY DEF NodeInv, TypeOK
<1>2. TypeOK'
  BY <1>1 DEF NodeInv, TypeOK
<1>3. ASSUME NEW j \in Ids PROVE Instance(svms[j])'
  BY <1>1, <1>3 DEF NodeInv, Instance
<1>4. \A j \in Ids : Idle(svms'[j]) <=> Idle(svms[j])
  BY <1>1 DEF Idle
<1>5. Polling'
  BY <1>4 DEF NodeInv, Polling
<1> QED BY <1>2, <1>3, <1>5 DEF NodeInv

LEMMA ProgressStep ==
  ASSUME NodeInv, NEW i \in Ids, Progress(i) \/ TaskFails(i) \/ OldTaskFails(i) PROVE NodeInv'
<1> DEFINE svm == svms[i]
<1> USE MaxYieldAssumption, SVMNodeAssumption
<1>1. svm \in SVM /\ Instance(svm) /\ faults \in 0..MaxFaults /\ svms \in [Ids -> SVM]
  BY DEF NodeInv, TypeOK
<1>2. ASSUME NEW new \in SVM, new.st = svm.st, new.trace = svm.trace, new.task # "running" \/ new.task = svm.task
      PROVE  Instance(new)
  BY <1>1, <1>2 DEF Instance
<1> HIDE DEF svm
<1>3. CASE Progress(i)
  <2>1. UNCHANGED <<queue, tests, errors, active, commenced, cur, anyActive, joining, aborted,
                    received, sent, faults, round>>
    BY <1>3 DEF Progress
  <2>2. CASE TaskDone(i)
    <3>1. PICK n \in 0..MaxYield :
            svms' = [svms EXCEPT ![i] =
                       IF svm.st = "Finished"
                       THEN [svm EXCEPT !.task = "done", !.found = [of |-> svm.trace, n |-> n]]
                       ELSE [svm EXCEPT !.task = "done"]]
      BY Zenon, <2>2 DEF TaskDone, svm
    <3> DEFINE new == IF svm.st = "Finished"
                      THEN [svm EXCEPT !.task = "done", !.found = [of |-> svm.trace, n |-> n]]
                      ELSE [svm EXCEPT !.task = "done"]
    <3>2. /\ new \in SVM /\ new.st = svm.st /\ new.trace = svm.trace /\ new.task # "running"
      BY Zenon, <1>1 DEF SVM, Tasks, TestSet
    <3> HIDE DEF new
    <3>3. svms' = [svms EXCEPT ![i] = new]
      BY <3>1 DEF new
    <3> QED BY Zenon, <1>1, <1>2, <2>1, <3>2, <3>3, TaskStep DEF svm
  <2>3. CASE OldTaskDone(i)
    <3>1. PICK o \in svm.old, n \in 0..MaxYield :
            svms' = [svms EXCEPT ![i] =
                       IF o.st = "Finished"
                       THEN [svm EXCEPT !.old = svm.old \ {o}, !.found = [of |-> o.trace, n |-> n]]
                       ELSE [svm EXCEPT !.old = svm.old \ {o}]]
      BY Zenon, <2>3 DEF OldTaskDone, svm
    <3> DEFINE rest == svm.old \ {o}
               new == IF o.st = "Finished"
                      THEN [svm EXCEPT !.old = rest, !.found = [of |-> o.trace, n |-> n]]
                      ELSE [svm EXCEPT !.old = rest]
    <3>2. o.trace \in Traces /\ rest \in SUBSET [st : States, trace : Traces]
      BY <1>1 DEF SVM
    <3>3. svms' = [svms EXCEPT ![i] = new]
      BY <3>1
    <3> HIDE DEF rest
    <3>4. /\ new \in SVM /\ new.st = svm.st /\ new.trace = svm.trace /\ new.task = svm.task
      BY Zenon, <1>1, <3>2 DEF SVM, TestSet
    <3> HIDE DEF new
    <3> QED BY Zenon, <1>1, <1>2, <2>1, <3>3, <3>4, TaskStep DEF svm
  <2> QED BY <1>3, <2>2, <2>3 DEF Progress
<1>4. CASE TaskFails(i)
  <2>1. /\ faults' \in 0..MaxFaults
        /\ UNCHANGED <<queue, tests, errors, active, commenced, cur, anyActive, joining, aborted,
                       received, sent, round>>
    BY <1>1, <1>4 DEF TaskFails
  <2>2. PICK t \in {"svm", "other", "missed"} : svms' = [svms EXCEPT ![i] = [svm EXCEPT !.task = t]]
    BY <1>4 DEF TaskFails, svm
  <2> DEFINE new == [svm EXCEPT !.task = t]
  <2>3. /\ new \in SVM /\ new.st = svm.st /\ new.trace = svm.trace /\ new.task # "running"
    BY <1>1 DEF SVM, Tasks
  <2> HIDE DEF new
  <2>4. svms' = [svms EXCEPT ![i] = new]
    BY <2>2 DEF new
  <2> QED BY Zenon, <1>1, <1>2, <2>1, <2>3, <2>4, TaskStep DEF svm
<1>5. CASE OldTaskFails(i)
  <2>1. /\ faults' \in 0..MaxFaults
        /\ UNCHANGED <<queue, tests, errors, active, commenced, cur, anyActive, joining, aborted,
                       received, sent, round>>
    BY <1>1, <1>5 DEF OldTaskFails
  <2>2. PICK o \in svm.old : svms' = [svms EXCEPT ![i] = [svm EXCEPT !.old = svm.old \ {o}]]
    BY Zenon, <1>5 DEF OldTaskFails, svm
  <2> DEFINE rest == svm.old \ {o}
             new == [svm EXCEPT !.old = rest]
  <2>3. rest \in SUBSET [st : States, trace : Traces]
    BY <1>1 DEF SVM
  <2>4. svms' = [svms EXCEPT ![i] = new]
    BY <2>2
  <2> HIDE DEF rest
  <2>5. /\ new \in SVM /\ new.st = svm.st /\ new.trace = svm.trace /\ new.task = svm.task
    BY Zenon, <1>1, <2>3 DEF SVM
  <2> HIDE DEF new
  <2> QED BY Zenon, <1>1, <1>2, <2>1, <2>4, <2>5, TaskStep DEF svm
<1> QED BY <1>3, <1>4, <1>5

\* A failing init() leaves the node as it was, and dead.
LEMMA InitThrowsStep == NodeInv /\ InitThrows => NodeInv'
<1> SUFFICES ASSUME NodeInv, InitThrows PROVE NodeInv'
  OBVIOUS
<1>1. /\ aborted' \in BOOLEAN
      /\ UNCHANGED <<queue, tests, errors, active, commenced, svms, cur, anyActive, joining,
                     received, sent, round>>
  BY Zenon DEF InitThrows
<1>2. faults' \in 0..MaxFaults
  BY SVMNodeAssumption DEF InitThrows, NodeInv, TypeOK
<1>3. TypeOK'
  BY <1>1, <1>2 DEF NodeInv, TypeOK
<1>4. \A j \in Ids : Instance(svms[j])'
  BY <1>1 DEF NodeInv, Instance
<1>5. Polling'
  BY <1>1 DEF NodeInv, Polling, Idle
<1> QED BY <1>3, <1>4, <1>5 DEF NodeInv

\* What an instance has found goes to the queue of tests.
LEMMA PushedTyped ==
  ASSUME tests \in Seq(Traces \cup {None}), NEW svm \in SVM
  PROVE  /\ Pushed(svm) \in Seq(Traces \cup {None})
         /\ svm.found.n \in 0..MaxYield /\ Len(Pushed(svm)) = Len(tests) + svm.found.n
<1> DEFINE n == svm.found.n  found == [k \in 1..n |-> svm.found.of]
<1>1. n \in 0..MaxYield /\ n \in Nat /\ svm.found.of \in Traces \cup {None}
  BY MaxYieldAssumption DEF SVM, TestSet
<1>2. found \in Seq(Traces \cup {None}) /\ Len(found) = n
  BY <1>1
<1>3. Pushed(svm) = tests \o found
  BY DEF Pushed
<1> HIDE DEF found
<1> QED BY <1>1, <1>2, <1>3

LEMMA NextTraceStep ==
  ASSUME NodeInv, NEW i \in Ids, VisitNextTrace(i) PROVE NodeInv'
<1>1. /\ svms[i] \in SVM /\ Instance(svms[i]) /\ Queues /\ cur = i /\ ~joining
      /\ UNCHANGED <<tests, errors>>
  BY DEF NodeInv, TypeOK, Queues, VisitNextTrace, Visiting
<1>2. CASE Leave(i, svms[i]) /\ UNCHANGED queue
  <2>1. Queues'
    BY <1>1, <1>2 DEF Queues
  <2> QED BY <1>1, <1>2, <2>1, LeaveStep
<1>3. CASE /\ queue # <<>> /\ queue' = Tail(queue)
           /\ Enter(i, [svms[i] EXCEPT !.st = "Prepare", !.trace = Head(queue), !.task = "running"])
  <2> DEFINE svm == [svms[i] EXCEPT !.st = "Prepare", !.trace = Head(queue), !.task = "running"]
  <2>1. Queues' /\ Head(queue) \in Traces
    BY <1>1, <1>3 DEF Queues
  <2>2. svm \in SVM /\ svm.st = "Prepare" /\ svm.trace \in Traces
    BY Zenon, <1>1, <2>1, WorkingStates DEF SVM, Tasks
  <2>3. Enter(i, svm)
    BY <1>3
  <2> HIDE DEF svm
  <2>4. svm.st \in Working /\ Instance(svm)
    BY <2>2, WorkingStates DEF Instance
  <2> QED BY <1>1, <2>1, <2>2, <2>3, <2>4, EnterStep
<1> QED BY <1>2, <1>3 DEF VisitNextTrace

LEMMA ResultStep ==
  ASSUME NodeInv, NEW i \in Ids, VisitResultReady(i) PROVE NodeInv'
<1> DEFINE svm == [svms[i] EXCEPT !.st = "NextTrace", !.trace = None]
<1>1. /\ svms[i] \in SVM /\ Instance(svms[i]) /\ Queues /\ cur = i /\ ~joining
      /\ svms[i].st = "ResultReady" /\ tests' = Pushed(svms[i]) /\ Leave(i, svm)
      /\ UNCHANGED <<queue, errors>>
  BY DEF NodeInv, TypeOK, Queues, VisitResultReady, Visiting
<1>2. Queues'
  BY <1>1, PushedTyped DEF Queues
<1>3. svm \in SVM /\ svm.st = "NextTrace" /\ svm.task = svms[i].task
  BY Zenon, <1>1, WorkingStates DEF SVM
<1> HIDE DEF svm
<1>4. Instance(svm)
  BY <1>1, <1>3, WorkingStates DEF Instance
<1> QED BY <1>1, <1>2, <1>3, <1>4, LeaveStep

LEMMA ErrorStep ==
  ASSUME NodeInv, NEW i \in Ids, VisitError(i) PROVE NodeInv'
<1>1. /\ svms[i] \in SVM /\ Queues /\ cur = i /\ ~joining
      /\ tests' = Pushed(svms[i]) /\ errors' = errors + 1 /\ Leave(i, Started(NewSVM))
      /\ UNCHANGED queue
  BY DEF NodeInv, TypeOK, Queues, VisitError, Visiting
<1>2. Queues'
  BY <1>1, PushedTyped DEF Queues
<1>3. NewSVM.st \notin Working /\ NewSVM.task # "running"
  BY WorkingStates DEF NewSVM
<1>4. Started(NewSVM) \in SVM /\ Started(NewSVM).st = "NextTrace" /\ Started(NewSVM).task = "done"
  BY <1>3, NewTyped, StartedTyped
<1>5. Instance(Started(NewSVM))
  BY <1>4, WorkingStates DEF Instance
<1> QED BY <1>1, <1>2, <1>4, <1>5, LeaveStep

\* ev::poll leaves an instance that works as one that is not idle, or the node aborts.
LEMMA PollVisit ==
  ASSUME NodeInv, NEW i \in Ids, VisitPoll(i)
  PROVE  /\ cur = i /\ ~joining /\ svms[i].st \in Working
         /\ \/ /\ aborted' = TRUE
               /\ UNCHANGED <<active, commenced, svms, cur, anyActive, joining, received, sent,
                              faults, round>>
            \/ \E svm \in SVM : /\ Instance(svm) /\ ~Idle(svm)
                                /\ Leave(i, svm) \/ (svm.st \in Working /\ Enter(i, svm))
<1> DEFINE svm == svms[i]
<1>1. /\ svm \in SVM /\ Instance(svm) /\ cur = i /\ ~joining /\ svm.st \notin {"NextTrace", "ResultReady"}
  BY Zenon DEF NodeInv, TypeOK, VisitPoll, Visiting
<1>2. commenced
  BY <1>1, InstancesAssumption DEF NodeInv, Polling, Ids
<1>3. svm.st \in Working /\ svm.trace \in Traces
  BY <1>1, <1>2, WorkingStates DEF Instance, SVM
<1>4. ASSUME NEW new \in SVM, new.st \in Working \cup {"ResultReady"}, new.trace = svm.trace,
             new.task = "running" => new.st \in Working
      PROVE  Instance(new) /\ ~Idle(new)
  BY <1>3, <1>4, WorkingStates DEF Instance, Idle
<1>5. CASE svm.task = "running" /\ Leave(i, svm)
  BY <1>1, <1>3, <1>4, <1>5
<1>6. CASE /\ Passes(svm.task) /\ svm.st = "Finished"
           /\ Leave(i, [svm EXCEPT !.st = "ResultReady"])
  <2> DEFINE new == [svm EXCEPT !.st = "ResultReady"]
  <2>1. new \in SVM /\ new.st = "ResultReady" /\ new.trace = svm.trace /\ new.task # "running"
    BY <1>1, <1>6, WorkingStates DEF SVM, Passes
  <2>2. Leave(i, new)
    BY <1>6
  <2> HIDE DEF new
  <2> QED BY <1>1, <1>3, <1>4, <2>1, <2>2
<1>7. CASE /\ Passes(svm.task) /\ svm.st # "Finished"
           /\ Enter(i, [svm EXCEPT !.st = After(svm.st), !.task = "running"])
  <2> DEFINE new == [svm EXCEPT !.st = After(svm.st), !.task = "running"]
  <2>1. After(svm.st) \in Working
    BY <1>3, <1>7, NextStage
  <2>2. new \in SVM /\ new.st \in Working /\ new.trace = svm.trace
    BY Zenon, <1>1, <2>1, WorkingStates DEF SVM, Tasks
  <2>3. Enter(i, new)
    BY <1>7
  <2> HIDE DEF new
  <2> QED BY <1>1, <1>3, <1>4, <2>2, <2>3
<1>8. CASE svm.task = "svm" /\ Leave(i, [svm EXCEPT !.err = TRUE])
  <2> DEFINE new == [svm EXCEPT !.err = TRUE]
  <2>1. new \in SVM /\ new.st = svm.st /\ new.trace = svm.trace /\ new.task # "running"
    BY Zenon, <1>1, <1>8 DEF SVM
  <2>2. Leave(i, new)
    BY <1>8
  <2> HIDE DEF new
  <2> QED BY <1>1, <1>3, <1>4, <2>1, <2>2
<1>9. ASSUME NEW n \in 0..MaxYield, svm.task = "svm",
             Leave(i, [svm EXCEPT !.err = TRUE, !.found = [of |-> svm.trace, n |-> n]])
      PROVE  \E new \in SVM : Instance(new) /\ ~Idle(new) /\ Leave(i, new)
  <2> DEFINE new == [svm EXCEPT !.err = TRUE, !.found = [of |-> svm.trace, n |-> n]]
  <2>1. new \in SVM /\ new.st = svm.st /\ new.trace = svm.trace /\ new.task # "running"
    BY Zenon, <1>1, <1>9 DEF SVM, TestSet
  <2>2. Leave(i, new)
    BY <1>9
  <2> HIDE DEF new
  <2> QED BY <1>3, <1>4, <2>1, <2>2
<1>10. CASE /\ aborted' = TRUE
            /\ UNCHANGED <<active, commenced, svms, cur, anyActive, joining, received, sent,
                           faults, round>>
  BY <1>1, <1>3, <1>10
<1> QED BY Zenon, <1>1, <1>3, <1>5, <1>6, <1>7, <1>8, <1>9, <1>10 DEF VisitPoll

LEMMA VisitStep == ASSUME NodeInv, NEW i \in Ids, Visit(i) PROVE NodeInv'
<1>1. CASE VisitPoll(i)
  <2>1. Queues' /\ UNCHANGED <<queue, tests, errors>>
    BY Zenon, <1>1 DEF VisitPoll, Queues, NodeInv, TypeOK
  <2>2. CASE /\ aborted' = TRUE
             /\ UNCHANGED <<active, commenced, svms, cur, anyActive, joining, received, sent,
                            faults, round>>
    <3>1. TypeOK'
      BY <2>1, <2>2 DEF NodeInv, TypeOK
    <3>2. \A j \in Ids : Instance(svms[j])'
      BY <2>2 DEF NodeInv, Instance
    <3>3. Polling'
      BY <2>2 DEF NodeInv, Polling, Idle
    <3> QED BY <3>1, <3>2, <3>3 DEF NodeInv
  <2> QED BY Zenon, <1>1, <2>1, <2>2, PollVisit, LeaveStep, EnterStep
<1>2. CASE Joined(i)
  <2> USE InstancesAssumption DEF Ids
  <2>1. /\ cur = i /\ joining /\ joining' = FALSE /\ cur' = i + 1 /\ anyActive' = TRUE
        /\ UNCHANGED <<queue, tests, errors, active, commenced, svms, aborted, received, sent,
                       faults, round>>
    BY <1>2 DEF Joined
  <2>2. joining' \in BOOLEAN /\ anyActive' \in BOOLEAN
    BY Zenon, <2>1
  <2>3. TypeOK'
    BY <2>1, <2>2 DEF NodeInv, TypeOK
  <2>4. \A j \in Ids : Instance(svms[j])'
    BY <2>1 DEF NodeInv, Instance
  <2>5. ~Idle(svms[i]) /\ commenced
    BY <2>1 DEF NodeInv, Polling
  <2>6. Polling'
    BY <2>1, <2>5 DEF Polling, Idle
  <2> QED BY <2>3, <2>4, <2>6 DEF NodeInv
<1> QED BY <1>1, <1>2, NextTraceStep, ResultStep, ErrorStep DEF Visit

LEMMA PollStep == NodeInv /\ (PollBegin \/ PollEnd) => NodeInv'
<1> SUFFICES ASSUME NodeInv, PollBegin \/ PollEnd PROVE NodeInv'
  OBVIOUS
<1> USE InstancesAssumption DEF Ids
<1>1. /\ UNCHANGED <<queue, tests, errors, commenced, svms, joining, aborted, received, sent,
                     faults, round>>
      /\ cur' \in 0..(Instances + 1) /\ anyActive' \in BOOLEAN /\ active' \in BOOLEAN
  <2>1. anyActive \in BOOLEAN /\ active \in BOOLEAN
    BY DEF NodeInv, TypeOK
  <2>2. CASE PollBegin
    <3>1. anyActive' \in BOOLEAN
      BY Zenon, <2>2 DEF PollBegin
    <3> QED BY <2>1, <2>2, <3>1 DEF PollBegin
  <2>3. CASE PollEnd
    BY <2>1, <2>3 DEF PollEnd
  <2> QED BY <2>2, <2>3
<1>2. TypeOK'
  BY <1>1 DEF NodeInv, TypeOK
<1>3. \A j \in Ids : Instance(svms[j])'
  BY <1>1 DEF NodeInv, Instance
<1>4. ~joining
  BY DEF PollBegin, PollEnd, Free, NodeInv, Polling
<1>5. Polling'
  BY <1>1, <1>4 DEF PollBegin, PollEnd, Polling
<1> QED BY <1>2, <1>3, <1>5 DEF NodeInv

LEMMA CommenceStep == NodeInv /\ CommenceRequest => NodeInv' /\ \A i \in Ids : Idle(svms'[i])
<1> SUFFICES ASSUME NodeInv, CommenceRequest PROVE NodeInv' /\ \A i \in Ids : Idle(svms'[i])
  BY Zenon
<1>1. ASSUME NEW i \in Ids
      PROVE  svms'[i] \in SVM /\ svms'[i].st = "NextTrace" /\ svms'[i].task = "done"
  <2>1. svms[i] \in SVM /\ Instance(svms[i]) /\ svms'[i] = Started(svms[i])
    BY DEF NodeInv, TypeOK, CommenceRequest
  <2> QED BY <2>1, StartedTyped DEF Instance
<1>2. svms' \in [Ids -> SVM]
  <2>1. svms' = [i \in Ids |-> svms'[i]]
    BY DEF CommenceRequest
  <2> QED BY <1>1, <2>1
<1>3. /\ cur = 0 /\ commenced' = TRUE /\ commenced' \in BOOLEAN
      /\ UNCHANGED <<queue, tests, errors, active, cur, anyActive, joining, aborted, received,
                     sent, faults, round>>
  BY DEF CommenceRequest, Free
<1>4. TypeOK'
  BY <1>2, <1>3 DEF NodeInv, TypeOK
<1>5. \A i \in Ids : Instance(svms[i])'
  BY <1>1, WorkingStates DEF Instance
<1>6. Polling'
  BY <1>3, InstancesAssumption DEF NodeInv, Polling, Ids
<1> QED BY <1>1, <1>4, <1>5, <1>6 DEF NodeInv, Idle

LEMMA RequestStep == NodeInv /\ Requests => NodeInv'
<1> SUFFICES ASSUME NodeInv, Requests, ~CommenceRequest PROVE NodeInv'
  BY CommenceStep
<1>1. /\ cur = 0 /\ (commenced' => commenced) /\ commenced' \in BOOLEAN /\ active' \in BOOLEAN
      /\ round' \in 0..MaxRounds /\ received' \subseteq Traces /\ sent' \subseteq Traces
      /\ Queues'
      /\ UNCHANGED <<svms, cur, anyActive, joining, aborted, faults>>
  <2> USE SVMNodeAssumption DEF NodeInv, TypeOK, Queues, Free
  <2>1. CASE ResetRequest
    <3>1. commenced' \in BOOLEAN /\ active' \in BOOLEAN
      BY Zenon, <2>1 DEF ResetRequest
    <3>2. queue' \in Seq(Traces) /\ tests' \in Seq(Traces \cup {None})
      BY <2>1 DEF ResetRequest
    <3> QED BY <2>1, <3>1, <3>2 DEF ResetRequest
  <2>2. CASE TransmitTests
    BY <2>2 DEF TransmitTests
  <2>3. CASE TransmitErrorLogs
    BY <2>3 DEF TransmitErrorLogs
  <2>4. CASE \E t \in Traces : ReceiveTrace(t)
    BY <2>4 DEF ReceiveTrace
  <2> QED BY <2>1, <2>2, <2>3, <2>4 DEF Requests
<1>2. TypeOK'
  BY <1>1 DEF NodeInv, TypeOK, Queues
<1>3. \A j \in Ids : Instance(svms[j])'
  BY <1>1 DEF NodeInv, Instance
<1>4. Polling'
  BY <1>1, InstancesAssumption DEF NodeInv, Polling, Ids
<1> QED BY <1>2, <1>3, <1>4 DEF NodeInv

LEMMA NodeStep == NodeInv /\ [Next]_vars => NodeInv'
<1>1. NodeInv /\ UNCHANGED vars => NodeInv'
  BY DEF vars, NodeInv, TypeOK, Instance, Polling, Idle
<1> QED BY <1>1, VisitStep, PollStep, RequestStep, ProgressStep, InitThrowsStep
       DEF Next, Poll, Aborted

LEMMA NodeInvariant == Spec => []NodeInv
BY NodeInit, NodeStep, PTL DEF Spec

\* The variables of an SVM node have their types; in particular a task that a reset leaves
\* running had a trace.
THEOREM SVMNodeTypes == Spec => []TypeOK
<1>1. NodeInv => TypeOK
  BY DEF NodeInv
<1> QED BY NodeInvariant, <1>1, PTL

-----------------------------------------------------------------------------
(* Results.                                                                *)

\* Before the first reset no instance has an old task, and what it has found when its last
\* task is done is of its trace.
FirstRound(svm) ==
  /\ svm.old = {} /\ (~commenced => svm.st = "Start")
  /\ \/ svm.st = "Finished" /\ svm.task = "done"
     \/ svm.st = "ResultReady" /\ svm.task # "missed"
     => svm.found.of = svm.trace

ResultInv == round = 0 => \A i \in Ids : FirstRound(svms[i])

LEMMA ResultInit == Init => ResultInv
BY DEF Init, ResultInv, FirstRound, NewSVM

LEMMA ResultVisit ==
  ASSUME NodeInv, ResultInv, NEW i \in Ids, round' = 0, Visit(i) PROVE ResultInv'
<1> SUFFICES ASSUME round = 0, commenced
             PROVE  \/ UNCHANGED <<svms, commenced>>
                    \/ \E svm : /\ svms' = [svms EXCEPT ![i] = svm] /\ FirstRound(svm)
                                /\ UNCHANGED commenced
  <2>1. round = 0
    BY Zenon DEF Visit, VisitNextTrace, VisitResultReady, VisitError, VisitPoll, Joined, Enter, Leave
  <2>2. commenced
    <3>1. cur = i
      BY Zenon DEF Visit, VisitNextTrace, VisitResultReady, VisitError, VisitPoll, Joined, Visiting
    <3> QED BY <3>1, InstancesAssumption DEF NodeInv, Polling, Ids
  <2>3. svms \in [Ids -> SVM]
    BY DEF NodeInv, TypeOK
  <2> QED BY Zenon, <2>1, <2>2, <2>3 DEF ResultInv, FirstRound
<1> DEFINE svm == svms[i]
<1>1. svm \in SVM /\ FirstRound(svm)
  BY DEF NodeInv, TypeOK, ResultInv
<1>2. ASSUME NEW new, FirstRound(new), Leave(i, new) \/ Enter(i, new)
      PROVE  svms' = [svms EXCEPT ![i] = new] /\ FirstRound(new) /\ UNCHANGED commenced
  BY Zenon, <1>2 DEF Leave, Enter
<1>3. CASE VisitNextTrace(i)
  <2> DEFINE new == [svm EXCEPT !.st = "Prepare", !.trace = Head(queue), !.task = "running"]
  <2>1. new.st = "Prepare" /\ new.old = {}
    BY <1>1 DEF FirstRound, SVM
  <2>2. Leave(i, svm) \/ Enter(i, new)
    BY <1>3 DEF VisitNextTrace
  <2> HIDE DEF new, svm
  <2>3. FirstRound(new)
    BY <2>1 DEF FirstRound
  <2> QED BY Zenon, <1>1, <1>2, <2>2, <2>3
<1>4. CASE VisitResultReady(i)
  <2> DEFINE new == [svm EXCEPT !.st = "NextTrace", !.trace = None]
  <2>1. new.st = "NextTrace" /\ new.old = {}
    BY <1>1 DEF FirstRound, SVM
  <2>2. Leave(i, new)
    BY <1>4 DEF VisitResultReady
  <2> HIDE DEF new
  <2>3. FirstRound(new)
    BY <2>1 DEF FirstRound
  <2> QED BY Zenon, <1>2, <2>2, <2>3
<1>5. CASE VisitError(i)
  <2>1. FirstRound(Started(NewSVM))
    BY DEF FirstRound, Started, NewSVM
  <2>2. Leave(i, Started(NewSVM))
    BY <1>5 DEF VisitError
  <2> QED BY Zenon, <1>2, <2>1, <2>2
<1>6. CASE VisitPoll(i)
  <2>1. svm.st \in Working
    BY Zenon, <1>6, PollVisit
  <2>2. CASE svm.task = "running" /\ Leave(i, svm)
    BY Zenon, <1>1, <1>2, <2>2
  <2>3. CASE /\ Passes(svm.task) /\ svm.st = "Finished"
             /\ Leave(i, [svm EXCEPT !.st = "ResultReady"])
    <3> DEFINE new == [svm EXCEPT !.st = "ResultReady"]
    <3>1. FirstRound(new)
      BY <1>1, <2>3 DEF FirstRound, SVM, Passes
    <3>2. Leave(i, new)
      BY <2>3
    <3> HIDE DEF new
    <3> QED BY Zenon, <1>2, <3>1, <3>2
  <2>4. CASE /\ svm.st # "Finished"
             /\ Enter(i, [svm EXCEPT !.st = After(svm.st), !.task = "running"])
    <3> DEFINE new == [svm EXCEPT !.st = After(svm.st), !.task = "running"]
    <3>1. After(svm.st) \in Working
      BY <2>1, <2>4, NextStage
    <3>2. new.st \in Working /\ new.task = "running" /\ new.old = {}
      BY <1>1, <3>1 DEF FirstRound, SVM
    <3>3. Enter(i, new)
      BY <2>4
    <3> HIDE DEF new
    <3>4. FirstRound(new)
      BY <3>2, WorkingStates DEF FirstRound
    <3> QED BY Zenon, <1>2, <3>3, <3>4
  <2>5. CASE svm.task = "svm" /\ Leave(i, [svm EXCEPT !.err = TRUE])
    <3> DEFINE new == [svm EXCEPT !.err = TRUE]
    <3>1. FirstRound(new)
      BY <1>1 DEF FirstRound, SVM
    <3>2. Leave(i, new)
      BY <2>5
    <3> HIDE DEF new
    <3> QED BY Zenon, <1>2, <3>1, <3>2
  <2>6. ASSUME NEW n \in 0..MaxYield, svm.task = "svm",
               Leave(i, [svm EXCEPT !.err = TRUE, !.found = [of |-> svm.trace, n |-> n]])
        PROVE  \E new : /\ svms' = [svms EXCEPT ![i] = new] /\ FirstRound(new)
                        /\ UNCHANGED commenced
    <3> DEFINE new == [svm EXCEPT !.err = TRUE, !.found = [of |-> svm.trace, n |-> n]]
    <3>1. FirstRound(new)
      BY <1>1 DEF FirstRound, SVM
    <3>2. Leave(i, new)
      BY <2>6
    <3> HIDE DEF new
    <3> QED BY Zenon, <1>2, <3>1, <3>2
  <2> QED BY Zenon, <1>6, <2>2, <2>3, <2>4, <2>5, <2>6 DEF VisitPoll
<1>7. CASE Joined(i)
  BY <1>7 DEF Joined
<1> QED BY Zenon, <1>3, <1>4, <1>5, <1>6, <1>7 DEF Visit

LEMMA ResultTask ==
  ASSUME NodeInv, ResultInv, NEW i \in Ids, round' = 0, Progress(i) \/ TaskFails(i) \/ OldTaskFails(i)
  PROVE  ResultInv'
<1> DEFINE svm == svms[i]
<1>1. /\ round = 0 /\ UNCHANGED commenced /\ svms \in [Ids -> SVM] /\ svm \in SVM
      /\ FirstRound(svm)
  BY DEF Progress, TaskFails, OldTaskFails, NodeInv, TypeOK, ResultInv
<1>2. ASSUME NEW new, svms' = [svms EXCEPT ![i] = new], FirstRound(new) PROVE ResultInv'
  BY <1>1, <1>2 DEF ResultInv, FirstRound
<1>3. svm.task = "running" => svm.st \in Working
  BY DEF NodeInv, Instance
<1> HIDE DEF svm
<1>4. CASE Progress(i)
  <2>1. TaskDone(i)
    BY <1>1, <1>4 DEF Progress, OldTaskDone, FirstRound, svm
  <2>2. PICK n \in 0..MaxYield :
          svms' = [svms EXCEPT ![i] =
                     IF svm.st = "Finished"
                     THEN [svm EXCEPT !.task = "done", !.found = [of |-> svm.trace, n |-> n]]
                     ELSE [svm EXCEPT !.task = "done"]]
    BY Zenon, <2>1 DEF TaskDone, svm
  <2> DEFINE new == IF svm.st = "Finished"
                    THEN [svm EXCEPT !.task = "done", !.found = [of |-> svm.trace, n |-> n]]
                    ELSE [svm EXCEPT !.task = "done"]
  <2>3. svm.st # "ResultReady"
    BY <1>3, <2>1, WorkingStates DEF TaskDone, svm
  <2>4. FirstRound(new)
    BY <1>1, <2>3 DEF FirstRound, SVM
  <2> HIDE DEF new
  <2>5. svms' = [svms EXCEPT ![i] = new]
    BY <2>2 DEF new
  <2> QED BY Zenon, <1>2, <2>4, <2>5
<1>5. CASE TaskFails(i)
  <2>1. PICK t \in {"svm", "other", "missed"} : svms' = [svms EXCEPT ![i] = [svm EXCEPT !.task = t]]
    BY <1>5 DEF TaskFails, svm
  <2>2. svm.st # "ResultReady"
    BY <1>3, <1>5, WorkingStates DEF TaskFails, svm
  <2> DEFINE new == [svm EXCEPT !.task = t]
  <2>3. FirstRound(new)
    BY <1>1, <2>2 DEF FirstRound, SVM
  <2> HIDE DEF new
  <2>4. svms' = [svms EXCEPT ![i] = new]
    BY <2>1 DEF new
  <2> QED BY Zenon, <1>2, <2>3, <2>4
<1>6. ~OldTaskFails(i)
  BY <1>1 DEF OldTaskFails, FirstRound, svm
<1> QED BY <1>4, <1>5, <1>6

LEMMA ResultStepHolds == NodeInv /\ ResultInv /\ [Next]_vars => ResultInv'
<1> SUFFICES ASSUME NodeInv, ResultInv, [Next]_vars, round' = 0 PROVE ResultInv'
  BY DEF ResultInv
<1>1. CASE PollBegin \/ PollEnd
  <2>1. UNCHANGED <<svms, commenced, round>>
    BY Zenon, <1>1 DEF PollBegin, PollEnd
  <2> QED BY Zenon, <2>1 DEF ResultInv, FirstRound
<1>2. CASE CommenceRequest
  <2>1. round = 0 /\ ~commenced
    BY <1>2 DEF CommenceRequest
  <2>2. ASSUME NEW i \in Ids PROVE FirstRound(svms[i])'
    <3>1. /\ svms[i] \in SVM /\ svms[i].old = {} /\ svms[i].st = "Start" /\ svms[i].task # "running"
      BY <2>1, WorkingStates DEF NodeInv, TypeOK, Instance, ResultInv, FirstRound
    <3>2. svms'[i] = Started(svms[i])
      BY <1>2 DEF CommenceRequest
    <3>3. svms'[i].old = {} /\ svms'[i].st = "NextTrace"
      BY <3>1, <3>2 DEF Started, SVM
    <3>4. commenced'
      BY <1>2 DEF CommenceRequest
    <3> QED BY <3>3, <3>4 DEF FirstRound
  <2> QED BY <2>2 DEF ResultInv
<1>3. CASE Requests /\ ~CommenceRequest
  <2>1. /\ ~ResetRequest
    BY DEF ResetRequest, NodeInv, TypeOK
  <2>2. UNCHANGED <<svms, commenced, round>>
    BY Zenon, <1>3, <2>1 DEF Requests, TransmitTests, TransmitErrorLogs, ReceiveTrace
  <2> QED BY Zenon, <2>2 DEF ResultInv, FirstRound
<1>4. CASE UNCHANGED vars
  BY <1>4 DEF vars, ResultInv, FirstRound
<1>5. CASE InitThrows
  <2>1. UNCHANGED <<svms, commenced, round>>
    BY Zenon, <1>5 DEF InitThrows
  <2> QED BY Zenon, <2>1 DEF ResultInv, FirstRound
<1> QED
  BY <1>1, <1>2, <1>3, <1>4, <1>5, ResultVisit, ResultTask DEF Next, Poll, Aborted

\* KleeFSM: for as long as no reset has let a task outlive its target, the tests that an
\* instance offers were generated from the trace that it was given.
THEOREM ResultsAreOfTrace == Spec => []ResultOfTrace
<1>1. ResultInv => ResultOfTrace
  BY DEF ResultInv, FirstRound, ResultOfTrace
<1> QED BY NodeInvariant, ResultInit, ResultStepHolds, <1>1, PTL DEF Spec

-----------------------------------------------------------------------------
(* The node is a WorkNode.                                                 *)

Busy == {i \in Ids : commenced /\ ~Idle(svms[i])}

\* The node as Dispatch sees it.
Seen == [inq |-> Len(queue), busy |-> Cardinality(Busy), seeds |-> 0, out |-> Len(tests),
         errs |-> errors, active |-> active, commenced |-> commenced, polling |-> cur > 0]

\* The definitions of NodeContract are the same through the instance.
LEMMA PolledMaps == Seen' \in Polled(Seen) => Contract!Next
<1> SUFFICES ASSUME NEW nd PROVE Contract!Polled(nd) = Polled(nd)
  BY Zenon DEF Contract!Next, Seen, Busy
<1> QED
  BY DEF Contract!Polled, Contract!PollStarted, Contract!PollEnded, Contract!Visited,
         Contract!Engaged, Contract!Dropped, Contract!Released, Contract!Seeded,
         Contract!Replaced, Contract!When, Polled, PollStarted, PollEnded, Visited, Engaged,
         Dropped, Released, Seeded, Replaced, When

LEMMA RequestMaps ==
  ASSUME ~Seen.polling,
         \/ Seen' = Reset(Seen) \/ Seen' = Commence(Seen, 0, 0)
         \/ Seen'.inq - Seen.inq = 1 /\ Seen' = Receive(Seen, 1)
         \/ \E k \in 0..Seen.out : Seen' = Transmit(Seen, k)
         \/ \E k \in 0..Seen.errs : Seen' = TransmitErrors(Seen, k)
  PROVE  Contract!Next
<1> DEFINE Same(nd, k) ==
             /\ Contract!Reset(nd) = Reset(nd) /\ Contract!Commence(nd, 0, 0) = Commence(nd, 0, 0)
             /\ Contract!Receive(nd, k) = Receive(nd, k) /\ Contract!Transmit(nd, k) = Transmit(nd, k)
             /\ Contract!TransmitErrors(nd, k) = TransmitErrors(nd, k)
<1>1. ASSUME NEW nd, NEW k PROVE Same(nd, k)
  BY DEF Contract!Reset, Contract!Commence, Contract!Receive, Contract!Transmit,
         Contract!TransmitErrors, Reset, Commence, Receive, Transmit, TransmitErrors
<1>2. 0 \in 0..Instances /\ 0 \in 0..0 /\ 1 \in 1..1
  BY InstancesAssumption
<1>3. CASE Seen' = Reset(Seen)
  BY Zenon, <1>1, <1>3 DEF Contract!Next, Contract!Listen, Seen, Busy
<1>4. CASE Seen' = Commence(Seen, 0, 0)
  BY Zenon, <1>1, <1>2, <1>4 DEF Contract!Next, Contract!Listen, Seen, Busy
<1>5. CASE Seen'.inq - Seen.inq = 1 /\ Seen' = Receive(Seen, 1)
  <2>1. Seen' = Contract!Receive(Seen, 1)
    BY <1>1, <1>5
  <2>2. 1 \in 1..(Seen'.inq - Seen.inq)
    BY <1>2, <1>5
  <2>3. \E k \in 1..(Seen'.inq - Seen.inq) : Seen' = Contract!Receive(Seen, k)
    BY <2>1, <2>2
  <2> QED BY Zenon, <2>3 DEF Contract!Next, Contract!Listen, Seen, Busy
<1>6. CASE \E k \in 0..Seen.out : Seen' = Transmit(Seen, k)
  BY Zenon, <1>1, <1>6 DEF Contract!Next, Contract!Listen, Seen, Busy
<1>7. CASE \E k \in 0..Seen.errs : Seen' = TransmitErrors(Seen, k)
  BY Zenon, <1>1, <1>7 DEF Contract!Next, Contract!Listen, Seen, Busy
<1> QED BY <1>3, <1>4, <1>5, <1>6, <1>7

\* Counting the busy instances.
LEMMA BusyFinite ==
  /\ IsFiniteSet(Busy) /\ Cardinality(Busy) \in Nat
  /\ Cardinality(Busy) = 0 <=> Busy = {}
<1>1. IsFiniteSet(Ids)
  BY FS_Interval, InstancesAssumption DEF Ids
<1>2. Busy \in SUBSET Ids
  BY DEF Busy
<1> HIDE DEF Busy
<1>3. IsFiniteSet(Busy)
  BY <1>1, <1>2, FS_Subset
<1> QED BY <1>3, FS_CardinalityType, FS_EmptySet

LEMMA BusyMore ==
  ASSUME NEW i \in Ids, i \notin Busy
  PROVE  Cardinality(Busy \cup {i}) = Cardinality(Busy) + 1 /\ Cardinality(Busy) < Instances
<1>1. IsFiniteSet(Ids) /\ Cardinality(Ids) = Instances
  BY FS_Interval, InstancesAssumption DEF Ids
<1>2. Busy \cup {i} \in SUBSET Ids
  BY DEF Busy
<1>3. Cardinality(Busy \cup {i}) = Cardinality(Busy) + 1
  BY BusyFinite, FS_AddElement
<1>4. Cardinality(Busy \cup {i}) <= Cardinality(Ids)
  BY <1>1, <1>2, FS_Subset
<1> QED BY <1>1, <1>3, <1>4, BusyFinite, InstancesAssumption

LEMMA BusyLess ==
  ASSUME NEW i \in Busy
  PROVE  Cardinality(Busy \ {i}) = Cardinality(Busy) - 1 /\ Cardinality(Busy) > 0
<1>1. Cardinality(Busy \ {i}) = Cardinality(Busy) - 1
  BY BusyFinite, FS_RemoveElement
<1>2. Cardinality(Busy) # 0
  BY BusyFinite
<1> QED BY <1>1, <1>2, BusyFinite

\* Two nodes are equal if their fields are.
LEMMA SameNode ==
  ASSUME NEW r \in NodeState, NEW s \in NodeState,
         r.inq = s.inq, r.busy = s.busy, r.seeds = s.seeds, r.out = s.out, r.errs = s.errs,
         r.active = s.active, r.commenced = s.commenced, r.polling = s.polling
  PROVE  r = s
BY DEF NodeState

SeenFields ==
  /\ Seen \in NodeState
  /\ Seen.inq = Len(queue) /\ Seen.busy = Cardinality(Busy) /\ Seen.seeds = 0
  /\ Seen.out = Len(tests) /\ Seen.errs = errors
  /\ Seen.active = active /\ Seen.commenced = commenced /\ Seen.polling = (cur > 0)

LEMMA SeenTyped == NodeInv => SeenFields
<1> SUFFICES ASSUME NodeInv PROVE SeenFields
  OBVIOUS
<1>1. /\ Len(queue) \in Nat /\ Len(tests) \in Nat /\ errors \in Nat
      /\ active \in BOOLEAN /\ commenced \in BOOLEAN /\ (cur > 0) \in BOOLEAN
  BY DEF NodeInv, TypeOK
<1>2. Cardinality(Busy) \in Nat
  BY BusyFinite
<1> QED BY Zenon, <1>1, <1>2 DEF SeenFields, Seen, NodeState

\* The fields of a node after its queues or its instances have changed.
Changed(m, nd, q, b, o, e) ==
  /\ m \in NodeState /\ m.inq = q /\ m.busy = b /\ m.out = o /\ m.errs = e /\ m.seeds = nd.seeds
  /\ m.active = nd.active /\ m.commenced = nd.commenced /\ m.polling = nd.polling

LEMMA EngagedIs ==
  ASSUME NEW nd \in NodeState, nd.inq > 0, nd.busy < Instances
  PROVE  \E m \in Engaged(nd) : Changed(m, nd, nd.inq - 1, nd.busy + 1, nd.out, nd.errs)
<1> DEFINE q == nd.inq - 1  b == nd.busy + 1  m == [nd EXCEPT !.inq = q, !.busy = b]
<1>1. q \in Nat /\ b \in Nat
  BY DEF NodeState
<1>2. m \in Engaged(nd)
  BY DEF Engaged, When
<1> HIDE DEF q, b
<1>3. Changed(m, nd, q, b, nd.out, nd.errs)
  BY Zenon, <1>1 DEF Changed, NodeState
<1> HIDE DEF m
<1> QED BY <1>2, <1>3 DEF q, b

LEMMA ReleasedIs ==
  ASSUME NEW nd \in NodeState, nd.busy > nd.seeds, NEW k \in 0..MaxYield, NEW e \in {0, 1}
  PROVE  \E m \in Released(nd) : Changed(m, nd, nd.inq, nd.busy - 1, nd.out + k, nd.errs + e)
<1> DEFINE b == nd.busy - 1  o == nd.out + k  l == nd.errs + e
           m == [nd EXCEPT !.busy = b, !.out = o, !.errs = l]
<1>1. b \in Nat /\ o \in Nat /\ l \in Nat
  BY MaxYieldAssumption DEF NodeState
<1>2. m \in Released(nd)
  <2> DEFINE Done(i, j) == [nd EXCEPT !.busy = nd.busy - 1, !.out = nd.out + i, !.errs = nd.errs + j]
             R == {Done(i, j) : i \in 0..MaxYield, j \in {0, 1}}
  <2>1. Released(nd) = R
    BY DEF Released, When
  <2> HIDE DEF Done
  <2>2. Done(k, e) \in R
    OBVIOUS
  <2>3. Done(k, e) = m
    BY DEF Done
  <2> HIDE DEF m, R
  <2> QED BY <2>1, <2>2, <2>3
<1> HIDE DEF b, o, l
<1>3. Changed(m, nd, nd.inq, b, o, l)
  BY Zenon, <1>1 DEF Changed, NodeState
<1> HIDE DEF m
<1> QED BY <1>2, <1>3 DEF b, o, l

\* A visit that leaves svm as instance i, as Dispatch sees it.
LEMMA VisitSeen ==
  ASSUME NodeInv, NodeInv', NEW i \in Ids, cur = i, NEW svm, Leave(i, svm) \/ Enter(i, svm)
  PROVE  /\ SeenFields /\ SeenFields' /\ Seen.polling
         /\ Seen'.active = Seen.active /\ Seen'.commenced = Seen.commenced
         /\ Seen'.polling = Seen.polling
         /\ Busy' = IF Idle(svm) THEN Busy \ {i} ELSE Busy \cup {i}
         /\ i \in Busy <=> ~Idle(svms[i])
<1>1. /\ svms' = [svms EXCEPT ![i] = svm] /\ UNCHANGED <<active, commenced>>
      /\ cur' = cur \/ cur' = i + 1
  BY DEF Leave, Enter
<1>2. i > 0 /\ i + 1 > 0 /\ i \in Nat
  BY InstancesAssumption DEF Ids
<1>3. commenced /\ cur > 0 /\ cur' > 0
  BY <1>1, <1>2 DEF NodeInv, Polling
<1>4. svms \in [Ids -> SVM]
  BY DEF NodeInv, TypeOK
<1>5. Busy' = IF Idle(svm) THEN Busy \ {i} ELSE Busy \cup {i}
  BY <1>1, <1>3, <1>4 DEF Busy
<1>6. i \in Busy <=> ~Idle(svms[i])
  BY <1>3 DEF Busy
<1>7. SeenFields /\ SeenFields'
  BY SeenTyped, PTL
<1> QED BY Zenon, <1>1, <1>3, <1>5, <1>6, <1>7 DEF SeenFields

\* A visit that leaves a busy instance busy, or an idle one idle, is not seen.
LEMMA VisitUnseen ==
  ASSUME NodeInv, NodeInv', NEW i \in Ids, cur = i, NEW svm, Leave(i, svm) \/ Enter(i, svm),
         Idle(svm) <=> Idle(svms[i]), UNCHANGED <<queue, tests, errors>>
  PROVE  Seen' = Seen
<1>1. /\ SeenFields /\ SeenFields' /\ Seen'.active = Seen.active
      /\ Seen'.commenced = Seen.commenced /\ Seen'.polling = Seen.polling
      /\ Busy' = IF Idle(svm) THEN Busy \ {i} ELSE Busy \cup {i}
      /\ i \in Busy <=> ~Idle(svms[i])
  BY VisitSeen
<1>2. Busy' = Busy
  BY <1>1
<1>3. /\ Seen' \in NodeState /\ Seen \in NodeState
      /\ Seen'.inq = Seen.inq /\ Seen'.busy = Seen.busy /\ Seen'.seeds = Seen.seeds
      /\ Seen'.out = Seen.out /\ Seen'.errs = Seen.errs
  BY Zenon, <1>1, <1>2 DEF SeenFields
<1> QED BY Zenon, <1>1, <1>3, SameNode

\* An idle instance that gets a trace is an instance engaged.
LEMMA EngagedSeen ==
  ASSUME NodeInv, NodeInv', NEW i \in Ids, cur = i, NEW svm, Enter(i, svm), ~Idle(svm),
         Idle(svms[i]), queue # <<>>, queue' = Tail(queue), UNCHANGED <<tests, errors>>
  PROVE  Seen' \in Polled(Seen)
<1>1. /\ SeenFields /\ SeenFields' /\ Seen.polling /\ Seen'.active = Seen.active
      /\ Seen'.commenced = Seen.commenced /\ Seen'.polling = Seen.polling
      /\ Busy' = Busy \cup {i} /\ i \notin Busy
  BY Zenon, VisitSeen
<1>2. Cardinality(Busy') = Cardinality(Busy) + 1 /\ Cardinality(Busy) < Instances
  BY Zenon, <1>1, BusyMore
<1>3. Len(queue) > 0 /\ Len(queue') = Len(queue) - 1
  <2>1. queue \in Seq(Traces)
    BY DEF NodeInv, TypeOK
  <2> QED BY <2>1
<1>4. PICK nd \in Engaged(Seen) :
        Changed(nd, Seen, Seen.inq - 1, Seen.busy + 1, Seen.out, Seen.errs)
  BY <1>1, <1>2, <1>3, EngagedIs DEF SeenFields
<1>5. /\ Seen'.inq = nd.inq /\ Seen'.busy = nd.busy /\ Seen'.seeds = nd.seeds
      /\ Seen'.out = nd.out /\ Seen'.errs = nd.errs
  BY <1>1, <1>2, <1>3, <1>4 DEF SeenFields, Changed
<1>6. /\ Seen'.active = nd.active /\ Seen'.commenced = nd.commenced /\ Seen'.polling = nd.polling
      /\ Seen' \in NodeState
  BY Zenon, <1>1, <1>4 DEF SeenFields, Changed
<1>7. Seen' = nd
  BY Zenon, <1>4, <1>5, <1>6, SameNode DEF Changed
<1> QED BY <1>1, <1>4, <1>7 DEF Polled, Visited, When

\* A busy instance that goes idle is an instance released, with the tests it has found and
\* perhaps an error log.
LEMMA ReleasedSeen ==
  ASSUME NodeInv, NodeInv', NEW i \in Ids, cur = i, NEW svm, Leave(i, svm), Idle(svm),
         ~Idle(svms[i]), tests' = Pushed(svms[i]), NEW e \in {0, 1}, errors' = errors + e,
         UNCHANGED queue
  PROVE  Seen' \in Polled(Seen)
<1>1. /\ SeenFields /\ SeenFields' /\ Seen.polling /\ Seen'.active = Seen.active
      /\ Seen'.commenced = Seen.commenced /\ Seen'.polling = Seen.polling
      /\ Busy' = Busy \ {i} /\ i \in Busy
  BY Zenon, VisitSeen
<1>2. Cardinality(Busy') = Cardinality(Busy) - 1 /\ Cardinality(Busy) > 0
  BY Zenon, <1>1, BusyLess
<1>3. PICK k \in 0..MaxYield : Len(tests') = Len(tests) + k
  BY Zenon, PushedTyped DEF NodeInv, TypeOK
<1>4. PICK nd \in Released(Seen) :
        Changed(nd, Seen, Seen.inq, Seen.busy - 1, Seen.out + k, Seen.errs + e)
  <2>1. Seen.busy > Seen.seeds
    BY <1>1, <1>2 DEF SeenFields
  <2> QED BY Zenon, <1>1, <2>1, ReleasedIs DEF SeenFields
<1>5. /\ Seen'.inq = nd.inq /\ Seen'.busy = nd.busy /\ Seen'.seeds = nd.seeds
      /\ Seen'.out = nd.out /\ Seen'.errs = nd.errs
  BY <1>1, <1>2, <1>3, <1>4 DEF SeenFields, Changed
<1>6. /\ Seen'.active = nd.active /\ Seen'.commenced = nd.commenced /\ Seen'.polling = nd.polling
      /\ Seen' \in NodeState
  BY Zenon, <1>1, <1>4 DEF SeenFields, Changed
<1>7. Seen' = nd
  BY <1>4, <1>5, <1>6, SameNode DEF Changed
<1> QED BY Zenon, <1>1, <1>4, <1>7 DEF Polled, Visited, When

LEMMA VisitMaps ==
  ASSUME NodeInv, NodeInv', NEW i \in Ids, Visit(i)
  PROVE  Seen' \in Polled(Seen) \/ Seen' = Seen
<1>1. CASE VisitNextTrace(i)
  <2>1. Idle(svms[i]) /\ cur = i /\ UNCHANGED <<tests, errors>> /\ svms[i] \in SVM
    BY <1>1 DEF VisitNextTrace, Visiting, Idle, NodeInv, TypeOK
  <2>2. CASE Leave(i, svms[i]) /\ UNCHANGED queue
    BY <2>1, <2>2, VisitUnseen
  <2> DEFINE svm == [svms[i] EXCEPT !.st = "Prepare", !.trace = Head(queue), !.task = "running"]
  <2>3. ~Idle(svm)
    BY <2>1 DEF Idle, SVM
  <2>4. CASE queue # <<>> /\ queue' = Tail(queue) /\ Enter(i, svm)
    <3> HIDE DEF svm
    <3> QED BY <2>1, <2>3, <2>4, EngagedSeen
  <2> QED BY <1>1, <2>2, <2>4 DEF VisitNextTrace
<1>2. CASE VisitResultReady(i)
  <2> DEFINE svm == [svms[i] EXCEPT !.st = "NextTrace", !.trace = None]
  <2>1. /\ svms[i] \in SVM /\ cur = i /\ svms[i].st = "ResultReady" /\ tests' = Pushed(svms[i])
        /\ Leave(i, svm) /\ UNCHANGED <<queue, errors>> /\ errors \in Nat
    BY <1>2 DEF VisitResultReady, Visiting, NodeInv, TypeOK
  <2>2. Idle(svm) /\ ~Idle(svms[i]) /\ errors' = errors + 0
    BY <2>1 DEF Idle, SVM
  <2> HIDE DEF svm
  <2> QED BY <2>1, <2>2, ReleasedSeen
<1>3. CASE VisitError(i)
  <2>1. /\ cur = i /\ svms[i].st # "NextTrace" /\ tests' = Pushed(svms[i])
        /\ errors' = errors + 1 /\ Leave(i, Started(NewSVM)) /\ UNCHANGED queue
    BY <1>3 DEF VisitError, Visiting
  <2>2. Idle(Started(NewSVM)) /\ ~Idle(svms[i])
    BY <2>1 DEF Idle, Started, NewSVM
  <2> QED BY <2>1, <2>2, ReleasedSeen
<1>4. CASE VisitPoll(i)
  <2>1. UNCHANGED <<queue, tests, errors>>
    BY Zenon, <1>4 DEF VisitPoll
  <2>2. ~Idle(svms[i]) /\ cur = i
    BY Zenon, <1>4, PollVisit, WorkingStates DEF Idle
  <2>3. CASE UNCHANGED <<active, commenced, svms, cur>>
    BY Zenon, <2>1, <2>3 DEF Seen, Busy, Idle
  <2>4. CASE \E svm \in SVM : ~Idle(svm) /\ (Leave(i, svm) \/ Enter(i, svm))
    BY <2>1, <2>2, <2>4, VisitUnseen
  <2> QED BY Zenon, <1>4, <2>3, <2>4, PollVisit
<1>5. CASE Joined(i)
  <2>1. /\ UNCHANGED <<queue, tests, errors, active, commenced, svms>>
        /\ (cur > 0) = TRUE /\ (cur' > 0) = TRUE
    BY <1>5, InstancesAssumption DEF Joined, Ids
  <2> QED BY Zenon, <2>1 DEF Seen, Busy, Idle
<1> QED BY <1>1, <1>2, <1>3, <1>4, <1>5 DEF Visit

LEMMA SameFlags ==
  ASSUME NEW r \in NodeState, NEW s \in NodeState,
         r.inq = s.inq, r.busy = s.busy, r.seeds = s.seeds, r.out = s.out, r.errs = s.errs,
         r.active <=> s.active, r.commenced <=> s.commenced, r.polling <=> s.polling
  PROVE  r = s
<1>1. r.active = s.active /\ r.commenced = s.commenced /\ r.polling = s.polling
  BY DEF NodeState
<1> QED BY <1>1, SameNode

\* poll() begins and ends; at the end anyActive tells whether an instance is busy.
LEMMA BeginMaps == ASSUME NodeInv, NodeInv', PollBegin PROVE Seen' \in Polled(Seen)
<1>1. /\ cur = 0 /\ commenced /\ cur' = 1
      /\ UNCHANGED <<queue, tests, errors, active, commenced, svms>>
  BY DEF PollBegin, Free
<1>2. SeenFields /\ SeenFields'
  BY SeenTyped, PTL
<1>3. Busy' = Busy
  BY <1>1 DEF Busy, Idle
<1>4. ~Seen.polling /\ Seen.commenced /\ Seen'.polling
  <2>1. ~(cur > 0) /\ cur' > 0
    BY <1>1
  <2> QED BY Zenon, <1>1, <1>2, <2>1 DEF SeenFields
<1> DEFINE nd == [Seen EXCEPT !.polling = TRUE]
<1>5. nd \in Polled(Seen)
  BY <1>4 DEF Polled, PollStarted, When
<1>6. Seen \in NodeState /\ Seen.active \in BOOLEAN
  BY <1>2 DEF SeenFields, NodeState
<1>7. /\ nd \in NodeState /\ nd.inq = Seen.inq /\ nd.busy = Seen.busy /\ nd.seeds = Seen.seeds
      /\ nd.out = Seen.out /\ nd.errs = Seen.errs /\ nd.commenced = Seen.commenced
      /\ nd.polling /\ (nd.active <=> Seen.active)
  BY Zenon, <1>6 DEF NodeState
<1> HIDE DEF nd
<1>8. Seen' = nd
  BY Zenon, <1>1, <1>2, <1>3, <1>4, <1>7, SameFlags DEF SeenFields
<1> QED BY <1>5, <1>8

LEMMA EndMaps == ASSUME NodeInv, NodeInv', PollEnd PROVE Seen' \in Polled(Seen)
<1>1. /\ cur = Instances + 1 /\ cur' = 0 /\ active' = anyActive
      /\ UNCHANGED <<queue, tests, errors, commenced, svms>>
  BY DEF PollEnd
<1>2. SeenFields /\ SeenFields'
  BY SeenTyped, PTL
<1>3. Busy' = Busy
  BY <1>1 DEF Busy, Idle
<1>4. cur > 0 /\ commenced /\ (anyActive <=> \E j \in Ids : j < cur /\ ~Idle(svms[j]))
  BY <1>1, InstancesAssumption DEF NodeInv, Polling
<1>5. anyActive <=> Busy # {}
  <2>1. \A j \in Ids : j < cur
    BY <1>1, InstancesAssumption DEF Ids
  <2> QED BY <1>4, <2>1 DEF Busy
<1>6. anyActive <=> Seen.busy > 0
  BY <1>2, <1>5, BusyFinite DEF SeenFields
<1>7. Seen.polling /\ ~Seen'.polling
  <2>1. ~(cur' > 0)
    BY <1>1
  <2> QED BY Zenon, <1>2, <1>4, <2>1 DEF SeenFields
<1> DEFINE b == Seen.busy > 0  nd == [Seen EXCEPT !.polling = FALSE, !.active = b]
<1>8. nd \in Polled(Seen)
  BY <1>7 DEF Polled, PollEnded, When
<1>9. b \in BOOLEAN /\ Seen \in NodeState /\ b = anyActive
  <2>1. b \in BOOLEAN /\ anyActive \in BOOLEAN
    BY DEF NodeInv, TypeOK
  <2> HIDE DEF b
  <2>2. b = anyActive
    BY <1>6, <2>1 DEF b
  <2> QED BY Zenon, <1>2, <2>1, <2>2 DEF SeenFields
<1> HIDE DEF b
<1>10. /\ nd \in NodeState /\ nd.inq = Seen.inq /\ nd.busy = Seen.busy /\ nd.seeds = Seen.seeds
       /\ nd.out = Seen.out /\ nd.errs = Seen.errs /\ nd.commenced = Seen.commenced
       /\ ~nd.polling /\ (nd.active <=> b)
  BY Zenon, <1>9 DEF NodeState
<1> HIDE DEF nd
<1>11. Seen' = nd
  <2>1. /\ Seen' \in NodeState
        /\ (Seen'.commenced <=> nd.commenced) /\ (Seen'.polling <=> nd.polling)
    BY Zenon, <1>1, <1>2, <1>7, <1>10 DEF SeenFields
  <2>3. Seen'.active = b
    BY Zenon, <1>1, <1>2, <1>9 DEF SeenFields
  <2>4. Seen'.active <=> nd.active
    BY Zenon, <1>10, <2>3
  <2>2. /\ Seen'.inq = nd.inq /\ Seen'.busy = nd.busy /\ Seen'.seeds = nd.seeds
        /\ Seen'.out = nd.out /\ Seen'.errs = nd.errs
    BY Zenon, <1>1, <1>2, <1>3, <1>10 DEF SeenFields
  <2> QED BY Zenon, <1>10, <2>1, <2>2, <2>4, SameFlags
<1> QED BY <1>8, <1>11

\* The requests of Dispatch.
LEMMA RequestsMap == ASSUME NodeInv, NodeInv', Requests PROVE Contract!Next
<1>1. SeenFields /\ SeenFields'
  BY SeenTyped, PTL
<1>2. cur = 0 /\ UNCHANGED cur
  BY DEF Requests, CommenceRequest, ResetRequest, TransmitTests, TransmitErrorLogs,
         ReceiveTrace, Free
<1>3. ~(cur > 0) /\ ~(cur' > 0)
  BY <1>2
<1>4. ~Seen.polling /\ ~Seen'.polling
  BY Zenon, <1>1, <1>3 DEF SeenFields
<1>5. CASE CommenceRequest
  <2>1. /\ UNCHANGED <<queue, tests, errors, active>> /\ commenced'
    BY <1>5 DEF CommenceRequest
  <2>2. Busy' = {}
    BY <1>5, CommenceStep DEF Busy
  <2>3. Seen'.busy = 0
    BY <1>1, <2>2, FS_EmptySet DEF SeenFields
  <2> DEFINE nd == Commence(Seen, 0, 0)
  <2>4. /\ nd \in NodeState /\ nd.inq = Seen.inq /\ nd.busy = 0 /\ nd.seeds = 0
        /\ nd.out = Seen.out /\ nd.errs = Seen.errs /\ nd.commenced
        /\ ~nd.polling /\ (nd.active <=> Seen.active)
    BY Zenon, <1>1, <1>4 DEF SeenFields, NodeState, Commence
  <2> HIDE DEF nd
  <2>5. Seen'.commenced /\ (Seen'.active <=> Seen.active)
    BY <1>1, <2>1 DEF SeenFields
  <2>6. Seen' = nd
    BY <1>1, <1>4, <2>1, <2>3, <2>4, <2>5, SameFlags DEF SeenFields
  <2> QED BY <1>4, <2>6, RequestMaps DEF nd
<1>6. CASE ResetRequest
  <2>1. /\ queue' = <<>> /\ tests' = <<>> /\ ~commenced' /\ active' /\ UNCHANGED errors
    BY <1>6 DEF ResetRequest
  <2>2. Busy' = {}
    BY <2>1 DEF Busy
  <2>3. Seen'.busy = 0 /\ Seen'.inq = 0 /\ Seen'.out = 0 /\ ~Seen'.commenced /\ Seen'.active
    BY <1>1, <2>1, <2>2, FS_EmptySet DEF SeenFields
  <2> DEFINE nd == Reset(Seen)
  <2>4. /\ nd \in NodeState /\ nd.inq = 0 /\ nd.busy = 0 /\ nd.seeds = 0
        /\ nd.out = 0 /\ nd.errs = Seen.errs /\ ~nd.commenced /\ ~nd.polling /\ nd.active
    BY Zenon, <1>1, <1>4 DEF SeenFields, NodeState, Reset
  <2> HIDE DEF nd
  <2>5. Seen' = nd
    BY <1>1, <1>4, <2>1, <2>3, <2>4, SameFlags DEF SeenFields
  <2> QED BY <1>4, <2>5, RequestMaps DEF nd
<1>7. CASE \E t \in Traces : ReceiveTrace(t)
  <2>1. PICK t \in Traces : ReceiveTrace(t)
    BY <1>7
  <2>2. /\ Len(queue') = Len(queue) + 1 /\ Len(queue) \in Nat
        /\ UNCHANGED <<tests, errors, active, commenced, svms>>
    BY <2>1 DEF ReceiveTrace, NodeInv, TypeOK
  <2>3. Busy' = Busy
    BY <2>2 DEF Busy, Idle
  <2> DEFINE n == Seen.inq + 1  nd == [Seen EXCEPT !.inq = n]
  <2>4. n \in Nat /\ n = Seen'.inq /\ Seen'.inq - Seen.inq = 1
    BY <1>1, <2>2 DEF SeenFields
  <2>5. nd = Receive(Seen, 1)
    BY DEF Receive
  <2> HIDE DEF n
  <2>6. Changed(nd, Seen, n, Seen.busy, Seen.out, Seen.errs)
    BY Zenon, <1>1, <2>4 DEF SeenFields, NodeState, Changed
  <2> HIDE DEF nd
  <2>7. Seen' = nd
    BY <1>1, <1>2, <2>2, <2>3, <2>4, <2>6, SameNode DEF SeenFields, Changed
  <2> QED BY <1>4, <2>4, <2>5, <2>7, RequestMaps
<1>8. CASE TransmitTests
  <2>1. PICK k \in 1..Len(tests) : tests' = SubSeq(tests, k + 1, Len(tests))
    BY <1>8 DEF TransmitTests
  <2>2. /\ Len(tests') = Len(tests) - k /\ Len(tests) \in Nat
        /\ UNCHANGED <<queue, errors, active, commenced, svms>>
    <3>1. tests \in Seq(Traces \cup {None})
      BY Zenon DEF NodeInv, TypeOK
    <3>a. Len(tests) \in Nat
      BY <3>1
    <3>2. Len(SubSeq(tests, k + 1, Len(tests))) = Len(tests) - k
      BY <3>1
    <3> QED BY Zenon, <1>8, <2>1, <3>a, <3>2 DEF TransmitTests
  <2>3. Busy' = Busy
    BY <2>2 DEF Busy, Idle
  <2> DEFINE n == Seen.out - k  nd == [Seen EXCEPT !.out = n]
  <2>4. n \in Nat /\ n = Seen'.out /\ k \in 0..Seen.out
    BY <1>1, <2>1, <2>2 DEF SeenFields
  <2>5. nd = Transmit(Seen, k)
    BY DEF Transmit
  <2> HIDE DEF n
  <2>6. Changed(nd, Seen, Seen.inq, Seen.busy, n, Seen.errs)
    BY Zenon, <1>1, <2>4 DEF SeenFields, NodeState, Changed
  <2> HIDE DEF nd
  <2>7. Seen' = nd
    BY <1>1, <1>2, <2>2, <2>3, <2>4, <2>6, SameNode DEF SeenFields, Changed
  <2> QED BY <1>4, <2>4, <2>5, <2>7, RequestMaps
<1>9. CASE TransmitErrorLogs
  <2>1. PICK k \in 1..errors : errors' = errors - k
    BY <1>9 DEF TransmitErrorLogs
  <2>2. UNCHANGED <<queue, tests, active, commenced, svms>> /\ errors \in Nat
    BY <1>9 DEF TransmitErrorLogs, NodeInv, TypeOK
  <2>3. Busy' = Busy
    BY <2>2 DEF Busy, Idle
  <2> DEFINE n == Seen.errs - k  nd == [Seen EXCEPT !.errs = n]
  <2>4. n \in Nat /\ n = Seen'.errs /\ k \in 0..Seen.errs
    BY <1>1, <2>1, <2>2 DEF SeenFields
  <2>5. nd = TransmitErrors(Seen, k)
    BY DEF TransmitErrors
  <2> HIDE DEF n
  <2>6. Changed(nd, Seen, Seen.inq, Seen.busy, Seen.out, n)
    BY Zenon, <1>1, <2>4 DEF SeenFields, NodeState, Changed
  <2> HIDE DEF nd
  <2>7. Seen' = nd
    BY Zenon, <1>1, <1>2, <2>2, <2>3, <2>4, <2>6, SameNode DEF SeenFields, Changed
  <2> QED BY <1>4, <2>4, <2>5, <2>7, RequestMaps
<1> QED BY <1>5, <1>6, <1>7, <1>8, <1>9 DEF Requests

\* A task that runs or ends is not seen.
LEMMA TasksUnseen ==
  ASSUME NodeInv, NEW i \in Ids, Progress(i) \/ TaskFails(i) \/ OldTaskFails(i) PROVE Seen' = Seen
<1>1. UNCHANGED <<queue, tests, errors, active, commenced, cur>>
  BY DEF Progress, TaskFails, OldTaskFails
<1>2. svms \in [Ids -> SVM]
  BY DEF NodeInv, TypeOK
<1>3. \A j \in Ids : svms'[j].st = svms[j].st
  <2>1. CASE TaskDone(i)
    BY <1>2, <2>1 DEF TaskDone, SVM
  <2>2. CASE OldTaskDone(i)
    BY <1>2, <2>2 DEF OldTaskDone, SVM
  <2>3. CASE TaskFails(i)
    BY <1>2, <2>3 DEF TaskFails, SVM
  <2>4. CASE OldTaskFails(i)
    BY <1>2, <2>4 DEF OldTaskFails, SVM
  <2> QED BY <2>1, <2>2, <2>3, <2>4 DEF Progress
<1>4. Busy' = Busy
  BY <1>1, <1>3 DEF Busy, Idle
<1> QED BY Zenon, <1>1, <1>4 DEF Seen

LEMMA StepMaps == NodeInv /\ NodeInv' /\ [Next]_vars => Contract!Next \/ Seen' = Seen
<1> SUFFICES ASSUME NodeInv, NodeInv', [Next]_vars PROVE Contract!Next \/ Seen' = Seen
  OBVIOUS
<1>1. CASE UNCHANGED vars
  BY Zenon, <1>1 DEF vars, Seen, Busy, Idle
<1>2. CASE InitThrows
  BY Zenon, <1>2 DEF InitThrows, Seen, Busy, Idle
<1> QED
  BY <1>1, <1>2, BeginMaps, EndMaps, VisitMaps, PolledMaps, RequestsMap, TasksUnseen
     DEF Next, Poll, Aborted

\* What Dispatch relies on of a node holds of SVMNode, whatever fails in its tasks and
\* whatever a reset leaves running: each step of the node is a step of WorkNode, or not seen.
THEOREM SVMNodeIsWorkNode == Spec => ImplementsWorkNode
<1>1. Init => Contract!Init
  <2> SUFFICES ASSUME Init PROVE Seen = NewNode
    BY Zenon DEF Contract!Init, Contract!NewNode, NewNode, Seen, Busy
  <2>1. Busy = {} /\ cur = 0
    BY DEF Init, Busy
  <2>2. ~(cur > 0)
    BY <2>1
  <2>3. SeenFields
    BY NodeInit, SeenTyped
  <2>4. /\ Seen.inq = 0 /\ Seen.busy = 0 /\ Seen.seeds = 0 /\ Seen.out = 0 /\ Seen.errs = 0
        /\ Seen.active /\ ~Seen.commenced /\ ~Seen.polling
    BY Zenon, <2>1, <2>2, <2>3, FS_EmptySet DEF Init, SeenFields
  <2>5. /\ NewNode \in NodeState
        /\ NewNode.inq = 0 /\ NewNode.busy = 0 /\ NewNode.seeds = 0 /\ NewNode.out = 0
        /\ NewNode.errs = 0 /\ NewNode.active /\ ~NewNode.commenced /\ ~NewNode.polling
    BY DEF NewNode, NodeState
  <2> QED BY <2>3, <2>4, <2>5, SameFlags DEF SeenFields
<1>2. NodeInv /\ NodeInv' /\ [Next]_vars => [Contract!Next]_Seen
  BY StepMaps
<1> QED BY <1>1, <1>2, NodeInvariant, PTL DEF Spec, ImplementsWorkNode, Contract!Spec, Seen, Busy

=============================================================================
