---------------------------- MODULE VMNodeProofs ----------------------------
(***************************************************************************)
(* A VM node with any number of instances, tests, faults and resets: its   *)
(* types, which trace and which test poll() handles, and that it is a      *)
(* WorkNode.                                                               *)
(***************************************************************************)
EXTENDS VMNode, FiniteSetTheorems, TLAPS

-----------------------------------------------------------------------------
(* Instances.                                                              *)

\* The fields of an instance after an event has changed some of them.
Fields(new, st, term, err, task, conn, proc, first, test, trace, ready) ==
  /\ new \in VM
  /\ new.st = st /\ (new.term <=> term) /\ (new.err <=> err) /\ new.task = task
  /\ new.conn = conn /\ new.proc = proc /\ (new.first <=> first) /\ new.test = test
  /\ new.trace = trace /\ (new.ready <=> ready)

LEMMA SetState ==
  ASSUME NEW vm \in VM, NEW st \in States
  PROVE  Fields([vm EXCEPT !.st = st], st, vm.term, vm.err, vm.task, vm.conn, vm.proc, vm.first,
                vm.test, vm.trace, vm.ready)
BY DEF Fields, VM

LEMMA SetStateTask ==
  ASSUME NEW vm \in VM, NEW st \in States, NEW task \in Tasks
  PROVE  Fields([vm EXCEPT !.st = st, !.task = task], st, vm.term, vm.err, task, vm.conn, vm.proc,
                vm.first, vm.test, vm.trace, vm.ready)
BY Zenon DEF Fields, VM

LEMMA SetStateTest ==
  ASSUME NEW vm \in VM, NEW st \in States, NEW t \in Tests \cup {Initial, None}
  PROVE  Fields([vm EXCEPT !.st = st, !.test = t], st, vm.term, vm.err, vm.task, vm.conn, vm.proc,
                vm.first, t, vm.trace, vm.ready)
BY Zenon DEF Fields, VM

LEMMA SetStateConn ==
  ASSUME NEW vm \in VM, NEW st \in States, NEW conn \in Tasks
  PROVE  Fields([vm EXCEPT !.st = st, !.conn = conn], st, vm.term, vm.err, vm.task, conn, vm.proc,
                vm.first, vm.test, vm.trace, vm.ready)
BY Zenon DEF Fields, VM

LEMMA SetConn ==
  ASSUME NEW vm \in VM, NEW conn \in Tasks
  PROVE  Fields([vm EXCEPT !.conn = conn], vm.st, vm.term, vm.err, vm.task, conn, vm.proc, vm.first,
                vm.test, vm.trace, vm.ready)
BY DEF Fields, VM

LEMMA SetError ==
  ASSUME NEW vm \in VM
  PROVE  Fields([vm EXCEPT !.err = TRUE], vm.st, vm.term, TRUE, vm.task, vm.conn, vm.proc, vm.first,
                vm.test, vm.trace, vm.ready)
BY Zenon DEF Fields, VM

LEMMA SetTerm ==
  ASSUME NEW vm \in VM
  PROVE  Fields([vm EXCEPT !.term = TRUE], vm.st, TRUE, vm.err, vm.task, vm.conn, vm.proc, vm.first,
                vm.test, vm.trace, vm.ready)
BY Zenon DEF Fields, VM

\* A VM that is killed.
LEMMA KilledIs ==
  ASSUME NEW vm \in VM
  PROVE  Fields(Killed(vm), vm.st, vm.term, vm.err, vm.task, vm.conn,
                IF vm.proc = "up" THEN "dead" ELSE vm.proc, vm.first, vm.test, vm.trace, vm.ready)
<1> DEFINE p == IF vm.proc = "up" THEN "dead" ELSE vm.proc
<1>1. p \in {"none", "up", "dead"}
  BY DEF VM
<1>2. Killed(vm) = [vm EXCEPT !.proc = p]
  BY DEF Killed
<1> HIDE DEF p
<1>3. Fields([vm EXCEPT !.proc = p], vm.st, vm.term, vm.err, vm.task, vm.conn, p, vm.first,
             vm.test, vm.trace, vm.ready)
  BY <1>1 DEF Fields, VM
<1> QED BY <1>2, <1>3 DEF p

LEMMA NewIs ==
  Fields(NewVM, "Start", FALSE, FALSE, "done", "done", "none", FALSE, None, None, FALSE)
BY DEF Fields, VM, NewVM, States, Tasks, Running

LEMMA StartedIs ==
  ASSUME NEW first \in BOOLEAN
  PROVE  Fields(Started(first), IF Distributed THEN "ValidateImage" ELSE "ConnectVM", FALSE, FALSE,
                "done", "done", IF Distributed THEN "none" ELSE "up", first, None, None, FALSE)
<1> DEFINE st == IF Distributed THEN "ValidateImage" ELSE "ConnectVM"
           p == IF Distributed THEN "none" ELSE "up"
<1>1. st \in States /\ p \in {"none", "up", "dead"}
  BY DEF States
<1>2. Started(first) = [NewVM EXCEPT !.first = first, !.st = st, !.proc = p]
  BY DEF Started
<1> HIDE DEF st, p
<1>3. Fields([NewVM EXCEPT !.first = first, !.st = st, !.proc = p], st, FALSE, FALSE, "done", "done",
             p, first, None, None, FALSE)
  BY Zenon, <1>1, NewIs DEF Fields, VM
<1> QED BY Zenon, <1>2, <1>3 DEF st, p

-----------------------------------------------------------------------------
(* What a visit to an instance does.                                       *)

\* The instance holds test t, and may still queue the initial test.
Holds(vm, t) == vm.st \in {"Testing", "StoreTrace", "Finished"} /\ vm.test = t
Seed(vm) == Busy(vm) /\ vm.first /\ vm.st \in Booting

Alike(vm, new) == \A t \in Tests \cup {Initial} : Holds(new, t) <=> Holds(vm, t)

\* The ways in which a visit that leaves vm as new changes the queues.
Quiet(vm, new) ==
  /\ UNCHANGED <<queue, traces, errors, given>>
  /\ Alike(vm, new) /\ (Busy(new) <=> Busy(vm)) /\ (Seed(new) <=> Seed(vm))

Idles(vm, new) ==
  UNCHANGED <<queue, traces, errors, given>> /\ Alike(vm, new) /\ Busy(vm) /\ ~Busy(new)

Drops(vm, new) ==
  /\ queue # <<>> /\ queue' = Tail(queue) /\ UNCHANGED <<traces, errors, given>>
  /\ Alike(vm, new) /\ ~Busy(vm) /\ ~Busy(new) /\ ~Unfailed'

Rotates(vm, new) ==
  /\ queue # <<>> /\ queue' = Append(Tail(queue), Head(queue)) /\ UNCHANGED <<traces, errors, given>>
  /\ Alike(vm, new) /\ ~Busy(vm) /\ ~Busy(new)

Takes(vm, new) ==
  /\ queue # <<>> /\ queue' = Tail(queue) /\ UNCHANGED <<traces, errors, given>>
  /\ vm.st = "NextTest" /\ ~Busy(vm)
  /\ new.st = "Testing" /\ new.test = Head(queue) /\ Busy(new) /\ ~Seed(new)

Delivers(vm, new) ==
  /\ traces' = Append(traces, vm.trace) /\ UNCHANGED <<queue, errors, given>>
  /\ vm.st = "Finished" /\ Busy(vm) /\ ~Seed(vm) /\ new.st = "NextTest" /\ ~Busy(new)

Deduces(vm, new) ==
  /\ queue' = Append(queue, Initial) /\ given' = Append(given, Initial)
  /\ UNCHANGED <<traces, errors>>
  /\ Alike(vm, new) /\ Seed(vm) /\ ~Busy(new)

Replaces(vm, new) ==
  /\ errors' = errors + 1 /\ UNCHANGED <<queue, traces, given>>
  /\ Busy(vm) /\ Busy(new) /\ ~Seed(new) /\ (\A t \in Tests \cup {Initial} : ~Holds(new, t))
  /\ ~Unfailed'

Effect(vm, new) ==
  \/ Quiet(vm, new) \/ Idles(vm, new) \/ Drops(vm, new) \/ Rotates(vm, new)
  \/ Takes(vm, new) \/ Delivers(vm, new) \/ Deduces(vm, new) \/ Replaces(vm, new)

\* A visit that does not abort the node leaves the instance, or throws.
Good(new) == new \in VM /\ Sound(new) /\ (NoRace => Traced(new))

Ends(i, new) ==
  /\ Good(new)
  /\ \/ Leave(i, new) /\ exc' = "none" /\ (Unfailed => Calm(new))
     \/ /\ \E e \in {"failVM", "fail", "clean"} : Throw(i, new, e)
        /\ faults' \in 0..faults /\ ~Unfailed' /\ ~new.term
        /\ new.st \notin {"GuestDataRxed", "Finished"} /\ (new.err => new.st = "NextTest")

\* What is known of the instance that poll() visits.
LEMMA VisitedIs ==
  ASSUME NodeInv, NEW i \in Ids, cur = i
  PROVE  /\ Good(vms[i]) /\ (Unfailed => Calm(vms[i])) /\ commenced /\ ~joining
         /\ vms[i] \in VM /\ vms \in [Ids -> VM] /\ faults \in 0..MaxFaults /\ MaxFaults \in Nat
         /\ queue \in Seq(Tests \cup {Initial}) /\ i \in Nat /\ i > 0 /\ i <= Instances
<1>1. i \in Nat /\ i > 0 /\ i <= Instances
  BY InstancesAssumption DEF Ids
<1> QED BY <1>1, VMNodeAssumption DEF NodeInv, TypeOK, Polling, Instance, Good

\* poll() takes the trace of an instance in Finished.
LEMMA FinishedVisit ==
  ASSUME NodeInv, NEW i \in Ids, VisitFinished(i)
  PROVE  \E new : Ends(i, new) /\ Effect(vms[i], new)
<1> DEFINE vm == vms[i]  new == TraceQueued(vm)
<1>1. /\ Good(vm) /\ (Unfailed => Calm(vm)) /\ vm \in VM /\ vm.st = "Finished" /\ Leave(i, new)
      /\ exc' = "none" /\ traces' = Append(traces, vm.trace) /\ UNCHANGED <<queue, errors, given>>
  BY VisitedIs DEF VisitFinished, Visiting
<1>2. Fields(new, "NextTest", vm.term, vm.err, vm.task, vm.conn, vm.proc, vm.first, None, vm.trace,
             vm.ready)
  BY Zenon, <1>1, SetStateTest DEF TraceQueued, States
<1> HIDE DEF new, vm
<1>3. Ends(i, new)
  BY <1>1, <1>2 DEF Ends, Good, Fields, Sound, Traced, Calm
<1>4. Delivers(vm, new)
  BY <1>1, <1>2 DEF Delivers, Fields, Good, Sound, Busy, Seed, Booting
<1> QED BY <1>3, <1>4 DEF Effect, vm

LEMMA LeaveEnds ==
  ASSUME NEW i, NEW new, Good(new), Unfailed => Calm(new), Leave(i, new), exc' = "none"
  PROVE  Ends(i, new)
BY DEF Ends

\* An exception has a fault as its cause, now or earlier.
LEMMA ThrowEnds ==
  ASSUME NodeInv, NEW i, NEW new, Good(new), NEW e \in {"failVM", "fail", "clean"},
         Throw(i, new, e), (UNCHANGED faults /\ ~Unfailed) \/ \E kind : Fault(kind), ~new.term,
         new.st \notin {"GuestDataRxed", "Finished"}, new.err => new.st = "NextTest"
  PROVE  Ends(i, new) /\ ~Unfailed'
<1>1. faults \in 0..MaxFaults /\ MaxFaults \in Nat
  BY VMNodeAssumption DEF NodeInv, TypeOK
<1>2. faults' \in 0..faults /\ ~Unfailed'
  BY <1>1 DEF Fault, Unfailed
<1> QED BY <1>2 DEF Ends

\* A test that is taken from the queue without being taken by the instance.
LEMMA NextTestThrows ==
  ASSUME NodeInv, NEW i \in Ids, VisitNextTest(i), queue # <<>>, queue' = Tail(queue), ~vms[i].term,
         NEW new, Good(new), new.st = "NextTest", ~new.term,
         NEW e \in {"failVM", "fail"}, Throw(i, new, e),
         (UNCHANGED faults /\ ~Unfailed) \/ \E kind : Fault(kind)
  PROVE  Ends(i, new) /\ Effect(vms[i], new)
<1>1. vms[i].st = "NextTest" /\ UNCHANGED <<traces, errors, given>>
  BY DEF VisitNextTest
<1>2. Ends(i, new) /\ ~Unfailed'
  BY ThrowEnds
<1>3. Drops(vms[i], new)
  BY <1>1, <1>2 DEF Drops, Alike, Holds, Busy
<1> QED BY <1>2, <1>3 DEF Effect

\* poll() starts a test, or rejects it, or the instance throws.
LEMMA NextTestVisit ==
  ASSUME NodeInv, NEW i \in Ids, VisitNextTest(i)
  PROVE  \E new : Ends(i, new) /\ Effect(vms[i], new)
<1> DEFINE vm == vms[i]  t == Head(queue)
<1>1. /\ Good(vm) /\ (Unfailed => Calm(vm)) /\ vm \in VM /\ vm.st = "NextTest" /\ exc = "none"
      /\ UNCHANGED <<traces, errors, given>> /\ queue \in Seq(Tests \cup {Initial})
  BY VisitedIs DEF VisitNextTest, Visiting
<1>2. ~Busy(vm)
  BY <1>1 DEF Busy
<1>3. ASSUME Leave(i, vm), UNCHANGED exc PROVE Ends(i, vm) /\ Alike(vm, vm)
  BY <1>1, <1>3, LeaveEnds DEF Alike
<1>4. CASE queue = <<>> /\ Leave(i, vm) /\ UNCHANGED <<queue, exc>>
  BY <1>1, <1>3, <1>4 DEF Effect, Quiet
<1>5. CASE queue # <<>> /\ vm.term /\ queue' = Tail(queue) /\ Leave(i, vm) /\ UNCHANGED exc
  <2>1. ~Unfailed'
    BY <1>1, <1>5 DEF Calm, Leave, Unfailed
  <2> QED BY <1>1, <1>2, <1>3, <1>5, <2>1 DEF Effect, Drops
<1>6. CASE queue # <<>> /\ queue' = Rejected(t) /\ Leave(i, vm) /\ UNCHANGED exc
  BY <1>1, <1>2, <1>3, <1>6 DEF Effect, Rotates, Rejected
<1>7. CASE /\ queue # <<>> /\ ~vm.term /\ Failed(vm.conn) /\ queue' = Tail(queue)
           /\ Throw(i, vm, vm.conn) /\ UNCHANGED faults
  <2>1. vm.conn \in {"failVM", "fail"} /\ ~Unfailed
    BY <1>1, <1>7 DEF Failed, Calm, Running
  <2> QED BY <1>1, <1>7, <2>1, NextTestThrows
<1>8. CASE /\ queue # <<>> /\ ~vm.term /\ Passes(vm.conn) /\ queue' = Tail(queue)
           /\ StartTest(i, [vm EXCEPT !.conn = IF @ = "missed" THEN "failVM" ELSE @], t)
  <2> DEFINE conn == IF vm.conn = "missed" THEN "failVM" ELSE vm.conn
             vm2 == [vm EXCEPT !.conn = conn]
             new == [vm2 EXCEPT !.st = "Testing", !.test = t]
  <2>1. conn \in Tasks /\ t \in Tests \cup {Initial} /\ (vm.conn = "done" => conn = "done")
    BY <1>1, <1>8 DEF VM, Tasks
  <2> HIDE DEF conn
  <2>2. Fields(vm2, "NextTest", vm.term, vm.err, vm.task, conn, vm.proc, vm.first, vm.test, vm.trace,
               vm.ready)
    BY <1>1, <2>1, SetConn
  <2>3. StartTest(i, vm2, t)
    BY <1>8 DEF conn
  <2> HIDE DEF vm2, t
  <2>4. Good(vm2)
    BY <1>1, <2>2 DEF Good, Fields, Sound, Traced
  <2>5. vm2.proc # "up" => ~Unfailed
    BY <1>1, <2>2 DEF Fields, Calm
  <2>6. CASE Leave(i, new) /\ UNCHANGED exc
    <3>0. vm2 \in VM /\ "Testing" \in States
      BY <2>2 DEF Fields, States
    <3>1. Fields(new, "Testing", vm2.term, vm2.err, vm2.task, vm2.conn, vm2.proc, vm2.first, t,
                 vm2.trace, vm2.ready)
      BY Zenon, <2>1, <3>0, SetStateTest
    <3> HIDE DEF new
    <3>2. Good(new)
      BY <1>1, <1>8, <2>2, <3>1 DEF Good, Fields, Sound, Traced
    <3>3. ASSUME Unfailed PROVE Calm(new)
      <4>1. Calm(vm) /\ vm.conn \in Running \cup {"done"} /\ vm.conn = "done"
        BY <1>1, <1>8, <3>3 DEF Calm, Passes, Running
      <4> QED BY Zenon, <1>1, <2>1, <2>2, <3>1, <4>1 DEF Fields, Calm
    <3>4. Ends(i, new)
      BY <1>1, <2>6, <3>2, <3>3, LeaveEnds
    <3>5. Takes(vm, new)
      BY <1>1, <1>2, <1>8, <2>2, <3>1 DEF Takes, Fields, Busy, Seed, Booting, t
    <3> QED BY <3>4, <3>5 DEF Effect
  <2>7. CASE \E e \in {"failVM", "fail"} : /\ Throw(i, vm2, e)
                                           /\ (UNCHANGED faults /\ ~Unfailed) \/ \E kind : Fault(kind)
    <3>1. vm2.st = "NextTest" /\ ~vm2.term
      BY <1>8, <2>2 DEF Fields
    <3> QED BY <1>8, <2>4, <2>7, <3>1, NextTestThrows
  <2> QED BY <2>3, <2>5, <2>6, <2>7 DEF StartTest
<1> QED BY <1>4, <1>5, <1>6, <1>7, <1>8 DEF VisitNextTest

\* poll() takes what the first instance has learnt of the guest, and queues the initial test.
LEMMA FirstVisit ==
  ASSUME NodeInv, NEW i \in Ids, VisitFirst(i)
  PROVE  \E new : Ends(i, new) /\ Effect(vms[i], new)
<1> DEFINE vm == vms[i]  new == [vm EXCEPT !.st = "NextTest"]
<1>1. /\ Good(vm) /\ (Unfailed => Calm(vm)) /\ vm \in VM /\ vm.st = "GuestDataRxed" /\ Leave(i, new)
      /\ exc' = "none" /\ queue' = Append(queue, Initial) /\ given' = Append(given, Initial)
      /\ UNCHANGED <<traces, errors>>
  BY VisitedIs DEF VisitFirst, Visiting
<1>2. Fields(new, "NextTest", vm.term, vm.err, vm.task, vm.conn, vm.proc, vm.first, vm.test,
             vm.trace, vm.ready)
  BY Zenon, <1>1, SetState DEF States
<1> HIDE DEF new, vm
<1>3. Ends(i, new)
  BY <1>1, <1>2 DEF Ends, Good, Fields, Sound, Traced, Calm
<1>4. Deduces(vm, new)
  BY <1>1, <1>2 DEF Deduces, Fields, Good, Sound, Busy, Seed, Booting, Alike, Holds
<1> QED BY <1>3, <1>4 DEF Effect, vm

\* poll() replaces an instance in Error.
LEMMA ErrorVisit ==
  ASSUME NodeInv, NEW i \in Ids, VisitError(i)
  PROVE  \E new : Ends(i, new) /\ Effect(vms[i], new)
<1> DEFINE vm == vms[i]
<1>1. /\ Good(vm) /\ (Unfailed => Calm(vm)) /\ vm \in VM /\ vm.st # "NextTest" /\ vm.err
      /\ exc = "none" /\ errors' = errors + 1 /\ UNCHANGED <<queue, traces, given>>
  BY VisitedIs DEF VisitError, Visiting
<1>2. Busy(vm) /\ ~Unfailed
  BY <1>1 DEF Busy, Calm, Good, Sound
<1> HIDE DEF vm
<1>3. CASE Leave(i, Started(FALSE)) /\ UNCHANGED exc
  <2>1. /\ Good(Started(FALSE)) /\ Busy(Started(FALSE)) /\ ~Seed(Started(FALSE))
        /\ \A t \in Tests \cup {Initial} : ~Holds(Started(FALSE), t)
    BY Zenon, StartedIs DEF Good, Fields, Sound, Traced, Busy, Seed, Holds
  <2>2. Ends(i, Started(FALSE))
    BY Zenon, <1>1, <1>2, <1>3, <2>1, LeaveEnds
  <2>3. ~Unfailed'
    BY <1>2, <1>3 DEF Leave, Unfailed
  <2> QED BY Zenon, <1>1, <1>2, <2>1, <2>2, <2>3 DEF Effect, Replaces, vm
<1>4. CASE \E e \in {"clean", "fail"} : Throw(i, NewVM, e) /\ Fault("file")
  <2>1. /\ Good(NewVM) /\ Busy(NewVM) /\ ~Seed(NewVM) /\ ~NewVM.term /\ ~NewVM.err
        /\ NewVM.st \notin {"GuestDataRxed", "Finished"}
        /\ \A t \in Tests \cup {Initial} : ~Holds(NewVM, t)
    BY NewIs DEF Good, Fields, Sound, Traced, Busy, Seed, Holds
  <2>2. Ends(i, NewVM) /\ ~Unfailed'
    BY <1>4, <2>1, ThrowEnds
  <2> QED BY <1>1, <1>2, <2>1, <2>2 DEF Effect, Replaces, vm
<1> QED BY Zenon, <1>3, <1>4 DEF VisitError

\* ev::poll that leaves the instance as it is, or throws.
LEMMA PollStays ==
  ASSUME NodeInv, NEW i \in Ids, cur = i, Pollable(vms[i]), exc = "none",
         vms[i].st \notin {"GuestDataRxed", "Finished"}, UNCHANGED <<queue, traces, errors, given>>,
         \/ Leave(i, vms[i]) /\ UNCHANGED exc
         \/ \E e \in {"failVM", "fail"} :
              Throw(i, vms[i], e) /\ ((UNCHANGED faults /\ ~Unfailed) \/ \E kind : Fault(kind))
  PROVE  Ends(i, vms[i]) /\ Effect(vms[i], vms[i])
<1>1. Good(vms[i]) /\ (Unfailed => Calm(vms[i]))
  BY VisitedIs
<1>2. Effect(vms[i], vms[i])
  BY DEF Effect, Quiet, Alike
<1>3. CASE Leave(i, vms[i]) /\ UNCHANGED exc
  BY <1>1, <1>2, <1>3, LeaveEnds
<1>4. CASE \E e \in {"failVM", "fail"} :
             Throw(i, vms[i], e) /\ ((UNCHANGED faults /\ ~Unfailed) \/ \E kind : Fault(kind))
  BY <1>1, <1>2, <1>4, ThrowEnds DEF Pollable
<1> QED BY <1>3, <1>4

\* ev::poll that takes the instance to another state: it boots, or runs its test.
LEMMA PollMoves ==
  ASSUME NodeInv, NEW i \in Ids, cur = i, Pollable(vms[i]), exc = "none",
         UNCHANGED <<queue, traces, errors, given>>, NEW new \in VM, Leave(i, new), UNCHANGED exc,
         ~new.term, ~new.err, new.first <=> vms[i].first, new.test = vms[i].test,
         \/ vms[i].st \in Booting /\ new.st \in Booting
         \/ {vms[i].st, new.st} \subseteq {"Testing", "StoreTrace", "Finished"}
         \/ vms[i].st = "ConnectVM" /\ new.st = "NextTest" /\ ~new.first,
         new.st \in {"RxGuestData", "GuestDataRxed"} => new.first,
         NoRace => Traced(new), Unfailed => Calm(new)
  PROVE  Ends(i, new) /\ Effect(vms[i], new)
<1>1. Good(new)
  BY DEF Good, Sound
<1>2. Ends(i, new)
  BY <1>1, LeaveEnds
<1> DEFINE vm == vms[i]
<1>3. ~vm.term /\ ~vm.err
  BY DEF Pollable
<1>4. CASE vm.st \in Booting /\ new.st \in Booting
  BY Zenon, <1>2, <1>3, <1>4 DEF Effect, Quiet, Alike, Holds, Booting, Busy, Seed
<1>5. CASE {vm.st, new.st} \subseteq {"Testing", "StoreTrace", "Finished"}
  BY Zenon, <1>2, <1>3, <1>5 DEF Effect, Quiet, Alike, Holds, Booting, Busy, Seed
<1>6. CASE vm.st = "ConnectVM" /\ new.st = "NextTest"
  BY <1>2, <1>3, <1>6 DEF Effect, Idles, Alike, Holds, Busy
<1> QED BY <1>4, <1>5, <1>6

\* An instance that has no task of connect_vm to wait for goes on to boot.
LEMMA BootVisit ==
  ASSUME NodeInv, NEW i \in Ids, VisitPoll(i), NEW st \in Booting, NEW task \in Tasks,
         vms[i].st \in Booting, task \in {vms[i].task, "running", "waiting"},
         Leave(i, [vms[i] EXCEPT !.st = st, !.task = task]), UNCHANGED exc,
         st \in {"RxGuestData", "GuestDataRxed"} => vms[i].first /\ vms[i].proc = "up",
         st = "ConnectVM" => task = "running"
  PROVE  \E new : Ends(i, new) /\ Effect(vms[i], new)
<1> DEFINE vm == vms[i]  new == [vm EXCEPT !.st = st, !.task = task]
<1>1. /\ cur = i /\ vm \in VM /\ Pollable(vm) /\ exc = "none" /\ (Unfailed => Calm(vm))
      /\ UNCHANGED <<queue, traces, errors, given>>
  BY VisitedIs DEF VisitPoll, Visiting
<1>2. Fields(new, st, vm.term, vm.err, task, vm.conn, vm.proc, vm.first, vm.test, vm.trace, vm.ready)
  <2>1. st \in States
    BY Zenon DEF Booting, States
  <2> QED BY Zenon, <1>1, <2>1, SetStateTask
<1>3. Leave(i, new)
  OBVIOUS
<1> HIDE DEF new, vm
<1>4. Traced(new)
  BY <1>2 DEF Fields, Traced, Booting
<1>5. Unfailed => Calm(new)
  BY <1>1, <1>2 DEF Fields, Calm, Booting, Running, vm
<1> QED BY <1>1, <1>2, <1>3, <1>4, <1>5, PollMoves DEF Fields, Pollable, vm

\* ev::poll on the way to a VM that runs.
LEMMA BootStateVisit ==
  ASSUME NodeInv, NEW i \in Ids, VisitPoll(i), NEW st \in Booting, vms[i].st \in Booting,
         Leave(i, [vms[i] EXCEPT !.st = st]), UNCHANGED exc,
         st \in {"RxGuestData", "GuestDataRxed"} => vms[i].first /\ vms[i].proc = "up",
         st # "ConnectVM"
  PROVE  \E new : Ends(i, new) /\ Effect(vms[i], new)
<1>1. vms[i] \in VM
  BY VisitedIs DEF VisitPoll, Visiting
<1>2. [vms[i] EXCEPT !.st = st] = [vms[i] EXCEPT !.st = st, !.task = vms[i].task]
  BY Zenon, <1>1 DEF VM
<1>3. vms[i].task \in Tasks
  BY <1>1 DEF VM
<1> QED BY Zenon, <1>2, <1>3, BootVisit

\* ev::poll in ConnectVM, where the task waits for the guest.
LEMMA ConnectVisit ==
  ASSUME NodeInv, NEW i \in Ids, VisitPoll(i), vms[i].st = "ConnectVM", Passes(vms[i].task),
         Connect(i, vms[i])
  PROVE  \E new : Ends(i, new) /\ Effect(vms[i], new)
<1> DEFINE vm == vms[i]
<1>1. /\ cur = i /\ vm \in VM /\ Pollable(vm) /\ exc = "none" /\ (Unfailed => Calm(vm))
      /\ UNCHANGED <<queue, traces, errors, given>>
  BY VisitedIs DEF VisitPoll, Visiting
<1>2. CASE vm.proc # "up" /\ Throw(i, vm, "failVM") /\ UNCHANGED faults
  <2>1. ~Unfailed
    BY <1>1, <1>2 DEF Calm, Passes
  <2> QED BY <1>1, <1>2, <2>1, PollStays
<1>3. CASE vm.proc = "up" /\ vm.first /\ UNCHANGED exc
           /\ Leave(i, [vm EXCEPT !.st = "RxGuestData", !.task = "waiting"])
  <2>1. "RxGuestData" \in Booting /\ "ConnectVM" \in Booting /\ "waiting" \in Tasks
    BY DEF Booting, Tasks, Running
  <2> QED BY Zenon, <1>3, <2>1, BootVisit
<1>4. CASE vm.proc = "up" /\ ~vm.first /\ UNCHANGED exc
           /\ Leave(i, [vm EXCEPT !.st = "NextTest", !.conn = "waiting"])
  <2> DEFINE new == [vm EXCEPT !.st = "NextTest", !.conn = "waiting"]
  <2>1. "NextTest" \in States /\ "waiting" \in Tasks
    BY DEF States, Tasks, Running
  <2>2. Fields(new, "NextTest", vm.term, vm.err, vm.task, "waiting", vm.proc, vm.first, vm.test,
               vm.trace, vm.ready)
    BY Zenon, <1>1, <2>1, SetStateConn
  <2> HIDE DEF new
  <2>3. Traced(new) /\ (Unfailed => Calm(new))
    BY <1>1, <1>4, <2>2 DEF Fields, Traced, Calm, Running
  <2> QED BY Zenon, <1>1, <1>4, <2>2, <2>3, PollMoves DEF Fields, Pollable, new
<1> QED BY <1>2, <1>3, <1>4 DEF Connect

\* ev::poll in a state that waits for a task of its own.
LEMMA TaskVisit ==
  ASSUME NodeInv, NEW i \in Ids, VisitPoll(i), PollTask(i),
         vms[i].st \in {"StartVM", "ConnectVM", "RxGuestData", "StoreTrace"}
  PROVE  \E new : Ends(i, new) /\ Effect(vms[i], new)
<1> DEFINE vm == vms[i]
<1>1. /\ cur = i /\ vm \in VM /\ Good(vm) /\ Pollable(vm) /\ exc = "none" /\ (Unfailed => Calm(vm))
      /\ UNCHANGED <<queue, traces, errors, given>> /\ vm.st \notin {"GuestDataRxed", "Finished"}
  BY VisitedIs DEF VisitPoll, Visiting
<1>2. CASE Failed(vm.task) /\ Throw(i, vm, vm.task) /\ UNCHANGED faults
  <2>1. vm.task \in {"failVM", "fail"} /\ ~Unfailed
    BY Zenon, <1>1, <1>2 DEF Failed, Calm, Running
  <2> QED BY Zenon, <1>1, <1>2, <2>1, PollStays
<1>3. CASE Leave(i, vm) /\ UNCHANGED exc
  BY Zenon, <1>1, <1>3, PollStays
<1>4. CASE /\ vm.st = "StartVM" /\ UNCHANGED exc
           /\ Leave(i, [vm EXCEPT !.st = "ConnectVM", !.task = "running"])
  <2>1. "StartVM" \in Booting /\ "ConnectVM" \in Booting /\ "running" \in Tasks
    BY DEF Booting, Tasks, Running
  <2> QED BY Zenon, <1>4, <2>1, BootVisit
<1>5. CASE vm.st = "ConnectVM" /\ Passes(vm.task) /\ Connect(i, vm)
  BY <1>5, ConnectVisit
<1>6. CASE vm.st = "RxGuestData" /\ ReceiveGuestInfo(i, vm)
  <2>1. CASE vm.proc = "up" /\ Leave(i, [vm EXCEPT !.st = "GuestDataRxed"]) /\ UNCHANGED exc
    <3>1. "RxGuestData" \in Booting /\ "GuestDataRxed" \in Booting /\ vm.first
      BY <1>1, <1>6 DEF Booting, Good, Sound
    <3> QED BY <1>6, <2>1, <3>1, BootStateVisit
  <2>2. CASE vm.proc # "up" /\ Throw(i, vm, "failVM") /\ UNCHANGED faults
    <3>1. ~Unfailed
      BY <1>1, <1>6, <2>2 DEF Calm
    <3> QED BY <1>1, <2>2, <3>1, PollStays
  <2>3. CASE \E e \in {"failVM", "fail"} : Throw(i, vm, e) /\ Fault("guest")
    BY <1>1, <2>3, PollStays
  <2> QED BY <1>6, <2>1, <2>2, <2>3 DEF ReceiveGuestInfo
<1>7. CASE /\ vm.st = "StoreTrace" /\ Passes(vm.task) /\ UNCHANGED exc
           /\ Leave(i, [vm EXCEPT !.st = "Finished"])
  <2> DEFINE new == [vm EXCEPT !.st = "Finished"]
  <2>1. "Finished" \in States
    BY DEF States
  <2>2. Fields(new, "Finished", vm.term, vm.err, vm.task, vm.conn, vm.proc, vm.first, vm.test,
               vm.trace, vm.ready)
    BY <1>1, <2>1, SetState
  <2> HIDE DEF new
  <2>3. NoRace => Traced(new)
    BY <1>1, <1>7, <2>2 DEF Fields, Good, Traced, Passes
  <2>4. Unfailed => Calm(new)
    BY <1>1, <1>7, <2>2 DEF Fields, Calm
  <2>5. {vm.st, new.st} \subseteq {"Testing", "StoreTrace", "Finished"}
    BY <1>7, <2>2 DEF Fields
  <2> QED BY Zenon, <1>1, <1>7, <2>2, <2>3, <2>4, <2>5, PollMoves DEF Fields, Pollable, new
<1> QED BY <1>2, <1>3, <1>4, <1>5, <1>6, <1>7 DEF PollTask

\* ev::poll in any state.
LEMMA PollVisit ==
  ASSUME NodeInv, NEW i \in Ids, VisitPoll(i)
  PROVE  \E new : Ends(i, new) /\ Effect(vms[i], new)
<1> DEFINE vm == vms[i]
<1>1. /\ cur = i /\ vm \in VM /\ Pollable(vm) /\ exc = "none" /\ (Unfailed => Calm(vm))
      /\ UNCHANGED <<queue, traces, errors, given>>
  BY VisitedIs DEF VisitPoll, Visiting
<1>2. CASE vm.st = "ValidateImage"
  <2>1. "ValidateImage" \in Booting /\ "UpdateImage" \in Booting /\ "StartVM" \in Booting
    BY DEF Booting
  <2>2. CASE \E st \in {"UpdateImage", "StartVM"} : Leave(i, [vm EXCEPT !.st = st]) /\ UNCHANGED exc
    BY <1>2, <2>1, <2>2, BootStateVisit
  <2>3. CASE Throw(i, vm, "fail") /\ Fault("file")
    BY <1>1, <1>2, <2>3, PollStays
  <2> QED BY <1>2, <2>2, <2>3 DEF VisitPoll
<1>3. CASE vm.st = "UpdateImage"
  <2>1. "UpdateImage" \in Booting /\ "StartVM" \in Booting /\ "running" \in Tasks
    BY DEF Booting, Tasks, Running
  <2>2. Leave(i, [vm EXCEPT !.st = "StartVM", !.task = "running"]) /\ UNCHANGED exc
    BY <1>3 DEF VisitPoll
  <2> QED BY Zenon, <1>3, <2>1, <2>2, BootVisit
<1>4. CASE vm.st \in {"StartVM", "ConnectVM", "RxGuestData", "StoreTrace"}
  BY Zenon, <1>4, TaskVisit DEF VisitPoll
<1>5. CASE vm.st = "Testing" /\ vm.proc # "up"
  <2>1. Throw(i, vm, "failVM") /\ UNCHANGED faults /\ ~Unfailed
    BY <1>1, <1>5 DEF VisitPoll, Calm
  <2> QED BY <1>1, <1>5, <2>1, PollStays
<1>6. CASE vm.st = "Testing" /\ vm.proc = "up"
  <2> DEFINE new == [vm EXCEPT !.st = "StoreTrace", !.task = "running"]
  <2>1. CASE ~vm.ready
    BY <1>1, <1>6, <2>1, PollStays DEF VisitPoll
  <2>2. CASE vm.ready
    <3>1. Leave(i, new) /\ UNCHANGED exc
      BY <1>6, <2>2 DEF VisitPoll
    <3>2. "StoreTrace" \in States /\ "running" \in Tasks
      BY DEF States, Tasks, Running
    <3>3. Fields(new, "StoreTrace", vm.term, vm.err, "running", vm.conn, vm.proc, vm.first, vm.test,
                 vm.trace, vm.ready)
      BY Zenon, <1>1, <3>2, SetStateTask
    <3> HIDE DEF new
    <3>4. Traced(new) /\ (Unfailed => Calm(new))
      BY Zenon, <1>1, <1>6, <3>3 DEF Fields, Traced, Calm, Running
    <3>5. {vm.st, new.st} \subseteq {"Testing", "StoreTrace", "Finished"}
      BY <1>6, <3>3 DEF Fields
    <3> QED BY Zenon, <1>1, <3>1, <3>3, <3>4, <3>5, PollMoves DEF Fields, Pollable
  <2> QED BY <2>1, <2>2
<1> QED BY <1>2, <1>3, <1>4, <1>5, <1>6 DEF VisitPoll

\* Terminated takes no event.
LEMMA TerminatedVisit ==
  ASSUME NodeInv, NEW i \in Ids, VisitTerminated(i)
  PROVE  Ends(i, vms[i]) /\ Effect(vms[i], vms[i])
<1>1. /\ Good(vms[i]) /\ (Unfailed => Calm(vms[i])) /\ Leave(i, vms[i]) /\ exc' = "none"
      /\ UNCHANGED <<queue, traces, errors, given>>
  BY VisitedIs DEF VisitTerminated, Visiting
<1>2. Effect(vms[i], vms[i])
  BY <1>1 DEF Effect, Quiet, Alike
<1> QED BY <1>1, <1>2, LeaveEnds

\* exception_caught: the instance goes to Error or is terminated, or the node aborts.
\* node aborts.
Stops(i) ==
  /\ \E a \in {"get_stdout", "no_transition"} :
       Abort(a) /\ (a = "no_transition" => vms[i].err /\ vms[i].st = "NextTest")
  /\ exc' = "none" /\ UNCHANGED <<queue, traces, errors, given>>

\* exception_caught: the instance goes to Error or is terminated, or the node aborts.
LEMMA HandleVisit ==
  ASSUME NodeInv, NEW i \in Ids, Handle(i)
  PROVE  Stops(i) \/ \E new : Ends(i, new) /\ Effect(vms[i], new)
<1> DEFINE vm == vms[i]
<1>1. /\ cur = i /\ vm \in VM /\ Good(vm) /\ exc' = "none" /\ ~Unfailed
      /\ UNCHANGED <<queue, traces, errors, given>>
      /\ ~vm.term /\ vm.st \notin {"GuestDataRxed", "Finished"} /\ (vm.err => vm.st = "NextTest")
  BY VisitedIs DEF Handle, NodeInv, Polling, Handling
<1>2. ASSUME NEW new, Leave(i, new), new \in VM, new.st = vm.st, new.test = vm.test,
             new.trace = vm.trace, new.task = vm.task, new.first <=> vm.first,
             (new.term <=> vm.term) \/ (new.err <=> vm.err)
      PROVE  Ends(i, new) /\ Effect(vm, new)
  <2>1. Good(new)
    BY <1>1, <1>2 DEF Good, Sound, Traced
  <2>2. Ends(i, new)
    BY <1>1, <1>2, <2>1, LeaveEnds
  <2>3. Alike(vm, new) /\ (new.st \in Booting <=> vm.st \in Booting)
    BY <1>2 DEF Alike, Holds
  <2>4. CASE ~new.term
    BY Zenon, <1>1, <1>2, <2>2, <2>3, <2>4 DEF Effect, Quiet, Busy, Seed
  <2>5. CASE new.term
    BY Zenon, <1>1, <1>2, <2>2, <2>3, <2>5 DEF Effect, Quiet, Idles, Busy, Seed
  <2> QED BY <2>4, <2>5
<1>3. CASE Abort("get_stdout") \/ (vm.err /\ Abort("no_transition"))
  BY <1>1, <1>3 DEF Stops
<1> DEFINE e == [vm EXCEPT !.err = TRUE]  d == [vm EXCEPT !.term = TRUE]
<1>4. CASE Leave(i, Killed(e))
  <2>1. Fields(e, vm.st, vm.term, TRUE, vm.task, vm.conn, vm.proc, vm.first, vm.test, vm.trace,
               vm.ready)
    BY Zenon, <1>1, SetError
  <2> HIDE DEF e
  <2>2. e \in VM
    BY <2>1 DEF Fields
  <2>3. Fields(Killed(e), e.st, e.term, e.err, e.task, e.conn,
               IF e.proc = "up" THEN "dead" ELSE e.proc, e.first, e.test, e.trace, e.ready)
    BY <2>2, KilledIs
  <2> QED BY Zenon, <1>2, <1>4, <2>1, <2>3 DEF Fields
<1>5. Fields(d, vm.st, TRUE, vm.err, vm.task, vm.conn, vm.proc, vm.first, vm.test, vm.trace, vm.ready)
  BY Zenon, <1>1, SetTerm
<1> HIDE DEF d
<1>6. d \in VM
  BY <1>5 DEF Fields
<1>7. CASE Leave(i, d)
  BY <1>2, <1>5, <1>7 DEF Fields
<1>8. CASE Leave(i, Killed(d))
  <2>1. Fields(Killed(d), d.st, d.term, d.err, d.task, d.conn,
               IF d.proc = "up" THEN "dead" ELSE d.proc, d.first, d.test, d.trace, d.ready)
    BY <1>6, KilledIs
  <2> QED BY Zenon, <1>2, <1>5, <1>8, <2>1 DEF Fields
<1> QED BY <1>3, <1>4, <1>7, <1>8 DEF Handle, d

\* Every visit of poll() that does not abort has one of the effects.
LEMMA VisitIs ==
  ASSUME NodeInv, NEW i \in Ids, Visit(i)
  PROVE  cur = i /\ aborted = "no" /\ (Stops(i) \/ \E new : Ends(i, new) /\ Effect(vms[i], new))
<1>1. cur = i /\ aborted = "no"
  BY Zenon DEF Visit, VisitFinished, VisitNextTest, VisitFirst, VisitError, VisitTerminated, VisitPoll,
         Handle, Visiting
<1> QED BY <1>1, FinishedVisit, NextTestVisit, FirstVisit, ErrorVisit, TerminatedVisit, PollVisit,
           HandleVisit DEF Visit

-----------------------------------------------------------------------------
(* What a task, or what goes wrong with it, does.                          *)

LEMMA SetTaskIs ==
  ASSUME NEW vm \in VM, NEW f \in {"task", "conn"}, NEW v \in Tasks
  PROVE  Fields([vm EXCEPT ![f] = v], vm.st, vm.term, vm.err, IF f = "task" THEN v ELSE vm.task,
                IF f = "conn" THEN v ELSE vm.conn, vm.proc, vm.first, vm.test, vm.trace, vm.ready)
<1>1. CASE f = "task"
  <2>1. Fields([vm EXCEPT !["task"] = v], vm.st, vm.term, vm.err, v, vm.conn, vm.proc, vm.first,
               vm.test, vm.trace, vm.ready)
    BY DEF Fields, VM
  <2> QED BY <1>1, <2>1
<1>2. CASE f = "conn"
  <2>1. Fields([vm EXCEPT !["conn"] = v], vm.st, vm.term, vm.err, vm.task, v, vm.proc, vm.first,
               vm.test, vm.trace, vm.ready)
    BY DEF Fields, VM
  <2> QED BY <1>2, <2>1
<1> QED BY <1>1, <1>2

\* A step of a task or of a VM process: the state and the test of the instance stay.
Works(i, new) ==
  /\ vms' = [vms EXCEPT ![i] = new] /\ new \in VM /\ vms[i] # NewVM
  /\ new.st = vms[i].st /\ (new.term <=> vms[i].term) /\ (new.err <=> vms[i].err)
  /\ (new.first <=> vms[i].first) /\ new.test = vms[i].test
  /\ NoRace' => Traced(new)
  /\ ~joining /\ Unfailed' => Calm(new)
  /\ faults' \in 0..faults

LEMMA InstanceIs ==
  ASSUME NodeInv, NEW i \in Ids
  PROVE  /\ vms[i] \in VM /\ vms \in [Ids -> VM] /\ faults \in Nat /\ faults <= MaxFaults
         /\ MaxFaults \in Nat /\ (NoRace => Traced(vms[i]))
         /\ (~joining => Sound(vms[i])) /\ (~joining /\ Unfailed => Calm(vms[i]))
BY VMNodeAssumption DEF NodeInv, TypeOK, Instance

\* A fault lowers the number of faults that may still happen.
LEMMA FaultCounts ==
  ASSUME NodeInv, NEW kind, Fault(kind) PROVE faults' \in 0..faults /\ ~Unfailed' /\ kind \in Faults
<1>1. faults \in Nat /\ faults <= MaxFaults /\ MaxFaults \in Nat
  BY VMNodeAssumption DEF NodeInv, TypeOK
<1> QED BY <1>1 DEF Fault, Unfailed

LEMMA FewerFaults ==
  ASSUME NodeInv, faults' \in 0..faults PROVE (Unfailed' => Unfailed) /\ (NoRace' => NoRace)
<1>1. faults \in Nat /\ faults <= MaxFaults /\ MaxFaults \in Nat
  BY VMNodeAssumption DEF NodeInv, TypeOK
<1> QED BY <1>1 DEF NoRace, Unfailed

LEMMA SetTaskWorks ==
  ASSUME NodeInv, NEW i \in Ids, NEW f \in {"task", "conn"}, NEW v \in Tasks, SetTask(i, f, v),
         vms[i][f] \in Running, faults' \in 0..faults,
         f = "task" /\ vms[i].st = "StoreTrace" /\ NoRace' => v = "fail",
         ~joining /\ Unfailed' =>
           /\ Unfailed /\ v \in Running \cup {"done"} /\ (v = "open" => vms[i].proc = "up")
           /\ vms[i][f] # "running"
  PROVE  \E new : Works(i, new)
<1> DEFINE vm == vms[i]  new == [vm EXCEPT ![f] = v]
<1>1. /\ vm \in VM /\ vms \in [Ids -> VM] /\ (NoRace => Traced(vm))
      /\ (~joining /\ Unfailed => Calm(vm))
  BY InstanceIs
<1>2. vms' = [vms EXCEPT ![i] = new]
  BY DEF SetTask
<1>3. Fields(new, vm.st, vm.term, vm.err, IF f = "task" THEN v ELSE vm.task,
             IF f = "conn" THEN v ELSE vm.conn, vm.proc, vm.first, vm.test, vm.trace, vm.ready)
  BY <1>1, SetTaskIs
<1>4. IF f = "task" THEN vm.task \in Running ELSE vm.conn \in Running
  BY <1>1 DEF VM
<1>5. vm # NewVM
  BY <1>4 DEF NewVM, Running
<1> HIDE DEF new
<1>6. NoRace' => Traced(new)
  BY <1>1, <1>3, FewerFaults DEF Fields, Traced
<1>7. ASSUME ~joining, Unfailed' PROVE Calm(new)
  <2>1. Calm(vm) /\ v \in Running \cup {"done"} /\ (v = "open" => vm.proc = "up")
    BY <1>1, <1>7
  <2>2. f = "task" => vm.task # "running"
    BY <1>1, <1>7 DEF VM
  <2> QED BY Zenon, <1>3, <2>1, <2>2 DEF Fields, Calm
<1> QED BY Zenon, <1>2, <1>3, <1>5, <1>6, <1>7 DEF Works, Fields

\* A task that ends by itself.
LEMMA TaskDoneWorks ==
  ASSUME NodeInv, NEW i \in Ids, TaskDone(i) PROVE \E new : Works(i, new)
<1> DEFINE vm == vms[i]
           proc == IF vm.st = "ConnectVM" THEN "up" ELSE vm.proc
           trace == IF vm.st = "StoreTrace" THEN vm.test ELSE vm.trace
           ready == IF vm.st = "StoreTrace" THEN FALSE ELSE vm.ready
           new == [vm EXCEPT !.task = "done", !.proc = proc, !.trace = trace, !.ready = ready]
<1>1. /\ vm \in VM /\ vms \in [Ids -> VM] /\ (NoRace => Traced(vm)) /\ faults \in Nat
      /\ (~joining /\ Unfailed => Calm(vm)) /\ vm.task = "running" /\ UNCHANGED faults
  BY InstanceIs DEF TaskDone
<1>2. vms' = [vms EXCEPT ![i] = new]
  <2>1. CASE vm.st = "ConnectVM"
    <3>1. [vm EXCEPT !.task = "done", !.proc = "up"] = new
      BY Zenon, <1>1, <2>1 DEF VM
    <3> QED BY Zenon, <2>1, <3>1 DEF TaskDone
  <2>2. CASE vm.st = "StoreTrace"
    <3>1. [vm EXCEPT !.task = "done", !.trace = vm.test, !.ready = FALSE] = new
      BY Zenon, <1>1, <2>2 DEF VM
    <3> QED BY Zenon, <2>2, <3>1 DEF TaskDone
  <2>3. CASE vm.st \notin {"ConnectVM", "StoreTrace"}
    <3>1. [vm EXCEPT !.task = "done"] = new
      BY Zenon, <1>1, <2>3 DEF VM
    <3> QED BY Zenon, <2>3, <3>1 DEF TaskDone
  <2> QED BY <2>1, <2>2, <2>3
<1>3. /\ proc \in {"none", "up", "dead"} /\ trace \in Tests \cup {Initial, None} /\ ready \in BOOLEAN
      /\ "done" \in Tasks
  BY Zenon, <1>1 DEF VM, Tasks
<1>4. /\ (vm.st = "ConnectVM" => proc = "up") /\ (vm.st # "ConnectVM" => proc = vm.proc)
      /\ (vm.st = "StoreTrace" => trace = vm.test) /\ (vm.st # "StoreTrace" => trace = vm.trace)
  OBVIOUS
<1> HIDE DEF proc, trace, ready, vm
<1>5. Fields(new, vm.st, vm.term, vm.err, "done", vm.conn, proc, vm.first, vm.test, trace, ready)
  <2> DEFINE up == [vm EXCEPT !.task = "done", !.proc = proc]
  <2>1. Fields(up, vm.st, vm.term, vm.err, "done", vm.conn, proc, vm.first, vm.test, vm.trace,
               vm.ready)
    BY Zenon, <1>1, <1>3 DEF Fields, VM
  <2>2. new = [up EXCEPT !.trace = trace, !.ready = ready]
    OBVIOUS
  <2> HIDE DEF up, new
  <2> QED BY Zenon, <1>3, <2>1, <2>2 DEF Fields, VM
<1>6. vm # NewVM
  BY <1>1 DEF NewVM
<1> HIDE DEF new
<1>7. NoRace' => Traced(new)
  BY <1>1, <1>4, <1>5 DEF Fields, Traced, NoRace, Unfailed
<1>8. ~joining /\ Unfailed' => Calm(new)
  BY <1>1, <1>4, <1>5 DEF Fields, Calm, Running, Unfailed
<1>9. faults' \in 0..faults
  BY <1>1
<1>10. Works(i, new)
  BY <1>2, <1>5, <1>6, <1>7, <1>8, <1>9 DEF Works, Fields, vm
<1> QED BY <1>10

\* The guest and its VM go on.
LEMMA ProgressWorks ==
  ASSUME NodeInv, NEW i \in Ids, Progress(i) PROVE \E new : Works(i, new)
<1> DEFINE vm == vms[i]
<1>1. /\ vm \in VM /\ vms \in [Ids -> VM] /\ (NoRace => Traced(vm)) /\ faults \in Nat
      /\ (~joining /\ Unfailed => Calm(vm))
  BY InstanceIs
<1>2. CASE TaskDone(i)
  BY <1>2, TaskDoneWorks
<1>3. CASE TraceReady(i)
  <2> DEFINE new == [vm EXCEPT !.ready = TRUE]
  <2>1. vms' = [vms EXCEPT ![i] = new] /\ vm.st = "Testing" /\ UNCHANGED faults
    BY <1>3 DEF TraceReady
  <2>2. Fields(new, vm.st, vm.term, vm.err, vm.task, vm.conn, vm.proc, vm.first, vm.test, vm.trace,
               TRUE)
    BY Zenon, <1>1 DEF Fields, VM
  <2> HIDE DEF new
  <2>3. vm # NewVM /\ Traced(new) /\ (~joining /\ Unfailed' => Calm(new))
    <3>1. vm # NewVM
      BY <2>1 DEF NewVM
    <3>2. /\ new.st = vm.st /\ new.task = vm.task /\ new.conn = vm.conn /\ new.proc = vm.proc
          /\ (new.err <=> vm.err) /\ (new.term <=> vm.term) /\ vm.st = "Testing"
      BY Zenon, <2>1, <2>2 DEF Fields
    <3>3. Unfailed' => Unfailed
      BY Zenon, <2>1 DEF Unfailed
    <3> QED BY Zenon, <1>1, <3>1, <3>2, <3>3 DEF Traced, Calm
  <2>4. faults' \in 0..faults
    BY <1>1, <2>1
  <2>5. Works(i, new)
    BY <2>1, <2>2, <2>3, <2>4 DEF Works, Fields
  <2> QED BY <2>5
<1>4. ASSUME NEW f \in {"task", "conn"}, ConnectStep(i, f) PROVE \E new : Works(i, new)
  <2>1. PICK v \in {"open", "done", "failVM"} :
          /\ SetTask(i, f, v) /\ vm[f] \in {"waiting", "open"} /\ UNCHANGED faults
          /\ v = "open" => vm.proc = "up"
          /\ v = "failVM" => vm[f] = "open" /\ vm.proc # "up"
    BY <1>4 DEF ConnectStep
  <2>2. /\ v \in Tasks /\ vm[f] \in Running /\ vm[f] # "running" /\ faults' \in 0..faults
        /\ (Unfailed' <=> Unfailed)
    BY <1>1, <2>1 DEF Tasks, Running, Unfailed
  <2>3. f = "task" /\ vm.st = "StoreTrace" /\ NoRace' => v = "fail"
    <3>1. f = "task" => vm.task \in {"waiting", "open"}
      BY <1>1, <2>1 DEF VM
    <3> QED BY <1>1, <2>2, <3>1 DEF Traced, NoRace
  <2>4. ~joining /\ Unfailed => v \in Running \cup {"done"}
    <3>1. v = "failVM" => "open" \in {vm.task, vm.conn}
      BY Zenon, <1>1, <2>1 DEF VM
    <3> QED BY <1>1, <2>1, <3>1 DEF Calm, Running
  <2> QED BY Zenon, <2>1, <2>2, <2>3, <2>4, SetTaskWorks
<1> QED BY <1>2, <1>3, <1>4 DEF Progress

\* A failure beside the poll loop.
LEMMA MishapWorks ==
  ASSUME NodeInv, NEW i \in Ids, Mishap(i) PROVE \E new : Works(i, new)
<1> DEFINE vm == vms[i]
<1>1. vm \in VM /\ vms \in [Ids -> VM] /\ (NoRace => Traced(vm))
  BY InstanceIs
<1>2. CASE TaskFails(i)
  <2>1. PICK v \in {"fail", "missed"} :
          /\ vms' = [vms EXCEPT ![i].task = v] /\ (v = "fail" => Fault("file"))
          /\ v = "missed" => Fault("race")
    BY <1>2 DEF TaskFails
  <2>2. faults' \in 0..faults /\ ~Unfailed' /\ (v = "missed" => ~NoRace')
    BY <2>1, FaultCounts DEF NoRace
  <2>3. SetTask(i, "task", v) /\ vm["task"] \in Running /\ v \in Tasks
    BY Zenon, <1>1, <1>2, <2>1 DEF SetTask, TaskFails, Running, Tasks, VM
  <2> QED BY <2>1, <2>2, <2>3, SetTaskWorks
<1>3. CASE VMExits(i)
  <2> DEFINE new == [vm EXCEPT !.proc = "dead"]
  <2>1. vms' = [vms EXCEPT ![i] = new] /\ vm.proc = "up" /\ Fault("vm")
    BY <1>3 DEF VMExits
  <2>2. faults' \in 0..faults /\ ~Unfailed'
    BY <2>1, FaultCounts
  <2>3. Fields(new, vm.st, vm.term, vm.err, vm.task, vm.conn, "dead", vm.first, vm.test, vm.trace,
               vm.ready)
    BY <1>1 DEF Fields, VM
  <2> HIDE DEF new
  <2>4. vm # NewVM /\ (NoRace' => Traced(new))
    <3>1. vm # NewVM
      BY <2>1 DEF NewVM
    <3>2. new.st = vm.st /\ new.task = vm.task /\ new.trace = vm.trace /\ new.test = vm.test
      BY Zenon, <2>3 DEF Fields
    <3>3. NoRace' => NoRace
      BY Zenon, <2>2 DEF NoRace
    <3> QED BY Zenon, <1>1, <3>1, <3>2, <3>3 DEF Traced
  <2> QED BY Zenon, <2>1, <2>2, <2>3, <2>4 DEF Works, Fields
<1>4. ASSUME NEW f \in {"task", "conn"}, ConnectFails(i, f) PROVE \E new : Works(i, new)
  <2>1. PICK v \in {"failVM", "fail", "missed"} :
          /\ SetTask(i, f, v) /\ vm[f] = "open" /\ (v = "failVM" => Fault("guest"))
          /\ (v = "fail" => Fault("file")) /\ (v = "missed" => Fault("race"))
    BY <1>4 DEF ConnectFails
  <2>2. faults' \in 0..faults /\ ~Unfailed' /\ vm[f] \in Running /\ v \in Tasks
    BY <2>1, FaultCounts DEF Running, Tasks
  <2>3. f = "task" /\ vm.st = "StoreTrace" /\ NoRace' => v = "fail"
    <3>1. f = "task" => vm.task = "open"
      BY <1>1, <2>1 DEF VM
    <3> QED BY <1>1, <2>2, <3>1 DEF Traced, NoRace
  <2> QED BY <2>1, <2>2, <2>3, SetTaskWorks
<1> QED BY <1>2, <1>3, <1>4 DEF Mishap

-----------------------------------------------------------------------------
(* Every step preserves NodeInv.                                           *)

Queues ==
  /\ queue \in Seq(Tests \cup {Initial}) /\ traces \in Seq(Tests \cup {Initial, None})
  /\ errors \in Nat /\ given \in Seq(Tests \cup {Initial})

Flags ==
  /\ active \in BOOLEAN /\ commenced \in BOOLEAN /\ target \in BOOLEAN /\ anyActive \in BOOLEAN
  /\ joining \in BOOLEAN

\* The conjuncts of TypeOK, with the flags one by one.
Typed ==
  /\ Queues /\ Flags /\ faults \in 0..MaxFaults /\ round \in 0..MaxRounds
  /\ vms \in [Ids -> VM] /\ cur \in 0..(Instances + 1)
  /\ exc \in {"none", "failVM", "fail", "clean"}
  /\ aborted \in {"no", "get_stdout", "no_transition", "store_trace"}
  /\ delivered \in Seq(Tests \cup {Initial, None})

LEMMA TypedIs == TypeOK <=> Typed
BY DEF TypeOK, Typed, Queues, Flags

\* The queues after a visit.
LEMMA EffectTyped ==
  ASSUME NodeInv, NEW i \in Ids, NEW new, Effect(vms[i], new) PROVE Queues'
<1>1. Queues /\ vms[i] \in VM /\ vms[i].trace \in Tests \cup {Initial, None}
  BY Zenon DEF NodeInv, TypeOK, Queues, VM
<1>2. CASE queue # <<>> /\ queue' \in {Tail(queue), Append(Tail(queue), Head(queue))}
           /\ UNCHANGED <<traces, errors, given>>
  <2>1. /\ Tail(queue) \in Seq(Tests \cup {Initial})
        /\ Append(Tail(queue), Head(queue)) \in Seq(Tests \cup {Initial})
    BY <1>1, <1>2 DEF Queues
  <2> QED BY Zenon, <1>1, <1>2, <2>1 DEF Queues
<1>3. CASE UNCHANGED <<queue, given>> /\ traces' \in {traces, Append(traces, vms[i].trace)}
           /\ errors' \in {errors, errors + 1}
  <2>1. Append(traces, vms[i].trace) \in Seq(Tests \cup {Initial, None}) /\ errors + 1 \in Nat
    BY <1>1 DEF Queues
  <2> QED BY Zenon, <1>1, <1>3, <2>1 DEF Queues
<1>4. CASE Deduces(vms[i], new)
  BY <1>1, <1>4 DEF Queues, Deduces
<1> QED
  BY Zenon, <1>2, <1>3, <1>4 DEF Effect, Quiet, Idles, Drops, Rotates, Takes, Delivers, Replaces

\* The end of a visit.
LEMMA LeaveStep ==
  ASSUME NodeInv, NEW i \in Ids, cur = i, aborted = "no", NEW new, Good(new), Unfailed => Calm(new),
         Leave(i, new), exc' = "none", Queues'
  PROVE  NodeInv'
<1>1. /\ vms' = [vms EXCEPT ![i] = new] /\ cur' = i + 1 /\ (anyActive' <=> anyActive \/ Busy(new))
      /\ UNCHANGED <<active, commenced, target, joining, aborted, delivered, faults, round>>
      /\ anyActive' \in BOOLEAN
  BY Zenon DEF Leave, AnyActive
<1>2. Typed /\ commenced /\ ~joining /\ i \in Nat /\ i > 0 /\ i <= Instances /\ new \in VM
  BY VisitedIs, TypedIs DEF NodeInv, Good
<1>3. vms' \in [Ids -> VM] /\ \A j \in Ids : vms'[j] = IF j = i THEN new ELSE vms[j]
  BY <1>1, <1>2 DEF Typed
<1>4. cur' \in 0..(Instances + 1) /\ Flags'
  BY <1>1, <1>2, InstancesAssumption DEF Typed, Flags
<1>5. TypeOK'
  <2>1. Typed'
    BY <1>1, <1>2, <1>3, <1>4 DEF Typed
  <2> QED BY Zenon, <2>1, TypedIs DEF TypeOK, Typed, Queues, Flags
<1>6. ASSUME NEW j \in Ids PROVE Instance(vms[j])'
  BY <1>1, <1>2, <1>3 DEF NodeInv, Instance, Good, NoRace, Unfailed
<1>7. anyActive' <=> \E j \in Ids : j < cur' /\ Busy(vms'[j])
  <2>1. anyActive <=> \E j \in Ids : j < i /\ Busy(vms[j])
    BY Zenon, <1>2 DEF NodeInv, Polling
  <2>2. \A j \in Ids : j < cur' <=> j < i \/ j = i
    BY <1>1, <1>2, InstancesAssumption DEF Ids
  <2>3. (\E j \in Ids : j < cur' /\ Busy(vms'[j]))
          <=> (\E j \in Ids : j < i /\ Busy(vms[j])) \/ Busy(new)
    BY <1>2, <1>3, <2>2
  <2> QED BY <1>1, <2>1, <2>3
<1>8. Polling'
  BY <1>1, <1>2, <1>7 DEF Polling
<1> QED BY <1>5, <1>6, <1>8 DEF NodeInv

\* A visit that throws.
LEMMA ThrowStep ==
  ASSUME NodeInv, NEW i \in Ids, cur = i, aborted = "no", NEW new, Good(new),
         NEW e \in {"failVM", "fail", "clean"}, Throw(i, new, e), faults' \in 0..faults, ~Unfailed',
         ~new.term, new.st \notin {"GuestDataRxed", "Finished"}, new.err => new.st = "NextTest", Queues'
  PROVE  NodeInv'
<1>1. /\ vms' = [vms EXCEPT ![i] = new] /\ exc' = e
      /\ UNCHANGED <<active, commenced, target, cur, anyActive, joining, aborted, delivered, round>>
  BY DEF Throw
<1>2. Typed /\ commenced /\ ~joining /\ i \in Nat /\ i > 0 /\ new \in VM
  BY VisitedIs, TypedIs DEF NodeInv, Good
<1>3. vms' \in [Ids -> VM] /\ \A j \in Ids : vms'[j] = IF j = i THEN new ELSE vms[j]
  BY <1>1, <1>2 DEF Typed
<1>4. faults' \in 0..MaxFaults
  BY <1>2, VMNodeAssumption DEF Typed
<1>5. TypeOK'
  <2>1. Typed'
    BY <1>1, <1>2, <1>3, <1>4 DEF Typed, Flags
  <2> QED BY Zenon, <2>1, TypedIs DEF TypeOK, Typed, Queues, Flags
<1>6. ASSUME NEW j \in Ids PROVE Instance(vms[j])'
  BY Zenon, <1>1, <1>2, <1>3 DEF NodeInv, Instance, Good, NoRace
<1>7. anyActive' <=> \E j \in Ids : j < cur' /\ Busy(vms'[j])
  <2>1. anyActive <=> \E j \in Ids : j < i /\ Busy(vms[j])
    BY Zenon, <1>2 DEF NodeInv, Polling
  <2>2. \A j \in Ids : j < i => vms'[j] = vms[j]
    BY <1>2, <1>3, InstancesAssumption DEF Ids
  <2> QED BY <1>1, <2>1, <2>2
<1>8. Handling'
  BY <1>1, <1>3 DEF Handling
<1>9. Polling'
  BY <1>1, <1>2, <1>7, <1>8 DEF Polling
<1> QED BY <1>5, <1>6, <1>9 DEF NodeInv

\* A visit of poll(), whatever it does.
LEMMA VisitStep == ASSUME NodeInv, NEW i \in Ids, Visit(i) PROVE NodeInv'
<1>1. cur = i /\ aborted = "no" /\ vms[i] \in VM /\ Typed /\ commenced /\ ~joining
  BY VisitIs, VisitedIs, TypedIs DEF NodeInv
<1>2. CASE Stops(i)
  <2>1. /\ UNCHANGED <<active, commenced, target, vms, cur, anyActive, joining, delivered, faults,
                       round, queue, traces, errors, given>>
        /\ exc' = "none" /\ aborted' \in {"get_stdout", "no_transition"}
        /\ aborted' = "no_transition" => vms[i].err /\ vms[i].st = "NextTest"
    BY <1>2 DEF Stops, Abort
  <2>2. TypeOK'
    BY <2>1 DEF NodeInv, TypeOK
  <2>3. ASSUME NEW j \in Ids PROVE Instance(vms[j])'
    BY Zenon, <2>1 DEF NodeInv, Instance, NoRace, Unfailed
  <2>4. Polling'
    BY Zenon, <1>1, <2>1 DEF NodeInv, Polling
  <2> QED BY <2>2, <2>3, <2>4 DEF NodeInv
<1>3. CASE \E new : Ends(i, new) /\ Effect(vms[i], new)
  <2>1. PICK new : Ends(i, new) /\ Effect(vms[i], new)
    BY <1>3
  <2>2. Queues'
    BY <2>1, EffectTyped
  <2> QED BY <1>1, <2>1, <2>2, LeaveStep, ThrowStep DEF Ends
<1> QED BY <1>2, <1>3, VisitIs

\* A step of one instance beside the poll loop changes nothing that Polling is about.
LEMMA WorksStep ==
  ASSUME NodeInv, NEW i \in Ids, NEW new, Works(i, new),
         UNCHANGED <<queue, traces, errors, active, commenced, target, cur, anyActive, exc, joining,
                     aborted, given, delivered, round>>
  PROVE  NodeInv'
<1>1. /\ vms[i] \in VM /\ vms \in [Ids -> VM] /\ faults \in Nat /\ faults <= MaxFaults
      /\ MaxFaults \in Nat /\ (~joining => Sound(vms[i]))
  BY InstanceIs
<1>2. /\ vms' \in [Ids -> VM] /\ \A j \in Ids : vms'[j] = IF j = i THEN new ELSE vms[j]
  BY <1>1 DEF Works
<1>3. faults' \in 0..MaxFaults /\ (Unfailed' => Unfailed) /\ (NoRace' => NoRace)
  BY <1>1, FewerFaults DEF Works
<1>4. TypeOK'
  BY Zenon, <1>2, <1>3 DEF NodeInv, TypeOK
<1>5. ASSUME NEW j \in Ids PROVE Instance(vms[j])'
  <2>1. CASE j # i
    BY <1>2, <1>3, <2>1 DEF NodeInv, Instance
  <2>2. CASE j = i
    BY Zenon, <1>1, <1>2, <2>2 DEF Works, Instance, Sound
  <2> QED BY <2>1, <2>2
<1>6. \A j \in Ids : /\ vms'[j].st = vms[j].st /\ (vms'[j].err <=> vms[j].err)
                     /\ (vms'[j].term <=> vms[j].term)
  BY <1>2 DEF Works
<1>7. \A j \in Ids : Busy(vms'[j]) <=> Busy(vms[j])
  BY Zenon, <1>6 DEF Busy
<1>8. commenced \/ joining
  BY Zenon DEF Works, NodeInv, Polling
<1>9. Handling => Handling'
  BY Zenon, <1>3, <1>6 DEF Handling
<1>10. Polling'
  BY Zenon, <1>6, <1>7, <1>8, <1>9 DEF NodeInv, Polling
<1> QED BY <1>4, <1>5, <1>10 DEF NodeInv

LEMMA TaskStep == ASSUME NodeInv, NEW i \in Ids, Progress(i) \/ Mishap(i) PROVE NodeInv'
<1>1. UNCHANGED <<queue, traces, errors, active, commenced, target, cur, anyActive, exc, joining,
                  aborted, given, delivered, round>>
  BY DEF Progress, Mishap
<1> QED BY <1>1, ProgressWorks, MishapWorks, WorksStep

\* An assertion in a task changes nothing else, at whatever point of poll() or reset() it comes.
LEMMA AssertStep == ASSUME NodeInv, NEW i \in Ids, StoreTraceAsserts(i) PROVE NodeInv'
<1>1. /\ aborted' = "store_trace"
      /\ UNCHANGED <<queue, traces, errors, active, commenced, target, vms, cur, anyActive, exc,
                     joining, given, delivered, round>>
  BY Zenon DEF StoreTraceAsserts
<1>2. faults \in 0..MaxFaults /\ faults' = faults - 1 /\ faults > 0
  BY DEF StoreTraceAsserts, Fault, NodeInv, TypeOK
<1>3. faults' \in 0..MaxFaults /\ ~Unfailed' /\ (NoRace' => NoRace)
  BY <1>2, VMNodeAssumption DEF Unfailed, NoRace
<1>4. TypeOK'
  BY <1>1, <1>3 DEF NodeInv, TypeOK
<1>5. ASSUME NEW j \in Ids PROVE Instance(vms[j])'
  BY Zenon, <1>1, <1>3 DEF NodeInv, Instance
<1>6. Polling'
  BY Zenon, <1>1, <1>3 DEF NodeInv, Polling, Handling
<1> QED BY <1>4, <1>5, <1>6 DEF NodeInv

\* Nothing that the invariant says of the instances changes.
LEMMA SameInstances ==
  ASSUME NodeInv, UNCHANGED <<vms, joining, faults>> PROVE \A i \in Ids : Instance(vms[i])'
BY DEF NodeInv, Instance, NoRace, Unfailed

\* The begin and the end of poll().
LEMMA PollStep == NodeInv /\ (PollBegin \/ PollEnd) => NodeInv'
<1> USE InstancesAssumption
<1>1. ASSUME NodeInv, PollBegin PROVE NodeInv'
  <2>1. cur' = 1 /\ cur' \in 0..(Instances + 1) /\ cur' > 0
    BY <1>1 DEF PollBegin
  <2>2. TypeOK'
    <3>1. anyActive' \in BOOLEAN
      BY Zenon, <1>1 DEF PollBegin
    <3> QED BY <1>1, <2>1, <3>1 DEF NodeInv, TypeOK, PollBegin
  <2>3. \A j \in Ids : ~(j < cur')
    BY <2>1 DEF Ids
  <2>4. Polling'
    <3>1. exc = "none"
      <4>1. 0 \notin Ids
        BY DEF Ids
      <4> QED BY Zenon, <1>1, <4>1 DEF NodeInv, Polling, Handling, PollBegin, Free
    <3> QED BY Zenon, <1>1, <2>1, <2>3, <3>1 DEF NodeInv, Polling, PollBegin, Free
  <2> QED BY <1>1, <2>2, <2>4, SameInstances DEF NodeInv, PollBegin
<1>2. ASSUME NodeInv, PollEnd PROVE NodeInv'
  <2>1. cur' \in 0..(Instances + 1) /\ ~(cur' > 0) /\ cur \notin Ids /\ cur > 0
    BY <1>2 DEF PollEnd, Ids
  <2>2. TypeOK'
    BY <1>2, <2>1 DEF NodeInv, TypeOK, PollEnd
  <2>3. Polling'
    BY Zenon, <1>2, <2>1 DEF NodeInv, Polling, Handling, PollEnd
  <2> QED BY <1>2, <2>2, <2>3, SameInstances DEF NodeInv, PollEnd
<1> QED BY <1>1, <1>2

\* commence(): the instances start, but for those that fail at once.
LEMMA CommenceStep ==
  ASSUME NodeInv, CommenceRequest
  PROVE  /\ NodeInv'
         /\ \A i \in Ids :
              /\ vms'[i].st \in {"Start", "ValidateImage", "ConnectVM"}
              /\ ~Busy(vms'[i]) \/ \E first \in BOOLEAN : vms'[i] = Started(first)
<1>1. /\ cur = 0 /\ ~joining /\ ~commenced /\ commenced' = TRUE /\ aborted = "no"
      /\ aborted' \in {"no", "get_stdout"}
      /\ UNCHANGED <<queue, traces, errors, active, target, cur, anyActive, exc, joining, given,
                     delivered, round>>
  BY DEF CommenceRequest, Free
<1>2. PICK bad \in SUBSET Ids :
        /\ bad # {} => Cardinality(bad) <= faults
        /\ faults' = faults - Cardinality(bad)
        /\ vms' = [i \in Ids |-> IF i \in bad THEN [vms[i] EXCEPT !.term = TRUE]
                                 ELSE Started(i = 1 \/ ~Distributed)]
  BY DEF CommenceRequest
<1>3. \A i \in Ids : vms[i] = NewVM
  BY Zenon, <1>1 DEF NodeInv, Polling
<1>4. /\ faults \in 0..MaxFaults /\ MaxFaults \in Nat /\ IsFiniteSet(bad) /\ Cardinality(bad) \in Nat
      /\ (Cardinality(bad) = 0 => bad = {}) /\ (bad = {} => Cardinality(bad) = 0)
  <2>0. IsFiniteSet(Ids)
    BY InstancesAssumption, FS_Interval DEF Ids
  <2>1. IsFiniteSet(bad)
    BY <2>0, FS_Subset
  <2>2. Cardinality(bad) \in Nat /\ (Cardinality(bad) = 0 <=> bad = {})
    BY <2>1, FS_CardinalityType, FS_EmptySet
  <2> QED BY Zenon, <2>1, <2>2, VMNodeAssumption DEF NodeInv, TypeOK
<1>5. faults' \in 0..MaxFaults /\ (Unfailed' => Unfailed /\ bad = {})
  BY <1>2, <1>4 DEF Unfailed
<1>6. ASSUME NEW i \in Ids
      PROVE  /\ vms'[i] \in VM /\ Sound(vms'[i]) /\ Traced(vms'[i]) /\ (Unfailed' => Calm(vms'[i]))
             /\ vms'[i].st \in {"Start", "ValidateImage", "ConnectVM"}
             /\ ~Busy(vms'[i]) \/ \E first \in BOOLEAN : vms'[i] = Started(first)
  <2>1. CASE i \in bad
    <3> DEFINE d == [NewVM EXCEPT !.term = TRUE]
    <3>1. NewVM \in VM /\ NewVM.st = "Start" /\ ~NewVM.err
      BY NewIs DEF Fields
    <3>2. Fields(d, NewVM.st, TRUE, NewVM.err, NewVM.task, NewVM.conn, NewVM.proc, NewVM.first,
                 NewVM.test, NewVM.trace, NewVM.ready)
      BY Zenon, <3>1, SetTerm
    <3>3. vms'[i] = d
      BY Zenon, <1>2, <1>3, <2>1
    <3> HIDE DEF d
    <3>4. d \in VM /\ Sound(d) /\ Traced(d) /\ ~Busy(d) /\ d.st = "Start"
      BY <3>1, <3>2 DEF Fields, Sound, Traced, Busy
    <3> QED BY Zenon, <1>5, <2>1, <3>3, <3>4
  <2>2. CASE i \notin bad
    <3> DEFINE first == i = 1 \/ ~Distributed  s == Started(first)
    <3>1. first \in BOOLEAN /\ vms'[i] = s
      BY <1>2, <2>2
    <3> HIDE DEF first
    <3>2. Fields(s, IF Distributed THEN "ValidateImage" ELSE "ConnectVM", FALSE, FALSE, "done", "done",
                 IF Distributed THEN "none" ELSE "up", first, None, None, FALSE)
      BY Zenon, <3>1, StartedIs
    <3>3. \E f \in BOOLEAN : s = Started(f)
      BY <3>1
    <3> HIDE DEF s
    <3>4. /\ s \in VM /\ Sound(s) /\ Traced(s) /\ Calm(s)
          /\ s.st \in {"ValidateImage", "ConnectVM"}
      BY Zenon, <3>2 DEF Fields, Sound, Traced, Calm, Running
    <3> QED BY Zenon, <3>1, <3>3, <3>4
  <2> QED BY Zenon, <2>1, <2>2
<1>7. vms' \in [Ids -> VM]
  BY <1>2, <1>6
<1>8. TypeOK'
  BY Zenon, <1>1, <1>5, <1>7 DEF NodeInv, TypeOK
<1>9. ASSUME NEW i \in Ids PROVE Instance(vms[i])'
  BY <1>6 DEF Instance
<1>10. exc = "none" /\ ~(cur > 0)
  <2>1. 0 \notin Ids
    BY InstancesAssumption DEF Ids
  <2> QED BY Zenon, <1>1, <2>1 DEF NodeInv, Polling, Handling
<1>11. Polling'
  BY <1>1, <1>10 DEF Polling
<1> QED BY Zenon, <1>6, <1>8, <1>9, <1>11 DEF NodeInv

\* reset(), up to the tasks that it joins.
LEMMA ResetBeginStep == ASSUME NodeInv, ResetBegin PROVE NodeInv'
<1>1. /\ cur = 0 /\ aborted = "no" /\ joining' = TRUE /\ commenced' = FALSE /\ active' = TRUE
      /\ queue' = <<>> /\ traces' = <<>> /\ given' = <<>> /\ delivered' = <<>>
      /\ round < MaxRounds /\ round' = round + 1
      /\ vms' = [i \in Ids |-> IF vms[i].term THEN vms[i] ELSE Killed([vms[i] EXCEPT !.term = TRUE])]
      /\ UNCHANGED <<errors, target, cur, anyActive, exc, aborted, faults>>
  BY DEF ResetBegin, Free
<1>2. ASSUME NEW i \in Ids PROVE vms'[i] \in VM /\ (NoRace => Traced(vms'[i]))
  <2> DEFINE vm == vms[i]  d == [vm EXCEPT !.term = TRUE]
  <2>1. vm \in VM /\ (NoRace => Traced(vm))
    BY InstanceIs
  <2>2. vms'[i] = IF vm.term THEN vm ELSE Killed(d)
    BY <1>1
  <2>3. Fields(d, vm.st, TRUE, vm.err, vm.task, vm.conn, vm.proc, vm.first, vm.test, vm.trace, vm.ready)
    BY Zenon, <2>1, SetTerm
  <2> HIDE DEF d, vm
  <2>4. d \in VM
    BY <2>3 DEF Fields
  <2>5. Fields(Killed(d), d.st, d.term, d.err, d.task, d.conn,
               IF d.proc = "up" THEN "dead" ELSE d.proc, d.first, d.test, d.trace, d.ready)
    BY <2>4, KilledIs
  <2>6. Killed(d) \in VM /\ (Traced(vm) => Traced(Killed(d)))
    BY Zenon, <2>3, <2>5 DEF Fields, Traced
  <2> QED BY <2>1, <2>2, <2>6
<1>3. vms' \in [Ids -> VM] /\ round' \in 0..MaxRounds
  BY <1>1, <1>2, VMNodeAssumption DEF NodeInv, TypeOK
<1>4. TypeOK'
  <2>1. Typed
    BY TypedIs DEF NodeInv
  <2>2. Queues' /\ Flags' /\ delivered' \in Seq(Tests \cup {Initial, None})
    <3>1. <<>> \in Seq(Tests \cup {Initial}) /\ <<>> \in Seq(Tests \cup {Initial, None})
      OBVIOUS
    <3>2. Queues'
      BY <1>1, <2>1, <3>1 DEF Typed, Queues
    <3>3. Flags'
      BY Zenon, <1>1, <2>1 DEF Typed, Flags
    <3> QED BY <1>1, <3>1, <3>2, <3>3
  <2>3. Typed'
    BY <1>1, <1>3, <2>1, <2>2 DEF Typed
  <2> QED BY <2>3, TypedIs, PTL
<1>5. ASSUME NEW i \in Ids PROVE Instance(vms[i])'
  BY <1>1, <1>2 DEF Instance, NoRace, Unfailed
<1>6. exc = "none" /\ ~(cur > 0)
  <2>1. 0 \notin Ids
    BY InstancesAssumption DEF Ids
  <2> QED BY <1>1, <2>1 DEF NodeInv, Polling, Handling
<1>7. Polling'
  BY <1>1, <1>6 DEF Polling
<1> QED BY <1>4, <1>5, <1>7 DEF NodeInv

\* reset() returns.
LEMMA ResetEndStep == ASSUME NodeInv, ResetEnd PROVE NodeInv'
<1>1. /\ joining /\ aborted = "no" /\ joining' = FALSE /\ vms' = [i \in Ids |-> NewVM]
      /\ UNCHANGED <<queue, traces, errors, active, commenced, target, cur, anyActive, exc, aborted,
                     given, delivered, faults, round>>
  BY Zenon DEF ResetEnd
<1>2. ~commenced /\ aborted = "no" /\ ~(cur > 0) /\ exc = "none"
  <2>1. ~(cur > 0)
    BY <1>1 DEF NodeInv, Polling
  <2>2. cur \notin Ids
    BY <2>1, InstancesAssumption DEF Ids
  <2> QED BY Zenon, <1>1, <2>1, <2>2 DEF NodeInv, Polling, Handling
<1>3. vms' \in [Ids -> VM]
  BY Zenon, <1>1, NewIs DEF Fields
<1>4. TypeOK'
  BY Zenon, <1>1, <1>3 DEF NodeInv, TypeOK
<1>5. ASSUME NEW i \in Ids PROVE Instance(vms[i])'
  BY Zenon, <1>1, NewIs DEF Instance, Fields, Sound, Traced, Calm, Running
<1>6. Polling'
  BY <1>1, <1>2 DEF Polling
<1> QED BY <1>4, <1>5, <1>6 DEF NodeInv

\* The other requests leave the instances alone.
LEMMA OtherStep ==
  ASSUME NodeInv,
         NextTarget \/ TransmitTraces \/ TransmitErrorLogs \/ \E t \in Tests : ReceiveTest(t)
  PROVE  NodeInv'
<1>1. UNCHANGED <<active, commenced, vms, cur, anyActive, exc, joining, aborted, faults, round>>
  BY DEF NextTarget, TransmitTraces, TransmitErrorLogs, ReceiveTest
<1>2. Polling'
  BY Zenon, <1>1 DEF NodeInv, Polling, Handling, Unfailed
<1>3. Typed
  BY TypedIs DEF NodeInv
<1>4. target' \in BOOLEAN /\ Queues' /\ delivered' \in Seq(Tests \cup {Initial, None})
  <2>1. CASE NextTarget
    BY <1>3, <2>1 DEF NextTarget, Typed, Queues
  <2>2. CASE TransmitTraces
    <3> DEFINE S == Tests \cup {Initial, None}
    <3>1. PICK k \in 1..Len(traces) : /\ delivered' = delivered \o SubSeq(traces, 1, k)
                                     /\ traces' = SubSeq(traces, k + 1, Len(traces))
      BY Zenon, <2>2 DEF TransmitTraces
    <3>2. traces \in Seq(S) /\ delivered \in Seq(S)
      BY <1>3 DEF Typed, Queues
    <3> HIDE DEF S
    <3>3. SubSeq(traces, 1, k) \in Seq(S) /\ SubSeq(traces, k + 1, Len(traces)) \in Seq(S)
      BY <3>2
    <3>4. delivered' \in Seq(S) /\ traces' \in Seq(S)
      BY <3>1, <3>2, <3>3
    <3> QED BY Zenon, <1>3, <2>2, <3>4 DEF TransmitTraces, Typed, Queues, Flags, S
  <2>3. CASE TransmitErrorLogs
    <3>1. errors' \in Nat
      BY <1>3, <2>3 DEF TransmitErrorLogs, Typed, Queues
    <3> QED BY <1>3, <2>3, <3>1 DEF TransmitErrorLogs, Typed, Queues, Flags
  <2>4. CASE \E t \in Tests : ReceiveTest(t)
    <3>1. queue' \in Seq(Tests \cup {Initial}) /\ given' \in Seq(Tests \cup {Initial})
      BY <1>3, <2>4 DEF ReceiveTest, Typed, Queues
    <3> QED BY <1>3, <2>4, <3>1 DEF ReceiveTest, Typed, Queues, Flags
  <2> QED BY <2>1, <2>2, <2>3, <2>4
<1>5. TypeOK'
  BY <1>1, <1>3, <1>4 DEF Typed, Queues, Flags, TypeOK
<1> QED BY <1>1, <1>2, <1>5, SameInstances DEF NodeInv

LEMMA NodeInit == Init => NodeInv
<1> SUFFICES ASSUME Init PROVE NodeInv
  OBVIOUS
<1> USE InstancesAssumption, VMNodeAssumption
<1>1. vms = [i \in Ids |-> NewVM] /\ vms \in [Ids -> VM]
  BY NewIs DEF Init, Fields
<1>2. Flags
  BY Zenon DEF Init, Flags
<1>3. Typed
  BY <1>1, <1>2 DEF Init, Typed, Queues
<1>4. ASSUME NEW i \in Ids PROVE Instance(vms[i])
  BY Zenon, <1>1, NewIs DEF Fields, Instance, Sound, Traced, Calm, Running
<1>5. Polling
  BY <1>1 DEF Init, Polling
<1> QED BY <1>3, <1>4, <1>5, TypedIs DEF NodeInv

\* One lemma per action, together.
LEMMA NodeStep == NodeInv /\ [Next]_vars => NodeInv'
<1> SUFFICES ASSUME NodeInv, [Next]_vars PROVE NodeInv'
  OBVIOUS
<1>1. CASE UNCHANGED vars
  <2>1. TypeOK'
    BY Zenon, <1>1 DEF NodeInv, TypeOK, vars
  <2>2. Polling'
    BY Zenon, <1>1 DEF NodeInv, Polling, Handling, Unfailed, vars
  <2> QED BY <1>1, <2>1, <2>2, SameInstances DEF NodeInv, vars
<1> QED
  BY Zenon, <1>1, PollStep, VisitStep, TaskStep, AssertStep, CommenceStep, ResetBeginStep, ResetEndStep, OtherStep
     DEF Next, Poll, Requests, Aborted

\* The inductive invariant of a VM node: whichever way poll(), the requests, the tasks and
\* what goes wrong interleave, what poll() takes for granted of an instance that it visits
\* without asking for its flags is so, and an exception is that of the instance in hand.
THEOREM NodeInvariant == Spec => []NodeInv
BY NodeInit, NodeStep, PTL DEF Spec

\* Every field of a node and of its instances has a value of its type.
THEOREM NodeTypes == Spec => []TypeOK
<1>1. NodeInv => TypeOK
  BY DEF NodeInv
<1> QED BY <1>1, NodeInvariant, PTL

\* QemuFSM: of all the states in which an instance may be in Error, NextTest is the only one
\* in which a second ev::error can reach it and abort the node.
THEOREM AbortInNextTest == Spec => []AbortOnlyInNextTest
<1>1. NodeInv => AbortOnlyInNextTest
  BY DEF NodeInv, Polling, AbortOnlyInNextTest
<1> QED BY <1>1, NodeInvariant, PTL

\* poll() reads the trace of the test that the instance has run, if a task cannot fail
\* between the two reads of is_prev_task_finished.
THEOREM TraceOfTest == ASSUME "race" \notin Faults PROVE Spec => []TraceIsOfTest
<1>1. NodeInv => TraceIsOfTest
  BY Zenon DEF NodeInv, Instance, NoRace, Traced, TraceIsOfTest
<1> QED BY <1>1, NodeInvariant, PTL

=============================================================================
