----------------------------- MODULE VMNodeTests -----------------------------
(***************************************************************************)
(* What becomes of the tests that a VM node is given, and that the node is *)
(* a WorkNode, for any number of instances, tests, faults and resets.      *)
(***************************************************************************)
EXTENDS VMNodeProofs

-----------------------------------------------------------------------------
(* How often a test occurs in a queue.                                     *)

One(P) == IF P THEN 1 ELSE 0
Hit(x, t) == IF x = t THEN 1 ELSE 0

LEMMA TimesFinite ==
  ASSUME NEW S, NEW s \in Seq(S), NEW t
  PROVE  IsFiniteSet({k \in 1..Len(s) : s[k] = t}) /\ Times(t, s) \in Nat
<1>1. IsFiniteSet(1..Len(s))
  BY FS_Interval
<1>2. IsFiniteSet({k \in 1..Len(s) : s[k] = t})
  BY <1>1, FS_Subset
<1> QED BY <1>2, FS_CardinalityType DEF Times

LEMMA TimesAppend ==
  ASSUME NEW S, NEW s \in Seq(S), NEW x \in S, NEW t
  PROVE  Times(t, Append(s, x)) = Times(t, s) + Hit(x, t)
<1> DEFINE A == {k \in 1..Len(s) : s[k] = t}
           B == {k \in 1..Len(Append(s, x)) : Append(s, x)[k] = t}
<1>1. IsFiniteSet(A) /\ Cardinality(A) \in Nat
  BY Zenon, TimesFinite DEF Times
<1>0. Len(s) + 1 \notin A
  OBVIOUS
<1>2. B = IF x = t THEN A \cup {Len(s) + 1} ELSE A
  OBVIOUS
<1> HIDE DEF A, B
<1>3. Cardinality(B) = Cardinality(A) + Hit(x, t)
  <2>1. CASE x = t
    BY Zenon, <1>0, <1>1, <1>2, <2>1, FS_AddElement DEF Hit
  <2>2. CASE x # t
    BY <1>1, <1>2, <2>2 DEF Hit
  <2> QED BY <2>1, <2>2
<1> QED BY Zenon, <1>3 DEF A, B, Times

LEMMA TimesConcat ==
  ASSUME NEW S, NEW s \in Seq(S), NEW u \in Seq(S), NEW t
  PROVE  Times(t, s \o u) = Times(t, s) + Times(t, u)
<1> DEFINE A == {k \in 1..Len(s) : s[k] = t}
           B == {k \in 1..Len(u) : u[k] = t}
           C == {k \in 1..Len(s \o u) : (s \o u)[k] = t}
           D == {k + Len(s) : k \in B}
           f == [k \in B |-> k + Len(s)]
<1>1. IsFiniteSet(A) /\ IsFiniteSet(B) /\ Cardinality(A) \in Nat /\ Cardinality(B) \in Nat
  BY Zenon, TimesFinite DEF Times
<1>2. Len(s) \in Nat /\ B \subseteq Nat
  OBVIOUS
<1>3. C = A \cup D
  <2>1. ASSUME NEW k \in C PROVE k \in A \cup D
    <3>1. CASE k <= Len(s)
      BY <3>1
    <3>2. CASE k > Len(s)
      <4>1. k - Len(s) \in B /\ k = (k - Len(s)) + Len(s)
        BY <3>2
      <4> QED BY <4>1
    <3> QED BY <3>1, <3>2
  <2>2. A \subseteq C
    OBVIOUS
  <2>3. D \subseteq C
    OBVIOUS
  <2> QED BY <2>1, <2>2, <2>3
<1>4. A \cap D = {}
  OBVIOUS
<1> HIDE DEF A, B, C
<1>5. f \in Bijection(B, D)
  <2>1. \A j, k \in B : f[j] = f[k] => j = k
    BY <1>2
  <2>2. f \in [B -> D] /\ \A d \in D : \E k \in B : f[k] = d
    OBVIOUS
  <2> QED BY <2>1, <2>2 DEF Bijection, Injection, Surjection, IsInjective
<1>6. IsFiniteSet(D) /\ Cardinality(D) = Cardinality(B)
  BY <1>1, <1>5, FS_Bijection DEF ExistsBijection
<1> HIDE DEF D
<1>7. Cardinality(C) = Cardinality(A) + Cardinality(B)
  <2>1. Cardinality(A \cup D) = Cardinality(A) + Cardinality(D) - Cardinality(A \cap D)
    BY <1>1, <1>6, FS_Union
  <2>2. Cardinality(A \cap D) = 0
    BY Zenon, <1>4, FS_EmptySet
  <2>3. Cardinality(C) = Cardinality(A) + Cardinality(D) - 0
    BY Zenon, <1>3, <2>1, <2>2
  <2> QED BY <1>1, <1>6, <2>3
<1> QED BY Zenon, <1>7 DEF A, B, C, Times

LEMMA TimesEmpty == \A t : Times(t, <<>>) = 0
<1>1. ASSUME NEW t PROVE Times(t, <<>>) = 0
  <2>1. {k \in 1..Len(<<>>) : <<>>[k] = t} = {}
    OBVIOUS
  <2> QED BY <2>1, FS_EmptySet DEF Times
<1> QED BY <1>1

LEMMA TimesTail ==
  ASSUME NEW S, NEW s \in Seq(S), s # <<>>, NEW t
  PROVE  Times(t, s) = Hit(Head(s), t) + Times(t, Tail(s))
<1> DEFINE h == <<Head(s)>>
<1>1. Head(s) \in S /\ Tail(s) \in Seq(S) /\ h \in Seq(S) /\ h = Append(<<>>, Head(s)) /\ <<>> \in Seq(S)
  OBVIOUS
<1>2. s = h \o Tail(s)
  OBVIOUS
<1> HIDE DEF h
<1>3. Times(t, h) = 0 + Hit(Head(s), t)
  <2>1. Times(t, Append(<<>>, Head(s))) = Times(t, <<>>) + Hit(Head(s), t)
    BY Zenon, <1>1, TimesAppend
  <2> QED BY Zenon, <1>1, <2>1, TimesEmpty
<1>4. Times(t, h \o Tail(s)) = Times(t, h) + Times(t, Tail(s))
  BY Zenon, <1>1, TimesConcat
<1>5. Times(t, s) = (0 + Hit(Head(s), t)) + Times(t, Tail(s))
  BY Zenon, <1>2, <1>3, <1>4
<1> QED BY <1>5 DEF Hit

\* Moving the first elements of one queue to the end of another.
LEMMA TimesMoved ==
  ASSUME NEW S, NEW s \in Seq(S), NEW d \in Seq(S), NEW k \in 1..Len(s), NEW t
  PROVE  Times(t, SubSeq(s, k + 1, Len(s))) + Times(t, d \o SubSeq(s, 1, k)) = Times(t, s) + Times(t, d)
<1> DEFINE a == SubSeq(s, 1, k)  b == SubSeq(s, k + 1, Len(s))
<1>1. a \in Seq(S) /\ b \in Seq(S) /\ s = a \o b
  OBVIOUS
<1> HIDE DEF a, b
<1>2. Times(t, a \o b) = Times(t, a) + Times(t, b) /\ Times(t, d \o a) = Times(t, d) + Times(t, a)
  BY <1>1, TimesConcat
<1>3. Times(t, a) \in Nat /\ Times(t, b) \in Nat /\ Times(t, d) \in Nat
  BY Zenon, <1>1, TimesFinite
<1>4. Times(t, s) = Times(t, a) + Times(t, b)
  BY Zenon, <1>1, <1>2
<1>5. Times(t, b) + Times(t, d \o a) = Times(t, s) + Times(t, d)
  BY <1>2, <1>3, <1>4
<1> QED BY Zenon, <1>5 DEF a, b

-----------------------------------------------------------------------------
(* Where the tests are.                                                    *)

AllTests == Tests \cup {Initial}

LEMMA SubsetOfIds ==
  ASSUME NEW H \in SUBSET Ids, NEW i
  PROVE  /\ IsFiniteSet(H) /\ Cardinality(H) \in Nat /\ Cardinality(H \ {i}) \in Nat
         /\ Cardinality(H) = Cardinality(H \ {i}) + One(i \in H)
<1>0. IsFiniteSet(Ids)
  BY FS_Interval, InstancesAssumption DEF Ids
<1>1. IsFiniteSet(H)
  BY <1>0, FS_Subset
<1>2. IsFiniteSet(H \ {i}) /\ Cardinality(H \ {i}) = IF i \in H THEN Cardinality(H) - 1 ELSE Cardinality(H)
  BY <1>1, FS_RemoveElement
<1>3. Cardinality(H) \in Nat /\ Cardinality(H \ {i}) \in Nat
  BY <1>1, <1>2, FS_CardinalityType
<1> QED BY <1>1, <1>2, <1>3 DEF One

\* Only the instance in hand takes a test or gives one up.
LEMMA HoldersChange ==
  ASSUME NodeInv, NEW i \in Ids, NEW new, vms' = [vms EXCEPT ![i] = new], ~joining, UNCHANGED joining,
         NEW t
  PROVE  /\ Cardinality(Holders(t)) \in Nat /\ Cardinality(Holders(t)') \in Nat
         /\ Cardinality(Holders(t)') + One(Holds(vms[i], t)) = Cardinality(Holders(t)) + One(Holds(new, t))
<1> DEFINE H == Holders(t)  N == Holders(t)'
<1>1. vms \in [Ids -> VM]
  BY DEF NodeInv, TypeOK
<1>2. /\ H \in SUBSET Ids /\ N \in SUBSET Ids
      /\ (i \in H <=> Holds(vms[i], t)) /\ (i \in N <=> Holds(new, t))
  BY <1>1 DEF Holders, Holds
<1>3. H \ {i} = N \ {i}
  BY <1>1 DEF Holders
<1> HIDE DEF H, N
<1>4. /\ Cardinality(H) \in Nat /\ Cardinality(N) \in Nat /\ Cardinality(H \ {i}) \in Nat
      /\ Cardinality(H) = Cardinality(H \ {i}) + One(i \in H)
      /\ Cardinality(N) = Cardinality(H \ {i}) + One(i \in N)
  BY Zenon, <1>2, <1>3, SubsetOfIds
<1>5. Cardinality(N) + One(i \in H) = Cardinality(H) + One(i \in N)
  BY <1>4 DEF One
<1> QED BY <1>2, <1>4, <1>5 DEF H, N, One

\* A step may lose a test once something has failed, and never makes a second one of it.
Keeps(t) ==
  /\ Places(t)' + Times(t, given) <= Places(t) + Times(t, given')
  /\ Unfailed' => Places(t)' + Times(t, given) = Places(t) + Times(t, given')

LEMMA CountsAre ==
  ASSUME NodeInv, NEW t
  PROVE  /\ Times(t, queue) \in Nat /\ Times(t, traces) \in Nat /\ Times(t, delivered) \in Nat
         /\ Times(t, given) \in Nat /\ Cardinality(Holders(t)) \in Nat
<1>1. /\ queue \in Seq(Tests \cup {Initial}) /\ traces \in Seq(Tests \cup {Initial, None})
      /\ delivered \in Seq(Tests \cup {Initial, None}) /\ given \in Seq(Tests \cup {Initial})
  BY DEF NodeInv, TypeOK
<1>2. Holders(t) \in SUBSET Ids
  BY DEF Holders
<1> QED BY Zenon, <1>1, <1>2, TimesFinite, SubsetOfIds

LEMMA PlacesAre ==
  ASSUME NEW t
  PROVE  Places(t)' = Times(t, queue') + Cardinality(Holders(t)') + Times(t, traces')
                       + Times(t, delivered')
BY DEF Places

LEMMA SameKeeps ==
  ASSUME NodeInv, NEW t, UNCHANGED <<queue, traces, delivered, given>>, Holders(t)' = Holders(t)
  PROVE  Keeps(t)
BY CountsAre, PlacesAre DEF Keeps, Places

\* The counting, once for each effect of a visit.
LEMMA EffectKeeps ==
  ASSUME NodeInv, NoRace, NEW i \in Ids, cur = i, NEW new, vms' = [vms EXCEPT ![i] = new],
         UNCHANGED <<joining, delivered>>, Effect(vms[i], new), NEW t \in AllTests
  PROVE  Keeps(t)
<1> DEFINE vm == vms[i]  S == Tests \cup {Initial}  R == Tests \cup {Initial, None}
           q == Times(t, queue)  h == Cardinality(Holders(t))  r == Times(t, traces)
           d == Times(t, delivered)  g == Times(t, given)
           h2 == Cardinality(Holders(t)')
<1>1. q \in Nat /\ h \in Nat /\ r \in Nat /\ d \in Nat /\ g \in Nat
  BY CountsAre
<1>2. h2 \in Nat /\ h2 + One(Holds(vm, t)) = h + One(Holds(new, t))
  BY Zenon, HoldersChange, VisitedIs
<1>3. Places(t) = q + h + r + d /\ Places(t)' = Times(t, queue') + h2 + Times(t, traces') + d
  BY PlacesAre DEF Places
<1>4. /\ queue \in Seq(S) /\ traces \in Seq(R) /\ given \in Seq(S) /\ vm.trace \in R
      /\ vm.st = "Finished" => vm.trace = vm.test
  BY Zenon, VisitedIs DEF NodeInv, TypeOK, Good, Traced, VM
<1>5. Initial \in S
  OBVIOUS
<1> HIDE DEF q, h, r, d, g, h2, vm, S, R
<1>6. ASSUME NEW q2 \in Nat, NEW r2 \in Nat, NEW g2 \in Nat,
             Times(t, queue') = q2, Times(t, traces') = r2, Times(t, given') = g2,
             q2 + h2 + r2 + g <= q + h + r + g2,
             Unfailed' => q2 + h2 + r2 + g = q + h + r + g2
      PROVE  Keeps(t)
  BY <1>1, <1>2, <1>3, <1>6 DEF Keeps, g
<1>7. /\ UNCHANGED queue => Times(t, queue') = q
      /\ UNCHANGED traces => Times(t, traces') = r
      /\ UNCHANGED given => Times(t, given') = g
  BY Zenon DEF q, r, g
<1>8. Alike(vm, new) => h2 = h
  BY <1>1, <1>2 DEF Alike, One, AllTests
<1>9. ASSUME queue # <<>>
      PROVE  /\ Head(queue) \in S /\ Tail(queue) \in Seq(S) /\ Times(t, Tail(queue)) \in Nat
             /\ q = Hit(Head(queue), t) + Times(t, Tail(queue))
  <2>1. Head(queue) \in S /\ Tail(queue) \in Seq(S)
    BY <1>4, <1>9
  <2> QED BY Zenon, <1>4, <1>9, <2>1, TimesTail, TimesFinite DEF q
<1>10. CASE UNCHANGED <<queue, traces, given>> /\ Alike(vm, new)
  BY <1>1, <1>6, <1>7, <1>8, <1>10
<1>11. CASE Drops(vm, new)
  <2>1. /\ queue # <<>> /\ Times(t, queue') = Times(t, Tail(queue)) /\ ~Unfailed' /\ h2 = h
        /\ Times(t, traces') = r /\ Times(t, given') = g
    BY <1>7, <1>8, <1>11 DEF Drops
  <2>2. Times(t, queue') \in Nat /\ Times(t, queue') <= q
    BY <1>9, <2>1 DEF Hit
  <2> QED BY <1>1, <1>6, <2>1, <2>2
<1>12. CASE Rotates(vm, new)
  <2>1. /\ queue # <<>> /\ queue' = Append(Tail(queue), Head(queue)) /\ h2 = h
        /\ Times(t, traces') = r /\ Times(t, given') = g
    BY <1>7, <1>8, <1>12 DEF Rotates
  <2>2. Times(t, Append(Tail(queue), Head(queue))) = Times(t, Tail(queue)) + Hit(Head(queue), t)
    BY Zenon, <1>9, <2>1, TimesAppend
  <2>3. Times(t, queue') = Times(t, Tail(queue)) + Hit(Head(queue), t)
    BY Zenon, <2>1, <2>2
  <2>4. Times(t, queue') = q
    BY <1>9, <2>1, <2>3 DEF Hit
  <2> QED BY <1>1, <1>6, <2>1, <2>4
<1>13. CASE Takes(vm, new)
  <2>1. /\ queue # <<>> /\ Times(t, queue') = Times(t, Tail(queue))
        /\ Times(t, traces') = r /\ Times(t, given') = g
    BY <1>7, <1>13 DEF Takes
  <2>2. h2 = h + Hit(Head(queue), t)
    BY <1>1, <1>2, <1>13 DEF Takes, Holds, One, Hit
  <2>3. Times(t, queue') \in Nat /\ Times(t, queue') + h2 = q + h
    BY <1>1, <1>9, <2>1, <2>2 DEF Hit
  <2> QED BY <1>1, <1>2, <1>6, <2>1, <2>3
<1>14. CASE Delivers(vm, new)
  <2>1. h2 + Hit(vm.test, t) = h
    BY <1>1, <1>2, <1>14 DEF Delivers, Holds, One, Hit
  <2>2. traces' = Append(traces, vm.trace) /\ vm.trace = vm.test
    BY <1>4, <1>14 DEF Delivers
  <2>6. Times(t, queue') = q /\ Times(t, given') = g
    BY <1>7, <1>14 DEF Delivers
  <2>3. Times(t, traces') = r + Hit(vm.test, t)
    BY <1>4, <2>2, TimesAppend DEF r
  <2>4. Times(t, traces') \in Nat /\ Times(t, traces') + h2 = r + h
    BY <1>1, <1>2, <2>1, <2>3 DEF Hit
  <2>5. PICK r2 \in Nat : Times(t, traces') = r2 /\ r2 + h2 = r + h
    BY <2>4
  <2> QED BY <1>1, <1>2, <1>6, <2>5, <2>6
<1>15. CASE Deduces(vm, new)
  <2>1. queue' = Append(queue, Initial) /\ given' = Append(given, Initial)
    BY <1>15 DEF Deduces
  <2>5. h2 = h /\ Times(t, traces') = r
    BY <1>7, <1>8, <1>15 DEF Deduces
  <2>2. Times(t, queue') = q + Hit(Initial, t) /\ Times(t, given') = g + Hit(Initial, t)
    BY <1>4, <1>5, <2>1, TimesAppend DEF q, g
  <2>3. /\ Times(t, queue') \in Nat /\ Times(t, given') \in Nat
        /\ Times(t, queue') + g = q + Times(t, given')
    BY <1>1, <2>2 DEF Hit
  <2>4. Times(t, queue') + h2 + r + g = q + h + r + Times(t, given')
    BY <1>1, <2>3, <2>5
  <2> QED BY <1>1, <1>2, <1>6, <2>3, <2>4, <2>5
<1>16. CASE Replaces(vm, new)
  <2>1. h2 <= h
    BY <1>1, <1>2, <1>16 DEF Replaces, One, AllTests
  <2>2. Times(t, queue') = q /\ Times(t, traces') = r /\ Times(t, given') = g /\ ~Unfailed'
    BY <1>7, <1>16 DEF Replaces
  <2> QED BY <1>1, <1>2, <1>6, <2>1, <2>2
<1> QED BY <1>10, <1>11, <1>12, <1>13, <1>14, <1>15, <1>16 DEF Effect, Quiet, Idles, vm

\* Failures are counted down, so that nothing failed before if nothing has failed after.
LEMMA FaultsFall == ASSUME NodeInv, [Next]_vars PROVE faults' \in 0..faults
<1>1. faults \in Nat
  BY DEF NodeInv, TypeOK
<1>2. CASE UNCHANGED faults
  BY <1>1, <1>2
<1>3. ASSUME NEW i \in Ids, Visit(i) PROVE faults' \in 0..faults
  <2>1. UNCHANGED faults \/ faults' \in 0..faults
    BY <1>3, VisitIs DEF Stops, Abort, Ends, Leave
  <2> QED BY <1>1, <2>1
<1>4. ASSUME NEW i \in Ids, Progress(i) \/ Mishap(i) PROVE faults' \in 0..faults
  BY <1>4, ProgressWorks, MishapWorks DEF Works
<1>5. CASE CommenceRequest
  <2>1. PICK bad \in SUBSET Ids : /\ bad # {} => Cardinality(bad) <= faults
                                  /\ faults' = faults - Cardinality(bad)
    BY <1>5 DEF CommenceRequest
  <2>2. Cardinality(bad) \in Nat /\ (bad = {} => Cardinality(bad) = 0)
    BY Zenon, SubsetOfIds, FS_EmptySet
  <2> QED BY <1>1, <2>1, <2>2
<1>6. ASSUME NEW i \in Ids, StoreTraceAsserts(i) PROVE faults' \in 0..faults
  BY <1>1, <1>6 DEF StoreTraceAsserts, Fault
<1> QED
  BY <1>2, <1>3, <1>4, <1>5, <1>6
     DEF Next, Poll, Requests, PollBegin, PollEnd, ResetEnd, NextTarget, ResetBegin, TransmitTraces,
         TransmitErrorLogs, ReceiveTest, Aborted, vars

\* A visit of poll() has one of these effects.
LEMMA VisitKeeps ==
  ASSUME NodeInv, NoRace, NEW i \in Ids, Visit(i), NEW t \in AllTests PROVE Keeps(t)
<1>1. cur = i
  BY VisitIs
<1>2. CASE Stops(i)
  <2>1. UNCHANGED <<queue, traces, delivered, given, vms, joining>>
    BY <1>2 DEF Stops, Abort
  <2>2. Holders(t)' = Holders(t)
    BY <2>1 DEF Holders
  <2> QED BY <2>1, <2>2, SameKeeps
<1>3. CASE \E new : Ends(i, new) /\ Effect(vms[i], new)
  <2>1. PICK new : Ends(i, new) /\ Effect(vms[i], new)
    BY <1>3
  <2>2. vms' = [vms EXCEPT ![i] = new] /\ UNCHANGED <<joining, delivered>>
    BY <2>1 DEF Ends, Leave, Throw
  <2> QED BY Zenon, <1>1, <2>1, <2>2, EffectKeeps
<1> QED BY <1>2, <1>3, VisitIs

\* The steps in which no instance takes a test or gives one up.
LEMMA HoldersStay ==
  ASSUME NodeInv, NEW t,
         \/ UNCHANGED <<vms, joining>>
         \/ CommenceRequest \/ ResetEnd
         \/ \E i \in Ids : Progress(i) \/ Mishap(i)
  PROVE  Holders(t)' = Holders(t)
<1>1. CASE UNCHANGED <<vms, joining>>
  BY <1>1 DEF Holders
<1>2. NewVM.st = "Start"
  BY NewIs DEF Fields
<1>3. CASE CommenceRequest
  <2>1. \A i \in Ids : vms[i] = NewVM
    BY <1>3 DEF CommenceRequest, Free, NodeInv, Polling
  <2>2. \A i \in Ids : vms'[i].st \in {"Start", "ValidateImage", "ConnectVM"}
    BY Zenon, <1>3, CommenceStep
  <2> QED BY <1>2, <2>1, <2>2 DEF Holders
<1>4. CASE ResetEnd
  <2>1. joining /\ \A i \in Ids : vms'[i] = NewVM
    BY <1>4 DEF ResetEnd
  <2> QED BY <1>2, <2>1 DEF Holders
<1>5. ASSUME NEW i \in Ids, Progress(i) \/ Mishap(i) PROVE Holders(t)' = Holders(t)
  <2>1. PICK new : Works(i, new)
    BY <1>5, ProgressWorks, MishapWorks
  <2>2. UNCHANGED joining
    BY <1>5 DEF Progress, Mishap
  <2>3. vms \in [Ids -> VM]
    BY DEF NodeInv, TypeOK
  <2>4. \A j \in Ids : vms'[j].st = vms[j].st /\ vms'[j].test = vms[j].test
    BY <2>1, <2>3 DEF Works
  <2> QED BY <2>2, <2>4 DEF Holders
<1> QED BY <1>1, <1>3, <1>4, <1>5

\* A reset drops all tests and all traces.
Emptied(t) == Places(t)' = 0 /\ Times(t, given') = 0

\* Every step keeps the tests, but a reset, which forgets them and what was given.
LEMMA StepKeeps ==
  ASSUME NodeInv, NoRace, [Next]_vars, NEW t \in AllTests PROVE Keeps(t) \/ Emptied(t)
<1>1. ASSUME NEW i \in Ids, Visit(i) PROVE Keeps(t)
  BY <1>1, VisitKeeps
<1>2. CASE \/ PollBegin \/ PollEnd \/ NextTarget \/ TransmitErrorLogs \/ Aborted \/ UNCHANGED vars
           \/ CommenceRequest \/ ResetEnd \/ \E i \in Ids : Progress(i) \/ Mishap(i) \/ StoreTraceAsserts(i)
  <2>1. Holders(t)' = Holders(t)
    BY Zenon, <1>2, HoldersStay DEF PollBegin, PollEnd, NextTarget, TransmitErrorLogs, Aborted, vars,
                StoreTraceAsserts
  <2>2. UNCHANGED <<queue, traces, delivered, given>>
    BY Zenon, <1>2 DEF PollBegin, PollEnd, NextTarget, TransmitErrorLogs, Aborted, vars, CommenceRequest,
                ResetEnd, Progress, Mishap, StoreTraceAsserts
  <2> QED BY <2>1, <2>2, SameKeeps
<1>3. CASE ResetBegin
  <2>1. queue' = <<>> /\ traces' = <<>> /\ delivered' = <<>> /\ given' = <<>> /\ Holders(t)' = {}
    BY <1>3 DEF ResetBegin, Holders
  <2>2. Cardinality(Holders(t)') = 0
    BY <2>1, FS_EmptySet
  <2> QED BY <2>1, <2>2, TimesEmpty, PlacesAre DEF Emptied
<1>4. CASE TransmitTraces
  <2>1. PICK k \in 1..Len(traces) : /\ delivered' = delivered \o SubSeq(traces, 1, k)
                                   /\ traces' = SubSeq(traces, k + 1, Len(traces))
    BY Zenon, <1>4 DEF TransmitTraces
  <2>2. traces \in Seq(Tests \cup {Initial, None}) /\ delivered \in Seq(Tests \cup {Initial, None})
    BY Zenon DEF NodeInv, TypeOK
  <2>3. Times(t, traces') + Times(t, delivered') = Times(t, traces) + Times(t, delivered)
    BY <2>1, <2>2, TimesMoved
  <2>4. Times(t, traces') \in Nat /\ Times(t, delivered') \in Nat
    BY Zenon, <1>4, OtherStep, TimesFinite DEF NodeInv, TypeOK
  <2>5. Holders(t)' = Holders(t) /\ UNCHANGED <<queue, given>>
    BY <1>4, HoldersStay DEF TransmitTraces
  <2>6. /\ Times(t, queue') = Times(t, queue) /\ Times(t, given') = Times(t, given)
        /\ Cardinality(Holders(t)') = Cardinality(Holders(t))
    BY Zenon, <2>5
  <2>7. Places(t)' = Places(t) /\ Places(t) \in Nat /\ Times(t, given) \in Nat
    <3> DEFINE q == Times(t, queue)  h == Cardinality(Holders(t))  r == Times(t, traces)
               d == Times(t, delivered)  r2 == Times(t, traces')  d2 == Times(t, delivered')
    <3>1. /\ q \in Nat /\ h \in Nat /\ r \in Nat /\ d \in Nat /\ r2 \in Nat /\ d2 \in Nat
          /\ r2 + d2 = r + d /\ Times(t, given) \in Nat
      BY Zenon, <2>3, <2>4, CountsAre
    <3>2. Places(t)' = q + h + r2 + d2
      BY Zenon, <2>6, PlacesAre
    <3>3. Places(t) = q + h + r + d
      BY Zenon DEF Places
    <3> HIDE DEF q, h, r, d, r2, d2
    <3> QED BY <3>1, <3>2, <3>3
  <2> DEFINE a == Places(t)  g == Times(t, given)
  <2>8. Places(t)' = a /\ Times(t, given') = g /\ a \in Nat /\ g \in Nat
    BY Zenon, <2>6, <2>7
  <2> HIDE DEF a, g
  <2>9. a + g <= a + g
    BY <2>8
  <2> QED BY Zenon, <2>8, <2>9 DEF Keeps, a, g
<1>5. ASSUME NEW u \in Tests, ReceiveTest(u) PROVE Keeps(t)
  <2>1. queue \in Seq(AllTests) /\ given \in Seq(AllTests) /\ u \in AllTests
    BY DEF NodeInv, TypeOK, AllTests
  <2>2. queue' = Append(queue, u) /\ given' = Append(given, u) /\ UNCHANGED <<traces, delivered>>
    BY <1>5 DEF ReceiveTest
  <2>3. Times(t, queue') = Times(t, queue) + Hit(u, t) /\ Times(t, given') = Times(t, given) + Hit(u, t)
    BY <2>1, <2>2, TimesAppend
  <2>4. Holders(t)' = Holders(t)
    BY <1>5, HoldersStay DEF ReceiveTest
  <2>5. /\ Times(t, traces') = Times(t, traces) /\ Times(t, delivered') = Times(t, delivered)
        /\ Cardinality(Holders(t)') = Cardinality(Holders(t))
    BY Zenon, <2>2, <2>4
  <2>6. Places(t)' = Places(t) + Hit(u, t) /\ Places(t) \in Nat /\ Hit(u, t) \in Nat
    <3>1. Hit(u, t) \in Nat
      BY DEF Hit
    <3> DEFINE q == Times(t, queue)  h == Cardinality(Holders(t))  r == Times(t, traces)
               d == Times(t, delivered)  k == Hit(u, t)
    <3>2. q \in Nat /\ h \in Nat /\ r \in Nat /\ d \in Nat /\ k \in Nat
      BY Zenon, <3>1, CountsAre
    <3>3. Places(t)' = (q + k) + h + r + d
      BY Zenon, <2>3, <2>5, PlacesAre
    <3>4. Places(t) = q + h + r + d
      BY Zenon DEF Places
    <3> HIDE DEF q, h, r, d, k
    <3>5. (q + k) + h + r + d = (q + h + r + d) + k /\ q + h + r + d \in Nat
      BY <3>2
    <3> QED BY Zenon, <3>1, <3>3, <3>4, <3>5 DEF k
  <2> DEFINE a == Places(t)  g == Times(t, given)  k == Hit(u, t)
  <2>7. /\ Places(t)' = a + k /\ Times(t, given') = g + k
        /\ a \in Nat /\ g \in Nat /\ k \in Nat
    BY Zenon, <2>3, <2>6, CountsAre
  <2> HIDE DEF a, g, k
  <2>8. (a + k) + g = a + (g + k) /\ (a + k) + g <= a + (g + k)
    BY <2>7
  <2> QED BY Zenon, <2>7, <2>8 DEF Keeps, a, g
<1> QED BY <1>1, <1>2, <1>3, <1>4, <1>5 DEF Next, Poll, Requests

\* What the steps keep of the tests, for as long as no task was missed.
Balanced ==
  NoRace => \A t \in AllTests : /\ Places(t) <= Times(t, given)
                                /\ Unfailed => Places(t) = Times(t, given)

LEMMA BalanceInit == Init => Balanced
<1> SUFFICES ASSUME Init, NEW t \in AllTests PROVE Places(t) = 0 /\ Times(t, given) = 0
  BY DEF Balanced
<1>1. queue = <<>> /\ traces = <<>> /\ delivered = <<>> /\ given = <<>>
  BY DEF Init
<1>2. Holders(t) = {}
  BY NewIs DEF Init, Holders, Fields
<1>3. Cardinality(Holders(t)) = 0
  BY <1>2, FS_EmptySet
<1> QED BY <1>1, <1>3, TimesEmpty DEF Places

\* Hence the balance is kept.
LEMMA BalanceStep == NodeInv /\ Balanced /\ [Next]_vars => Balanced'
<1> SUFFICES ASSUME NodeInv, Balanced, [Next]_vars, NoRace', NEW t \in AllTests
             PROVE  /\ Places(t)' <= Times(t, given')
                    /\ Unfailed' => Places(t)' = Times(t, given')
  BY DEF Balanced
<1>1. NoRace /\ (Unfailed' => Unfailed)
  BY FaultsFall, FewerFaults
<1>2. Places(t) <= Times(t, given) /\ (Unfailed => Places(t) = Times(t, given))
  BY <1>1 DEF Balanced
<1>3. Times(t, given) \in Nat /\ Places(t) \in Nat
  BY CountsAre DEF Places
<1>4. NodeInv'
  BY NodeStep
<1>5. Places(t)' \in Nat /\ Times(t, given') \in Nat
  <2>1. /\ queue' \in Seq(Tests \cup {Initial}) /\ traces' \in Seq(Tests \cup {Initial, None})
        /\ delivered' \in Seq(Tests \cup {Initial, None}) /\ given' \in Seq(Tests \cup {Initial})
    BY Zenon, <1>4 DEF NodeInv, TypeOK
  <2>2. Holders(t)' \in SUBSET Ids
    BY DEF Holders
  <2>3. /\ Times(t, queue') \in Nat /\ Times(t, traces') \in Nat /\ Times(t, delivered') \in Nat
        /\ Times(t, given') \in Nat /\ Cardinality(Holders(t)') \in Nat
    BY Zenon, <2>1, <2>2, TimesFinite, SubsetOfIds
  <2> QED BY <2>3, PlacesAre
<1> QED BY <1>1, <1>2, <1>3, <1>5, StepKeeps DEF Keeps, Emptied

LEMMA BalanceInvariant == Spec => []Balanced
BY BalanceInit, BalanceStep, NodeInvariant, PTL DEF Spec

\* poll(): as long as nothing has failed, every test that the node was given or has deduced
\* is in its queue, with an instance, or has become one trace.
THEOREM NoTestLost == Spec => []NotLost
<1>1. Balanced => NotLost
  BY DEF Balanced, NotLost, NoRace, AllTests
<1> QED BY <1>1, BalanceInvariant, PTL

\* poll(): whatever fails, a test is neither run nor reported twice, if a task cannot fail
\* between the two reads of is_prev_task_finished.
THEOREM NoTestDuplicated == ASSUME "race" \notin Faults PROVE Spec => []NotDuplicated
<1>1. Balanced => NotDuplicated
  BY DEF Balanced, NotDuplicated, NoRace, AllTests
<1> QED BY <1>1, BalanceInvariant, PTL

-----------------------------------------------------------------------------
(* The node is a WorkNode.                                                 *)

SeedIds == {i \in BusyIds : vms[i].first /\ vms[i].st \in Booting}

\* The node as Dispatch sees it.
Seen == [inq |-> Len(queue), busy |-> Cardinality(BusyIds), seeds |-> Cardinality(SeedIds),
         out |-> Len(traces), errs |-> errors, active |-> active, commenced |-> commenced,
         polling |-> cur > 0]

\* The definitions of NodeContract are the same through the instance.
LEMMA PolledMaps == Seen' \in Polled(Seen) => Contract!Next
<1> SUFFICES ASSUME NEW nd PROVE Contract!Polled(nd) = Polled(nd)
  BY Zenon DEF Contract!Next, Seen, SeedIds
<1> QED
  BY DEF Contract!Polled, Contract!PollStarted, Contract!PollEnded, Contract!Visited,
         Contract!Engaged, Contract!Dropped, Contract!Released, Contract!Seeded,
         Contract!Replaced, Contract!When, Polled, PollStarted, PollEnded, Visited, Engaged,
         Dropped, Released, Seeded, Replaced, When

\* The requests of Dispatch.
LEMMA RequestMaps ==
  ASSUME ~Seen.polling,
         \/ Seen' = Reset(Seen)
         \/ \E b \in 0..Instances : \E s \in 0..b : Seen' = Commence(Seen, b, s)
         \/ Seen'.inq - Seen.inq = 1 /\ Seen' = Receive(Seen, 1)
         \/ \E k \in 0..Seen.out : Seen' = Transmit(Seen, k)
         \/ \E k \in 0..Seen.errs : Seen' = TransmitErrors(Seen, k)
  PROVE  Contract!Next
<1> DEFINE Same(nd, k, j) ==
             /\ Contract!Reset(nd) = Reset(nd) /\ Contract!Commence(nd, k, j) = Commence(nd, k, j)
             /\ Contract!Receive(nd, k) = Receive(nd, k) /\ Contract!Transmit(nd, k) = Transmit(nd, k)
             /\ Contract!TransmitErrors(nd, k) = TransmitErrors(nd, k)
<1>1. ASSUME NEW nd, NEW k, NEW j PROVE Same(nd, k, j)
  BY Zenon DEF Contract!Reset, Contract!Commence, Contract!Receive, Contract!Transmit,
         Contract!TransmitErrors, Reset, Commence, Receive, Transmit, TransmitErrors
<1>2. 1 \in 1..1
  OBVIOUS
<1>3. CASE Seen' = Reset(Seen)
  BY Zenon, <1>1, <1>3 DEF Contract!Next, Contract!Listen, Seen, SeedIds
<1>4. CASE \E b \in 0..Instances : \E s \in 0..b : Seen' = Commence(Seen, b, s)
  <2>1. \E b \in 0..Instances : \E s \in 0..b : Seen' = Contract!Commence(Seen, b, s)
    BY Zenon, <1>1, <1>4
  <2> QED BY Zenon, <2>1 DEF Contract!Next, Contract!Listen, Seen, SeedIds
<1>5. CASE Seen'.inq - Seen.inq = 1 /\ Seen' = Receive(Seen, 1)
  <2>1. Seen' = Contract!Receive(Seen, 1)
    BY <1>1, <1>5
  <2>2. 1 \in 1..(Seen'.inq - Seen.inq)
    BY <1>2, <1>5
  <2>3. \E k \in 1..(Seen'.inq - Seen.inq) : Seen' = Contract!Receive(Seen, k)
    BY <2>1, <2>2
  <2> QED BY Zenon, <2>3 DEF Contract!Next, Contract!Listen, Seen, SeedIds
<1>6. CASE \E k \in 0..Seen.out : Seen' = Transmit(Seen, k)
  <2>1. \E k \in 0..Seen.out : Seen' = Contract!Transmit(Seen, k)
    BY Zenon, <1>1, <1>6
  <2> QED BY Zenon, <2>1 DEF Contract!Next, Contract!Listen, Seen, SeedIds
<1>7. CASE \E k \in 0..Seen.errs : Seen' = TransmitErrors(Seen, k)
  <2>1. \E k \in 0..Seen.errs : Seen' = Contract!TransmitErrors(Seen, k)
    BY Zenon, <1>1, <1>7
  <2> QED BY Zenon, <2>1 DEF Contract!Next, Contract!Listen, Seen, SeedIds
<1> QED BY <1>3, <1>4, <1>5, <1>6, <1>7

\* The fields of a node, which determine it.
Shape(m, q, b, s, o, e, a, c, p) ==
  /\ m \in NodeState /\ m.inq = q /\ m.busy = b /\ m.seeds = s /\ m.out = o /\ m.errs = e
  /\ (m.active <=> a) /\ (m.commenced <=> c) /\ (m.polling <=> p)

LEMMA SameShape ==
  ASSUME NEW m, NEW n, NEW q, NEW b, NEW s, NEW o, NEW e, NEW a, NEW c, NEW p,
         Shape(m, q, b, s, o, e, a, c, p), Shape(n, q, b, s, o, e, a, c, p)
  PROVE  m = n
<1>1. /\ m \in NodeState /\ n \in NodeState /\ m.inq = n.inq /\ m.busy = n.busy
      /\ m.seeds = n.seeds /\ m.out = n.out /\ m.errs = n.errs
      /\ (m.active <=> n.active) /\ (m.commenced <=> n.commenced) /\ (m.polling <=> n.polling)
  BY DEF Shape
<1>2. m.active = n.active /\ m.commenced = n.commenced /\ m.polling = n.polling
  BY <1>1 DEF NodeState
<1> QED BY <1>1, <1>2 DEF NodeState

SeenFields ==
  Shape(Seen, Len(queue), Cardinality(BusyIds), Cardinality(SeedIds), Len(traces), errors, active,
        commenced, cur > 0)

LEMMA SeenTyped == NodeInv => SeenFields
<1> SUFFICES ASSUME NodeInv PROVE SeenFields
  OBVIOUS
<1>1. /\ Len(queue) \in Nat /\ Len(traces) \in Nat /\ errors \in Nat
      /\ active \in BOOLEAN /\ commenced \in BOOLEAN /\ (cur > 0) \in BOOLEAN
  BY DEF NodeInv, TypeOK
<1>2. BusyIds \in SUBSET Ids /\ SeedIds \in SUBSET Ids
  BY DEF BusyIds, SeedIds
<1>3. Cardinality(BusyIds) \in Nat /\ Cardinality(SeedIds) \in Nat
  BY Zenon, <1>2, SubsetOfIds
<1> QED BY Zenon, <1>1, <1>3 DEF SeenFields, Shape, Seen, NodeState

-----------------------------------------------------------------------------
(* What a visit to an instance may make of a node, by NodeContract.        *)

Changed(m, nd, q, b, s, o, e) == Shape(m, q, b, s, o, e, nd.active, nd.commenced, nd.polling)

\* The steps of a poll that WorkNode has, written out for a node of the given shape.
LEMMA EngagedIs ==
  ASSUME NEW nd \in NodeState, nd.inq > 0, nd.busy < Instances
  PROVE  \E m \in Engaged(nd) : Changed(m, nd, nd.inq - 1, nd.busy + 1, nd.seeds, nd.out, nd.errs)
<1> DEFINE q == nd.inq - 1  b == nd.busy + 1  m == [nd EXCEPT !.inq = q, !.busy = b]
<1>1. q \in Nat /\ b \in Nat
  BY DEF NodeState
<1>2. m \in Engaged(nd)
  BY DEF Engaged, When
<1> HIDE DEF q, b
<1>3. Changed(m, nd, q, b, nd.seeds, nd.out, nd.errs)
  BY Zenon, <1>1 DEF Changed, Shape, NodeState
<1> HIDE DEF m
<1> QED BY <1>2, <1>3 DEF q, b

LEMMA DroppedIs ==
  ASSUME NEW nd \in NodeState, nd.inq > 0
  PROVE  \E m \in Dropped(nd) : Changed(m, nd, nd.inq - 1, nd.busy, nd.seeds, nd.out, nd.errs)
<1> DEFINE q == nd.inq - 1  m == [nd EXCEPT !.inq = q]
<1>1. q \in Nat
  BY DEF NodeState
<1>2. m \in Dropped(nd)
  BY DEF Dropped, When
<1> HIDE DEF q
<1>3. Changed(m, nd, q, nd.busy, nd.seeds, nd.out, nd.errs)
  BY <1>1 DEF Changed, Shape, NodeState
<1> HIDE DEF m
<1> QED BY <1>2, <1>3 DEF q

LEMMA ReleasedIs ==
  ASSUME NEW nd \in NodeState, nd.busy > nd.seeds, NEW k \in 0..MaxYield
  PROVE  \E m \in Released(nd) : Changed(m, nd, nd.inq, nd.busy - 1, nd.seeds, nd.out + k, nd.errs)
<1> DEFINE b == nd.busy - 1  o == nd.out + k  l == nd.errs + 0
           m == [nd EXCEPT !.busy = b, !.out = o, !.errs = l]
<1>1. b \in Nat /\ o \in Nat /\ l \in Nat /\ l = nd.errs
  BY MaxYieldAssumption DEF NodeState
<1>2. m \in Released(nd)
  <2> DEFINE Done(i, j) == [nd EXCEPT !.busy = nd.busy - 1, !.out = nd.out + i, !.errs = nd.errs + j]
             R == {Done(i, j) : i \in 0..MaxYield, j \in {0, 1}}
  <2>1. Released(nd) = R
    BY DEF Released, When
  <2> HIDE DEF Done
  <2>2. Done(k, 0) \in R
    OBVIOUS
  <2>3. Done(k, 0) = m
    BY DEF Done
  <2> HIDE DEF m, R
  <2> QED BY <2>1, <2>2, <2>3
<1> HIDE DEF b, o, l
<1>3. Changed(m, nd, nd.inq, b, nd.seeds, o, l)
  BY Zenon, <1>1 DEF Changed, Shape, NodeState
<1> HIDE DEF m
<1> QED BY <1>1, <1>2, <1>3 DEF b, o

LEMMA SeededIs ==
  ASSUME NEW nd \in NodeState, nd.busy > 0, nd.seeds > 0, NEW k \in {0, 1}
  PROVE  \E m \in Seeded(nd) : Changed(m, nd, nd.inq + k, nd.busy - 1, nd.seeds - 1, nd.out, nd.errs)
<1> DEFINE b == nd.busy - 1  s == nd.seeds - 1  q == nd.inq + k
           m == [nd EXCEPT !.busy = b, !.seeds = s, !.inq = q]
<1>1. b \in Nat /\ s \in Nat /\ q \in Nat
  BY DEF NodeState
<1>2. m \in Seeded(nd)
  <2> DEFINE Done(j) == [nd EXCEPT !.busy = nd.busy - 1, !.seeds = nd.seeds - 1, !.inq = nd.inq + j]
             R == {Done(j) : j \in {0, 1}}
  <2>1. Seeded(nd) = R
    BY DEF Seeded, When
  <2> HIDE DEF Done
  <2>2. Done(k) \in R
    OBVIOUS
  <2>3. Done(k) = m
    BY DEF Done
  <2> HIDE DEF m, R
  <2> QED BY <2>1, <2>2, <2>3
<1> HIDE DEF b, s, q
<1>3. Changed(m, nd, q, b, s, nd.out, nd.errs)
  BY Zenon, <1>1 DEF Changed, Shape, NodeState
<1> HIDE DEF m
<1> QED BY <1>2, <1>3 DEF b, s, q

LEMMA ReplacedIs ==
  ASSUME NEW nd \in NodeState, NEW s \in {nd.seeds - 1, nd.seeds}, 0 <= s, s < nd.busy
  PROVE  \E m \in Replaced(nd) : Changed(m, nd, nd.inq, nd.busy, s, nd.out, nd.errs + 1)
<1> DEFINE e == nd.errs + 1  m == [nd EXCEPT !.errs = e, !.seeds = s]
<1>1. s \in Nat /\ e \in Nat
  BY DEF NodeState
<1>2. m \in Replaced(nd)
  BY Zenon DEF Replaced
<1> HIDE DEF e
<1>3. Changed(m, nd, nd.inq, nd.busy, s, nd.out, e)
  BY Zenon, <1>1 DEF Changed, Shape, NodeState
<1> HIDE DEF m
<1> QED BY <1>2, <1>3 DEF e

-----------------------------------------------------------------------------
(* Counting the instances that are busy.                                   *)

Bounds == Cardinality(BusyIds) \in 0..Instances /\ Cardinality(SeedIds) \in 0..Cardinality(BusyIds)

LEMMA BoundsHold == Bounds
<1>1. IsFiniteSet(Ids) /\ Cardinality(Ids) = Instances
  BY FS_Interval, InstancesAssumption DEF Ids
<1>2. BusyIds \in SUBSET Ids /\ SeedIds \in SUBSET BusyIds
  BY DEF BusyIds, SeedIds
<1>3. IsFiniteSet(BusyIds) /\ Cardinality(BusyIds) <= Instances
  BY <1>1, <1>2, FS_Subset
<1>4. IsFiniteSet(SeedIds) /\ Cardinality(SeedIds) <= Cardinality(BusyIds)
  BY <1>2, <1>3, FS_Subset
<1>5. Cardinality(BusyIds) \in Nat /\ Cardinality(SeedIds) \in Nat
  BY <1>3, <1>4, FS_CardinalityType
<1> QED BY <1>3, <1>4, <1>5, InstancesAssumption DEF Bounds

\* What the instance in hand adds to the counts, and what is left without it.
LEMMA CountsWith ==
  ASSUME NEW i \in Ids
  PROVE  /\ i \notin BusyIds => Cardinality(BusyIds) < Instances
         /\ i \in BusyIds => Cardinality(BusyIds) > 0
         /\ i \in BusyIds /\ i \notin SeedIds => Cardinality(SeedIds) < Cardinality(BusyIds)
         /\ i \in SeedIds => Cardinality(SeedIds) > 0
<1> DEFINE B == BusyIds \ {i}
<1>1. IsFiniteSet(Ids) /\ Cardinality(Ids) = Instances
  BY FS_Interval, InstancesAssumption DEF Ids
<1>2. BusyIds \in SUBSET Ids /\ SeedIds \in SUBSET Ids /\ SeedIds \subseteq BusyIds
  BY DEF BusyIds, SeedIds
<1>3. /\ Cardinality(BusyIds) \in Nat /\ Cardinality(B) \in Nat /\ IsFiniteSet(B)
      /\ Cardinality(BusyIds) = Cardinality(B) + One(i \in BusyIds)
  <2>1. B \in SUBSET Ids
    BY <1>2
  <2> QED BY Zenon, <1>2, <2>1, SubsetOfIds
<1>4. /\ Cardinality(SeedIds) \in Nat /\ Cardinality(SeedIds \ {i}) \in Nat
      /\ Cardinality(SeedIds) = Cardinality(SeedIds \ {i}) + One(i \in SeedIds)
  BY <1>2, SubsetOfIds
<1>5. ASSUME i \notin BusyIds PROVE Cardinality(BusyIds) < Instances
  <2>1. BusyIds \in SUBSET (Ids \ {i})
    BY <1>2, <1>5
  <2>2. IsFiniteSet(Ids \ {i}) /\ Cardinality(Ids \ {i}) = Instances - 1
    BY <1>1, FS_RemoveElement
  <2>3. Cardinality(BusyIds) <= Cardinality(Ids \ {i})
    BY <2>1, <2>2, FS_Subset
  <2> QED BY <1>3, <2>2, <2>3, InstancesAssumption
<1>6. ASSUME i \in BusyIds, i \notin SeedIds PROVE Cardinality(SeedIds) < Cardinality(BusyIds)
  <2>1. SeedIds \in SUBSET B
    BY <1>2, <1>6
  <2> HIDE DEF B
  <2>2. Cardinality(SeedIds) <= Cardinality(B)
    BY <1>3, <2>1, FS_Subset
  <2> QED BY <1>3, <1>4, <1>6, <2>2 DEF One
<1> QED BY <1>3, <1>4, <1>5, <1>6 DEF One

\* A visit that leaves instance i as new.
LEMMA VisitCounts ==
  ASSUME NodeInv, NEW i \in Ids, cur = i, NEW new, vms' = [vms EXCEPT ![i] = new], UNCHANGED commenced
  PROVE  /\ Cardinality(BusyIds') + One(Busy(vms[i])) = Cardinality(BusyIds) + One(Busy(new))
         /\ Cardinality(SeedIds') + One(Seed(vms[i])) = Cardinality(SeedIds) + One(Seed(new))
         /\ ~Busy(vms[i]) => Cardinality(BusyIds) < Instances
         /\ Busy(vms[i]) => Cardinality(BusyIds) > 0
         /\ Busy(vms[i]) /\ ~Seed(vms[i]) => Cardinality(SeedIds) < Cardinality(BusyIds)
         /\ Seed(vms[i]) => Cardinality(SeedIds) > 0
<1> DEFINE B == BusyIds  C == BusyIds'  S == SeedIds  R == SeedIds'
<1>1. vms \in [Ids -> VM] /\ commenced
  BY VisitedIs
<1>2. /\ (i \in B <=> Busy(vms[i])) /\ (i \in C <=> Busy(new))
      /\ (i \in S <=> Seed(vms[i])) /\ (i \in R <=> Seed(new))
  BY <1>1 DEF BusyIds, SeedIds, Seed
<1>3. B \in SUBSET Ids /\ C \in SUBSET Ids /\ S \in SUBSET Ids /\ R \in SUBSET Ids
  BY DEF BusyIds, SeedIds
<1>4. B \ {i} = C \ {i}
  BY <1>1 DEF BusyIds
<1>5. S \ {i} = R \ {i}
  BY <1>1 DEF BusyIds, SeedIds
<1>6. /\ i \notin B => Cardinality(B) < Instances
      /\ i \in B => Cardinality(B) > 0
      /\ i \in B /\ i \notin S => Cardinality(S) < Cardinality(B)
      /\ i \in S => Cardinality(S) > 0
  BY CountsWith
<1> HIDE DEF B, C, S, R
<1>7. Cardinality(C) + One(i \in B) = Cardinality(B) + One(i \in C)
  <2>1. /\ Cardinality(B \ {i}) \in Nat
        /\ Cardinality(B) = Cardinality(B \ {i}) + One(i \in B)
        /\ Cardinality(C) = Cardinality(B \ {i}) + One(i \in C)
    BY <1>3, <1>4, SubsetOfIds
  <2> QED BY <2>1 DEF One
<1>8. Cardinality(R) + One(i \in S) = Cardinality(S) + One(i \in R)
  <2>1. /\ Cardinality(S \ {i}) \in Nat
        /\ Cardinality(S) = Cardinality(S \ {i}) + One(i \in S)
        /\ Cardinality(R) = Cardinality(S \ {i}) + One(i \in R)
    BY <1>3, <1>5, SubsetOfIds
  <2> QED BY <2>1 DEF One
<1>9. /\ Cardinality(C) + One(Busy(vms[i])) = Cardinality(B) + One(Busy(new))
      /\ Cardinality(R) + One(Seed(vms[i])) = Cardinality(S) + One(Seed(new))
  BY <1>2, <1>7, <1>8 DEF One
<1> QED BY <1>2, <1>6, <1>9 DEF B, C, S, R

-----------------------------------------------------------------------------
(* Each step of the node is a step of WorkNode, or not seen.               *)

\* The node after a step, if its fields are those of nd.
LEMMA SeenIs ==
  ASSUME NodeInv, NodeInv', NEW m, UNCHANGED <<active, commenced>>, cur' > 0 <=> cur > 0,
         Changed(m, Seen, Len(queue'), Cardinality(BusyIds'), Cardinality(SeedIds'), Len(traces'), errors')
  PROVE  Seen' = m
<1>1. SeenFields /\ SeenFields'
  BY SeenTyped, PTL
<1>2. (Seen.active <=> active') /\ (Seen.commenced <=> commenced') /\ (Seen.polling <=> cur' > 0)
  BY Zenon, <1>1 DEF SeenFields, Shape
<1>3. Shape(m, Len(queue'), Cardinality(BusyIds'), Cardinality(SeedIds'), Len(traces'), errors',
            active', commenced', cur' > 0)
  BY <1>2 DEF Changed, Shape
<1>4. Shape(Seen', Len(queue'), Cardinality(BusyIds'), Cardinality(SeedIds'), Len(traces'), errors',
            active', commenced', cur' > 0)
  BY <1>1 DEF SeenFields
<1> QED BY Zenon, <1>3, <1>4, SameShape

LEMMA SeenSame ==
  ASSUME UNCHANGED <<queue, traces, errors, active, commenced>>, BusyIds' = BusyIds,
         SeedIds' = SeedIds, cur' > 0 <=> cur > 0
  PROVE  Seen' = Seen
<1>1. (cur' > 0) = (cur > 0)
  OBVIOUS
<1> QED BY Zenon, <1>1 DEF Seen

LEMMA VMFields == ASSUME NEW vm \in VM PROVE vm.trace \in Tests \cup {Initial, None}
BY DEF VM

\* Each effect of a visit is one of them, or leaves all the numbers as they are.
LEMMA EffectMaps ==
  ASSUME NodeInv, NodeInv', NEW i \in Ids, cur = i, NEW new, Ends(i, new), Effect(vms[i], new)
  PROVE  Seen' \in Polled(Seen) \/ Seen' = Seen
<1> DEFINE vm == vms[i]  nd == Seen
           q == Len(queue)  b == Cardinality(BusyIds)  s == Cardinality(SeedIds)  o == Len(traces)
           q2 == Len(queue')  b2 == Cardinality(BusyIds')  s2 == Cardinality(SeedIds')
           o2 == Len(traces')
           After(x, y, z, u, e) == q2 = x /\ b2 = y /\ s2 = z /\ o2 = u /\ errors' = e
<1>1. /\ vms' = [vms EXCEPT ![i] = new] /\ UNCHANGED <<active, commenced>>
      /\ cur' = cur \/ cur' = i + 1
  BY Zenon DEF Ends, Leave, Throw
<1>2. cur > 0 /\ cur' > 0
  BY <1>1, VisitedIs
<1>3. /\ nd \in NodeState /\ nd.inq = q /\ nd.busy = b /\ nd.seeds = s /\ nd.out = o
      /\ nd.errs = errors /\ nd.polling
  <2>1. SeenFields
    BY SeenTyped
  <2> QED BY <1>2, <2>1 DEF SeenFields, Shape
<1>4. /\ b2 + One(Busy(vm)) = b + One(Busy(new)) /\ s2 + One(Seed(vm)) = s + One(Seed(new))
      /\ ~Busy(vm) => b < Instances
      /\ Busy(vm) => b > 0
      /\ Busy(vm) /\ ~Seed(vm) => s < b
      /\ Seed(vm) => s > 0
  BY Zenon, <1>1, VisitCounts
<1>5. /\ q \in Nat /\ o \in Nat /\ errors \in Nat /\ b \in Nat /\ s \in Nat /\ s <= b
      /\ b2 \in Nat /\ s2 \in Nat
  <2>1. Bounds /\ Bounds'
    BY BoundsHold, PTL
  <2>2. q \in Nat /\ o \in Nat /\ errors \in Nat
    <3>1. /\ queue \in Seq(Tests \cup {Initial}) /\ traces \in Seq(Tests \cup {Initial, None})
          /\ errors \in Nat
      BY Zenon DEF NodeInv, TypeOK
    <3> QED BY <3>1
  <2>3. b \in Nat /\ s \in Nat /\ s <= b
    BY <2>1, InstancesAssumption DEF Bounds
  <2>4. b2 \in Nat /\ s2 \in Nat
    BY <2>1, InstancesAssumption DEF Bounds
  <2> QED BY <2>2, <2>3, <2>4
<1>6. ASSUME NEW m, Changed(m, nd, q2, b2, s2, o2, errors') PROVE Seen' = m
  BY <1>1, <1>2, <1>6, SeenIs
<1>7. /\ UNCHANGED queue => q2 = q
      /\ UNCHANGED traces => o2 = o
      /\ queue # <<>> /\ queue' = Tail(queue) => q > 0 /\ q2 = q - 1
      /\ queue # <<>> /\ queue' = Append(Tail(queue), Head(queue)) => q2 = q
      /\ queue' = Append(queue, Initial) => q2 = q + 1
      /\ traces' = Append(traces, vm.trace) => o2 = o + 1
  <2>1. /\ queue \in Seq(Tests \cup {Initial}) /\ traces \in Seq(Tests \cup {Initial, None})
        /\ vm.trace \in Tests \cup {Initial, None}
    BY Zenon, VisitedIs, VMFields DEF NodeInv, TypeOK
  <2> HIDE DEF vm
  <2>2. ASSUME queue # <<>> PROVE q > 0 /\ Len(Tail(queue)) = q - 1
    BY <2>1, <2>2
  <2>3. ASSUME queue # <<>> PROVE Len(Append(Tail(queue), Head(queue))) = q
    BY <2>1, <2>3
  <2>4. Len(Append(queue, Initial)) = q + 1
    BY <2>1
  <2>5. Len(Append(traces, vm.trace)) = o + 1
    BY <2>1
  <2> QED BY Zenon, <2>2, <2>3, <2>4, <2>5
<1>8. ASSUME NEW m \in Visited(nd) PROVE m \in Polled(nd)
  BY <1>3, <1>8 DEF Polled, When
<1>9. Seed(vm) => Busy(vm)
  BY DEF Seed
<1>10. Seed(new) => Busy(new)
  BY DEF Seed
<1> HIDE DEF vm, nd, q, b, s, o, q2, b2, s2, o2
<1>11. CASE Quiet(vm, new) \/ Rotates(vm, new)
  <2>1. b2 = b /\ s2 = s
    BY <1>4, <1>5, <1>9, <1>10, <1>11 DEF Quiet, Rotates, One
  <2>2. q2 = q /\ o2 = o /\ errors' = errors
    BY <1>7, <1>11 DEF Quiet, Rotates
  <2>3. Changed(nd, nd, q2, b2, s2, o2, errors')
    BY <1>3, <2>1, <2>2 DEF Changed, Shape
  <2> QED BY <1>6, <2>3 DEF nd
<1>12. CASE Drops(vm, new)
  <2>1. After(q - 1, b, s, o, errors) /\ q > 0
    BY <1>4, <1>5, <1>7, <1>9, <1>10, <1>12 DEF Drops, One
  <2>2. PICK m \in Dropped(nd) : Changed(m, nd, q2, b2, s2, o2, errors')
    BY <1>3, <2>1, DroppedIs
  <2> QED BY <1>6, <1>8, <2>2 DEF Visited, nd
<1>13. CASE Takes(vm, new)
  <2>1. After(q - 1, b + 1, s, o, errors) /\ q > 0 /\ b < Instances
    BY <1>4, <1>5, <1>7, <1>9, <1>10, <1>13 DEF Takes, One
  <2>2. PICK m \in Engaged(nd) : Changed(m, nd, q2, b2, s2, o2, errors')
    BY <1>3, <2>1, EngagedIs
  <2> QED BY <1>6, <1>8, <2>2 DEF Visited, nd
<1>14. CASE Delivers(vm, new)
  <2>1. After(q, b - 1, s, o + 1, errors) /\ b > s
    BY <1>4, <1>5, <1>7, <1>9, <1>10, <1>14 DEF Delivers, One
  <2>2. 1 \in 0..MaxYield
    BY MaxYieldAssumption
  <2>3. PICK m \in Released(nd) : Changed(m, nd, q2, b2, s2, o2, errors')
    BY <1>3, <2>1, <2>2, ReleasedIs
  <2> QED BY <1>6, <1>8, <2>3 DEF Visited, nd
<1>15. CASE Deduces(vm, new)
  <2>1. After(q + 1, b - 1, s - 1, o, errors) /\ b > 0 /\ s > 0
    <3>1. Seed(vm) /\ Busy(vm) /\ ~Busy(new) /\ ~Seed(new) /\ b > 0 /\ s > 0
      BY Zenon, <1>4, <1>9, <1>10, <1>15 DEF Deduces
    <3>2. q2 = q + 1 /\ o2 = o /\ errors' = errors
      BY Zenon, <1>7, <1>15 DEF Deduces
    <3>3. b2 + 1 = b + 0 /\ s2 + 1 = s + 0
      BY Zenon, <1>4, <3>1 DEF One
    <3>4. b2 = b - 1 /\ s2 = s - 1
      BY <1>5, <3>3
    <3> QED BY Zenon, <3>1, <3>2, <3>4
  <2>2. PICK m \in Seeded(nd) : Changed(m, nd, q2, b2, s2, o2, errors')
    BY <1>3, <2>1, SeededIs
  <2> QED BY <1>6, <1>8, <2>2 DEF Visited, nd
<1>16. CASE Idles(vm, new) /\ Seed(vm)
  <2>1. After(q + 0, b - 1, s - 1, o, errors) /\ b > 0 /\ s > 0
    BY <1>4, <1>5, <1>7, <1>9, <1>10, <1>16 DEF Idles, One
  <2>2. PICK m \in Seeded(nd) : Changed(m, nd, q2, b2, s2, o2, errors')
    BY <1>3, <2>1, SeededIs
  <2> QED BY <1>6, <1>8, <2>2 DEF Visited, nd
<1>17. CASE Idles(vm, new) /\ ~Seed(vm)
  <2>1. After(q, b - 1, s, o + 0, errors) /\ b > s
    <3>1. Busy(vm) /\ ~Busy(new) /\ ~Seed(vm) /\ ~Seed(new) /\ b > s
      BY Zenon, <1>4, <1>10, <1>17 DEF Idles
    <3>2. q2 = q /\ o2 = o /\ errors' = errors
      BY Zenon, <1>7, <1>17 DEF Idles
    <3>3. b2 + 1 = b + 0 /\ s2 + 0 = s + 0
      BY Zenon, <1>4, <3>1 DEF One
    <3> QED BY <1>5, <3>1, <3>2, <3>3
  <2>2. 0 \in 0..MaxYield
    BY MaxYieldAssumption
  <2>3. PICK m \in Released(nd) : Changed(m, nd, q2, b2, s2, o2, errors')
    BY <1>3, <2>1, <2>2, ReleasedIs
  <2> QED BY <1>6, <1>8, <2>3 DEF Visited, nd
<1>18. CASE Replaces(vm, new)
  <2>1. After(q, b, s2, o, errors + 1) /\ s2 \in {s - 1, s} /\ s2 < b /\ 0 <= s2
    <3>1. Busy(vm) /\ Busy(new) /\ ~Seed(new) /\ b > 0 /\ (~Seed(vm) => s < b)
      BY Zenon, <1>4, <1>18 DEF Replaces
    <3>2. q2 = q /\ o2 = o /\ errors' = errors + 1
      BY Zenon, <1>7, <1>18 DEF Replaces
    <3>3. b2 + 1 = b + 1 /\ s2 + One(Seed(vm)) = s + 0
      BY Zenon, <1>4, <3>1 DEF One
    <3>4. CASE Seed(vm)
      <4>1. s2 + 1 = s + 0
        BY Zenon, <3>3, <3>4 DEF One
      <4> QED BY <1>5, <3>2, <3>3, <4>1
    <3>5. CASE ~Seed(vm)
      <4>1. s2 + 0 = s + 0 /\ s < b
        BY Zenon, <3>1, <3>3, <3>5 DEF One
      <4> QED BY <1>5, <3>2, <3>3, <4>1
    <3> QED BY Zenon, <3>4, <3>5
  <2>2. PICK m \in Replaced(nd) : Changed(m, nd, q2, b2, s2, o2, errors')
    BY <1>3, <2>1, ReplacedIs
  <2> QED BY <1>6, <1>8, <2>2 DEF Visited, nd
<1> QED
  BY <1>11, <1>12, <1>13, <1>14, <1>15, <1>16, <1>17, <1>18 DEF Effect, vm

LEMMA VisitMaps ==
  ASSUME NodeInv, NodeInv', NEW i \in Ids, Visit(i)
  PROVE  Seen' \in Polled(Seen) \/ Seen' = Seen
<1>1. cur = i
  BY VisitIs
<1>2. CASE Stops(i)
  <2>1. UNCHANGED <<queue, traces, errors, active, commenced, vms, cur>>
    BY Zenon, <1>2 DEF Stops, Abort
  <2>2. BusyIds' = BusyIds /\ SeedIds' = SeedIds
    BY <2>1 DEF BusyIds, SeedIds
  <2> QED BY <2>1, <2>2, SeenSame
<1>3. CASE \E new : Ends(i, new) /\ Effect(vms[i], new)
  BY <1>1, <1>3, EffectMaps
<1> QED BY <1>2, <1>3, VisitIs

\* poll() begins and ends; at the end anyActive tells whether an instance is busy.
LEMMA BeginMaps == ASSUME NodeInv, NodeInv', PollBegin PROVE Seen' \in Polled(Seen)
<1>1. /\ cur = 0 /\ commenced /\ cur' = 1
      /\ UNCHANGED <<queue, traces, errors, active, commenced, vms>>
  BY DEF PollBegin, Free
<1>2. SeenFields /\ SeenFields'
  BY SeenTyped, PTL
<1>3. BusyIds' = BusyIds /\ SeedIds' = SeedIds
  BY <1>1 DEF BusyIds, SeedIds
<1>4. ~(cur > 0) /\ cur' > 0
  BY <1>1
<1> DEFINE nd == [Seen EXCEPT !.polling = TRUE]
<1>5. nd \in Polled(Seen)
  <2>1. ~Seen.polling /\ Seen.commenced
    BY Zenon, <1>1, <1>2, <1>4 DEF SeenFields, Shape
  <2> QED BY <2>1 DEF Polled, PollStarted, When
<1>6. Seen \in NodeState
  BY <1>2 DEF SeenFields, Shape
<1>7. Shape(nd, Seen.inq, Seen.busy, Seen.seeds, Seen.out, Seen.errs, Seen.active, Seen.commenced, TRUE)
  BY Zenon, <1>6 DEF Shape, NodeState
<1> HIDE DEF nd
<1>8. Shape(Seen', Seen.inq, Seen.busy, Seen.seeds, Seen.out, Seen.errs, Seen.active, Seen.commenced, TRUE)
  BY Zenon, <1>1, <1>2, <1>3, <1>4 DEF SeenFields, Shape
<1>9. Seen' = nd
  BY Zenon, <1>7, <1>8, SameShape
<1> QED BY <1>5, <1>9

\* At the end of a poll the active flag is what the instances make it.
LEMMA EndMaps == ASSUME NodeInv, NodeInv', PollEnd PROVE Seen' \in Polled(Seen)
<1>1. /\ cur = Instances + 1 /\ cur' = 0 /\ active' = anyActive
      /\ UNCHANGED <<queue, traces, errors, commenced, vms>>
  BY DEF PollEnd
<1>2. SeenFields /\ SeenFields'
  BY SeenTyped, PTL
<1>3. BusyIds' = BusyIds /\ SeedIds' = SeedIds
  BY <1>1 DEF BusyIds, SeedIds
<1>4. cur > 0 /\ ~(cur' > 0) /\ \A j \in Ids : j < cur
  BY <1>1, InstancesAssumption DEF Ids
<1>5. anyActive <=> BusyIds # {}
  BY Zenon, <1>4 DEF NodeInv, Polling, BusyIds
<1>6. Cardinality(BusyIds) > 0 <=> BusyIds # {}
  <2>1. BusyIds \in SUBSET Ids
    BY DEF BusyIds
  <2>2. IsFiniteSet(BusyIds) /\ Cardinality(BusyIds) \in Nat
    BY Zenon, <2>1, SubsetOfIds
  <2>3. Cardinality(BusyIds) = 0 <=> BusyIds = {}
    BY <2>2, FS_EmptySet
  <2> QED BY <2>2, <2>3
<1> DEFINE a == Seen.busy > 0  nd == [Seen EXCEPT !.polling = FALSE, !.active = a]
<1>7. nd \in Polled(Seen)
  <2>1. Seen.polling
    BY <1>2, <1>4 DEF SeenFields, Shape
  <2> QED BY <2>1 DEF Polled, PollEnded, When
<1>8. Seen \in NodeState /\ a \in BOOLEAN /\ (a <=> active')
  BY <1>1, <1>2, <1>5, <1>6 DEF SeenFields, Shape
<1> HIDE DEF a
<1>9. Shape(nd, Seen.inq, Seen.busy, Seen.seeds, Seen.out, Seen.errs, a, Seen.commenced, FALSE)
  BY Zenon, <1>8 DEF Shape, NodeState
<1> HIDE DEF nd
<1>10. Shape(Seen', Seen.inq, Seen.busy, Seen.seeds, Seen.out, Seen.errs, a, Seen.commenced, FALSE)
  BY Zenon, <1>1, <1>2, <1>3, <1>4, <1>8 DEF SeenFields, Shape
<1>11. Seen' = nd
  BY Zenon, <1>9, <1>10, SameShape
<1> QED BY <1>7, <1>11

-----------------------------------------------------------------------------
(* The requests of Dispatch.                                               *)

\* commence(): the instances that have started are engaged, the first ones as seeds.
LEMMA CommenceMaps == ASSUME NodeInv, NodeInv', CommenceRequest PROVE Contract!Next
<1>1. cur = 0 /\ commenced' /\ UNCHANGED <<queue, traces, errors, active, cur>>
  BY DEF CommenceRequest, Free
<1>2. SeenFields /\ SeenFields' /\ Bounds'
  BY SeenTyped, BoundsHold, PTL
<1> DEFINE b == Cardinality(BusyIds')  s == Cardinality(SeedIds')  nd == Commence(Seen, b, s)
<1>3. b \in 0..Instances /\ s \in 0..b /\ b \in Nat /\ s \in Nat
  BY <1>2, InstancesAssumption DEF Bounds
<1>4. ~(cur > 0) /\ ~(cur' > 0) /\ ~Seen.polling /\ Seen \in NodeState
  BY <1>1, <1>2 DEF SeenFields, Shape
<1>5. Shape(Seen', Seen.inq, b, s, Seen.out, Seen.errs, Seen.active, TRUE, FALSE)
  BY Zenon, <1>1, <1>2, <1>4 DEF SeenFields, Shape
<1> HIDE DEF b, s
<1>6. Shape(nd, Seen.inq, b, s, Seen.out, Seen.errs, Seen.active, TRUE, FALSE)
  BY Zenon, <1>3, <1>4 DEF Shape, NodeState, Commence
<1> HIDE DEF nd
<1>7. Seen' = nd
  BY Zenon, <1>5, <1>6, SameShape
<1> QED BY <1>3, <1>4, <1>7, RequestMaps DEF nd

LEMMA ResetMaps == ASSUME NodeInv, NodeInv', ResetBegin PROVE Contract!Next
<1>1. /\ cur = 0 /\ ~commenced' /\ queue' = <<>> /\ traces' = <<>> /\ active' = TRUE
      /\ UNCHANGED <<errors, cur>>
  BY DEF ResetBegin, Free
<1>2. SeenFields /\ SeenFields'
  BY SeenTyped, PTL
<1>3. Cardinality(BusyIds') = 0 /\ Cardinality(SeedIds') = 0
  <2>1. BusyIds' = {} /\ SeedIds' = {}
    BY <1>1 DEF BusyIds, SeedIds
  <2> QED BY <2>1, FS_EmptySet
<1>4. ~(cur > 0) /\ ~(cur' > 0) /\ ~Seen.polling /\ Seen \in NodeState
  <2>1. ~(cur > 0) /\ ~(cur' > 0)
    BY <1>1
  <2> QED BY Zenon, <1>2, <2>1 DEF SeenFields, Shape
<1>5. Shape(Seen', 0, 0, 0, 0, Seen.errs, TRUE, FALSE, FALSE)
  BY Zenon, <1>1, <1>2, <1>3, <1>4 DEF SeenFields, Shape
<1> DEFINE nd == Reset(Seen)
<1>6. Shape(nd, 0, 0, 0, 0, Seen.errs, TRUE, FALSE, FALSE)
  BY Zenon, <1>4 DEF Shape, NodeState, Reset
<1> HIDE DEF nd
<1>7. Seen' = nd
  BY Zenon, <1>5, <1>6, SameShape
<1> QED BY <1>4, <1>7, RequestMaps DEF nd

\* The requests that only change a queue.
LEMMA QueuesMap ==
  ASSUME NodeInv, NodeInv', TransmitTraces \/ TransmitErrorLogs \/ \E t \in Tests : ReceiveTest(t)
  PROVE  Contract!Next
<1>1. cur = 0 /\ UNCHANGED <<active, commenced, vms, cur>>
  BY DEF TransmitTraces, TransmitErrorLogs, ReceiveTest, Free
<1>2. SeenFields
  BY SeenTyped
<1>3. BusyIds' = BusyIds /\ SeedIds' = SeedIds
  BY <1>1 DEF BusyIds, SeedIds
<1>4. /\ Seen \in NodeState /\ ~Seen.polling /\ Seen.inq = Len(queue) /\ Seen.out = Len(traces)
      /\ Seen.errs = errors /\ Seen.busy = Cardinality(BusyIds') /\ Seen.seeds = Cardinality(SeedIds')
  BY <1>1, <1>2, <1>3 DEF SeenFields, Shape
<1>5. /\ queue \in Seq(Tests \cup {Initial}) /\ traces \in Seq(Tests \cup {Initial, None})
      /\ errors \in Nat
  BY Zenon DEF NodeInv, TypeOK
<1>6. ASSUME NEW m, Changed(m, Seen, Len(queue'), Seen.busy, Seen.seeds, Len(traces'), errors')
      PROVE  Seen' = m
  BY Zenon, <1>1, <1>4, <1>6, SeenIs
<1>7. ASSUME NEW t \in Tests, ReceiveTest(t) PROVE Contract!Next
  <2> DEFINE n == Seen.inq + 1  nd == [Seen EXCEPT !.inq = n]
  <2>1. queue' = Append(queue, t) /\ UNCHANGED <<traces, errors>>
    BY <1>7 DEF ReceiveTest
  <2>2. n \in Nat /\ n = Len(queue') /\ n - Seen.inq = 1
    <3>1. Seen.inq = Len(queue)
      BY Zenon, <1>4
    <3>2. Len(queue) + 1 \in Nat /\ Len(queue) + 1 = Len(Append(queue, t)) /\ (Len(queue) + 1) - Len(queue) = 1
      BY <1>5
    <3> QED BY Zenon, <2>1, <3>1, <3>2
  <2>3. nd = Receive(Seen, 1)
    BY DEF Receive
  <2> HIDE DEF n
  <2>4. Changed(nd, Seen, n, Seen.busy, Seen.seeds, Seen.out, Seen.errs) /\ nd.inq = n
    BY <1>4, <2>2 DEF Changed, Shape, NodeState
  <2> HIDE DEF nd
  <2>5. Seen' = nd
    BY Zenon, <1>4, <1>6, <2>1, <2>2, <2>4
  <2> QED BY Zenon, <1>4, <2>2, <2>3, <2>4, <2>5, RequestMaps
<1>8. CASE TransmitTraces
  <2>1. PICK k \in 1..Len(traces) : traces' = SubSeq(traces, k + 1, Len(traces))
    BY <1>8 DEF TransmitTraces
  <2> DEFINE n == Seen.out - k  nd == [Seen EXCEPT !.out = n]
  <2>2. UNCHANGED <<queue, errors>>
    BY <1>8 DEF TransmitTraces
  <2>3. Len(SubSeq(traces, k + 1, Len(traces))) = Len(traces) - k
    BY <1>5
  <2>4. n \in Nat /\ n = Len(traces') /\ k \in 0..Seen.out
    BY <1>4, <1>5, <2>1, <2>3
  <2>5. nd = Transmit(Seen, k)
    BY DEF Transmit
  <2> HIDE DEF n
  <2>6. Changed(nd, Seen, Seen.inq, Seen.busy, Seen.seeds, n, Seen.errs)
    BY <1>4, <2>4 DEF Changed, Shape, NodeState
  <2> HIDE DEF nd
  <2>7. Seen' = nd
    BY Zenon, <1>4, <1>6, <2>2, <2>4, <2>6
  <2> QED BY Zenon, <1>4, <2>4, <2>5, <2>7, RequestMaps
<1>9. CASE TransmitErrorLogs
  <2>1. PICK k \in 1..errors : errors' = errors - k
    BY <1>9 DEF TransmitErrorLogs
  <2> DEFINE n == Seen.errs - k  nd == [Seen EXCEPT !.errs = n]
  <2>2. UNCHANGED <<queue, traces>>
    BY <1>9 DEF TransmitErrorLogs
  <2>3. n \in Nat /\ n = errors' /\ k \in 0..Seen.errs
    BY <1>4, <1>5, <2>1
  <2>4. nd = TransmitErrors(Seen, k)
    BY DEF TransmitErrors
  <2> HIDE DEF n
  <2>5. Changed(nd, Seen, Seen.inq, Seen.busy, Seen.seeds, Seen.out, n)
    BY <1>4, <2>3 DEF Changed, Shape, NodeState
  <2> HIDE DEF nd
  <2>6. Seen' = nd
    BY Zenon, <1>4, <1>6, <2>2, <2>3, <2>5
  <2> QED BY Zenon, <1>4, <2>3, <2>4, <2>6, RequestMaps
<1> QED BY <1>7, <1>8, <1>9

\* Dispatch sees nothing of the tasks and the VM processes, nor of the end of a reset.
LEMMA Unseen ==
  ASSUME NodeInv,
         \/ NextTarget \/ ResetEnd \/ Aborted \/ UNCHANGED vars
         \/ \E i \in Ids : Progress(i) \/ Mishap(i) \/ StoreTraceAsserts(i)
  PROVE  Seen' = Seen
<1>1. UNCHANGED <<queue, traces, errors, active, commenced, cur>>
  BY Zenon DEF NextTarget, ResetEnd, Aborted, Progress, Mishap, StoreTraceAsserts, vars
<1>2. BusyIds' = BusyIds /\ SeedIds' = SeedIds
  <2>1. CASE NextTarget \/ Aborted \/ UNCHANGED vars
    BY Zenon, <1>1, <2>1 DEF NextTarget, Aborted, vars, BusyIds, SeedIds
  <2>2. CASE ResetEnd
    <3>1. joining
      BY Zenon, <2>2 DEF ResetEnd
    <3>2. ~commenced /\ ~commenced'
      BY Zenon, <1>1, <3>1 DEF NodeInv, Polling
    <3>3. BusyIds = {} /\ BusyIds' = {}
      BY <3>2 DEF BusyIds
    <3> QED BY <3>3 DEF SeedIds
  <2>3. ASSUME NEW i \in Ids, Progress(i) \/ Mishap(i) PROVE BusyIds' = BusyIds /\ SeedIds' = SeedIds
    <3>1. PICK new : Works(i, new)
      BY <2>3, ProgressWorks, MishapWorks
    <3>2. vms \in [Ids -> VM]
      BY Zenon DEF NodeInv, TypeOK
    <3>3. \A j \in Ids : /\ vms'[j].st = vms[j].st /\ (vms'[j].term <=> vms[j].term)
                         /\ (vms'[j].first <=> vms[j].first)
      BY <3>1, <3>2 DEF Works
    <3>4. BusyIds' = BusyIds
      BY Zenon, <1>1, <3>3 DEF BusyIds, Busy
    <3> QED BY Zenon, <3>3, <3>4 DEF SeedIds, BusyIds
  <2>4. ASSUME NEW i \in Ids, StoreTraceAsserts(i) PROVE BusyIds' = BusyIds /\ SeedIds' = SeedIds
    BY Zenon, <2>4 DEF StoreTraceAsserts, BusyIds, SeedIds
  <2> QED BY <2>1, <2>2, <2>3, <2>4
<1>3. cur' > 0 <=> cur > 0
  BY <1>1
<1> QED BY <1>1, <1>2, <1>3, SeenSame

\* Every step of the node is one of WorkNode, or is not seen.
LEMMA StepMaps == NodeInv /\ NodeInv' /\ [Next]_vars => Contract!Next \/ Seen' = Seen
<1> SUFFICES ASSUME NodeInv, NodeInv', [Next]_vars PROVE Contract!Next \/ Seen' = Seen
  OBVIOUS
<1>1. CASE Poll
  BY <1>1, BeginMaps, EndMaps, VisitMaps, PolledMaps DEF Poll
<1>2. CASE Requests
  BY <1>2, CommenceMaps, ResetMaps, QueuesMap, Unseen DEF Requests
<1> QED BY <1>1, <1>2, Unseen DEF Next

\* What Dispatch relies on of a node holds of VMNode, whatever fails in its tasks, guests
\* and VM processes: each step of the node is a step of WorkNode, or not seen.
THEOREM VMNodeIsWorkNode == Spec => ImplementsWorkNode
<1>1. Init => Contract!Init
  <2> SUFFICES ASSUME Init PROVE Seen = NewNode
    BY Zenon DEF Contract!Init, Contract!NewNode, NewNode, Seen, SeedIds
  <2>1. BusyIds = {} /\ SeedIds = {} /\ cur = 0
    BY Zenon DEF Init, BusyIds, SeedIds
  <2>2. ~(cur > 0) /\ Cardinality(BusyIds) = 0 /\ Cardinality(SeedIds) = 0
    BY <2>1, FS_EmptySet
  <2>3. SeenFields
    BY NodeInit, SeenTyped
  <2>4. Shape(Seen, 0, 0, 0, 0, 0, TRUE, FALSE, FALSE)
    BY <2>2, <2>3 DEF Init, SeenFields, Shape
  <2>5. Shape(NewNode, 0, 0, 0, 0, 0, TRUE, FALSE, FALSE)
    BY DEF NewNode, NodeState, Shape
  <2> QED BY Zenon, <2>4, <2>5, SameShape
<1>2. NodeInv /\ NodeInv' /\ [Next]_vars => [Contract!Next]_Seen
  BY StepMaps
<1> QED
  BY <1>1, <1>2, NodeInvariant, PTL DEF Spec, ImplementsWorkNode, Contract!Spec, Seen, SeedIds

=============================================================================
