----------------------------- MODULE TracePool -----------------------------
(***************************************************************************)
(* The pools of the dispatch: TracePool with the trace analyzer, the trace *)
(* graph and the selectors behind it (trace_pool.cpp, trace_analyzer.cpp,  *)
(* trace_graph.cpp, selector.cpp), and TestPool (test_pool.cpp).           *)
(*                                                                         *)
(* A trace has an id (its directory, with a fresh uuid; here the traces    *)
(* are numbered as they arrive) and a sequence of blocks (tb-seq.bin in    *)
(* it).  The graph is a tree in which siblings have distinct blocks, so    *)
(* that a vertex is known by the blocks on the way to it.                  *)
(***************************************************************************)
EXTENDS Integers, Sequences, FiniteSets, Functions

CONSTANTS
  MaxTraces,   \* bound: traces that arrive for one target
  BlockSeqs,   \* the sequences of blocks a trace may have
  Strategies,  \* the selection strategies considered
  Tests,       \* test cases
  MaxArrivals, \* bound: tests that arrive, the same test counted each time
  None

\* The strategies whose selector scores each trace when it arrives; "fifo" is one of
\* them, as set_selection_strategy gives it the selector of "weighted".
ScoreStrategies == {"exp-1", "random", "weighted", "fifo"}

ASSUME NoneAssumption == None \notin Nat
ASSUME StrategiesAssumption == Strategies \subseteq {"bfs", "exp-2"} \cup ScoreStrategies

\* merge_trace asserts that all traces begin with the same block.
ASSUME BlockSeqsAssumption ==
  \A b, c \in BlockSeqs : b \in Seq(Nat) /\ b # <<>> /\ b[1] = c[1]

VARIABLES
  strategy,    \* strat_
  blocks,      \* all_: the blocks of the traces that have arrived, by id
  graph,       \* graph_: its vertices [path, id] in the order of insertion
  executed,    \* executed_traces_; its domain is traces_
  scores,      \* trace_scores_ of the selector
  all_unique, next,
  chosen,      \* ghost: the traces that next has returned, in order
  thrown,      \* ghost: the traces for which next has thrown
  superseded,  \* ghost: the traces that merge_trace has removed
  crashed,     \* the dispatch has died
  test_all, test_next,
  arrived,     \* ghost: the tests given to TestPool::insert, in order
  handed       \* ghost: the tests that TestPool::next has returned

tracevars == <<strategy, blocks, graph, executed, scores, all_unique, next, chosen, thrown,
               superseded, crashed>>
testvars == <<test_all, test_next, arrived, handed>>
vars == <<tracevars, testvars>>

EmptyPools ==
  /\ blocks = <<>> /\ graph = <<>> /\ executed = <<>> /\ scores = <<>>
  /\ all_unique = {} /\ next = {}
  /\ chosen = <<>> /\ thrown = {} /\ superseded = {} /\ crashed = FALSE
  /\ test_all = {} /\ test_next = <<>> /\ arrived = <<>> /\ handed = <<>>

Init == strategy \in Strategies /\ EmptyPools

With(f, x, y) == [z \in DOMAIN f \cup {x} |-> IF z = x THEN y ELSE f[z]]
Without(f, x) == [z \in DOMAIN f \ {x} |-> f[z]]

-----------------------------------------------------------------------------
(* Scores.                                                                 *)

\* A score is a fraction <<numerator, denominator>>.
Less(p, q) == p[1] * q[2] < q[1] * p[2]
Same(p, q) == p[1] * q[2] = q[1] * p[2]

\* How many blocks of b, a sequence or another family of blocks, are not the only one of
\* their kind: the sum of the frequencies from 2 on.
calculate_weight_group_score(b) ==
  <<Cardinality({i \in DOMAIN b : \E j \in DOMAIN b \ {i} : b[j] = b[i]}), 1>>

\* The average over b of the frequency of a block: the sum counts the pairs of equal blocks.
calculate_least_treaded_score(b) ==
  <<Cardinality({ij \in (DOMAIN b) \X (DOMAIN b) : b[ij[1]] = b[ij[2]]}), Cardinality(DOMAIN b)>>

\* The scores a selector may give to a trace; a random one is any of two.
Scores(s) ==
  CASE strategy = "exp-1" -> {calculate_weight_group_score(s)}
    [] strategy \in {"weighted", "fifo"} -> {calculate_least_treaded_score(s)}
    [] strategy = "random" -> {<<0, 1>>, <<1, 1>>}

-----------------------------------------------------------------------------
(* The graph.                                                              *)

IsPrefix(p, s) == Len(p) <= Len(s) /\ \A i \in 1 .. Len(p) : p[i] = s[i]

Vertices == Range(graph)
Paths == {v.path : v \in Vertices}

\* The children of the vertex at p, by their places in graph: the order of its edges.
Children(p) == {k \in DOMAIN graph : Len(graph[k].path) = Len(p) + 1 /\ IsPrefix(p, graph[k].path)}
IsLeaf(p) == Children(p) = {}
IdAt(p) == (CHOOSE v \in Vertices : v.path = p).id

\* How many blocks of s the trace and the graph have in common.
find_trace_divergence(s) ==
  CHOOSE n \in 0 .. Len(s) :
    /\ n > 0 => SubSeq(s, 1, n) \in Paths
    /\ n < Len(s) => SubSeq(s, 1, n + 1) \notin Paths

\* Mutant of back_insert: only the vertex of divergence gets the new id.
BackInsertLast(id, prev, s, n) ==
  [k \in 1 .. Len(graph) |->
     IF graph[k].path = SubSeq(s, 1, n) THEN [graph[k] EXCEPT !.id = id] ELSE graph[k]]

\* From the vertex of divergence (the first n blocks of s) backwards, as long as a
\* vertex has the id of the superseded trace, it gets the new one.
back_insert(id, prev, s, n) ==
  [k \in 1 .. Len(graph) |->
     IF /\ Len(graph[k].path) <= n /\ IsPrefix(graph[k].path, s)
        /\ \A m \in Len(graph[k].path) .. n : IdAt(SubSeq(s, 1, m)) = prev
       THEN [graph[k] EXCEPT !.id = id]
       ELSE graph[k]]

\* The vertices for the blocks of s behind the first n.
NewVertices(id, s, n) == [k \in 1 .. (Len(s) - n) |-> [path |-> SubSeq(s, 1, n + k), id |-> id]]

\* The order of a breadth-first search, which discovers the children of a vertex in the
\* order of their edges: the deeper vertex is later, and of two at the same depth the
\* one whose branch was inserted later.
IndexOf(p) == CHOOSE k \in 1 .. Len(graph) : graph[k].path = p
Before(p, q) ==
  \/ Len(p) < Len(q)
  \/ /\ Len(p) = Len(q)
     /\ \E m \in 1 .. Len(p) :
          /\ SubSeq(p, 1, m - 1) = SubSeq(q, 1, m - 1) /\ p[m] # q[m]
          /\ IndexOf(SubSeq(p, 1, m)) < IndexOf(SubSeq(q, 1, m))

collect_descendant_blocks(p) ==
  [k \in {i \in DOMAIN graph : IsPrefix(p, graph[i].path)} |-> graph[k].path[Len(graph[k].path)]]
Score(k) == calculate_least_treaded_score(collect_descendant_blocks(graph[k].path))

\* Mutant of Branches: the branches with another score than the best one are not tried.
BestBranches(kids) == {i \in kids : \A j \in kids :
  ~Less(Score(j), Score(i)) /\ (j < i => ~Same(Score(i), Score(j)))}

\* BranchScoreMap has one branch per score: the first one inserted.
Branches(kids) == {i \in kids : \A j \in kids : j < i => ~Same(Score(i), Score(j))}

\* What is selected at p, given what pick selects at its children: at a leaf its trace,
\* unless it is executed, and otherwise, by ascending score of the branches, what is found
\* first (a vertex with one child has one branch).
SelectAt(pick, p) ==
  LET found == {i \in Branches(Children(p)) : pick[graph[i].path] # None}
      lowest == CHOOSE i \in found : \A j \in found : ~Less(Score(j), Score(i))
  IN  IF IsLeaf(p)
        THEN IF executed[IdAt(p)] THEN None ELSE IdAt(p)
        ELSE IF found = {} THEN None ELSE pick[graph[lowest].path]

\* The recursion starts at the first vertex.
select_by_recursive_score ==
  LET pick[p \in Paths] == SelectAt(pick, p) IN pick[graph[1].path]

\* Mutant of next_bfs: the first vertex, executed or not.
BfsFirst == IF graph = <<>> THEN None ELSE graph[1].id

\* The id of the first vertex, in breadth-first order, whose trace is not executed.
next_bfs ==
  LET open == {v \in Vertices : ~executed[v.id]}
  IN  IF open = {} THEN None
      ELSE (CHOOSE v \in open : \A u \in open \ {v} : Before(v.path, u.path)).id

-----------------------------------------------------------------------------
(* Insertion of a trace.                                                   *)

\* TraceAnalyzer::insert_trace has accepted the trace: it goes to the selector
\* (those that work on the graph keep nothing) and into the pool.
Accept(id, s) ==
  /\ IF strategy \in ScoreStrategies
       THEN \E score \in Scores(s) : scores' = With(scores, id, score)
       ELSE UNCHANGED scores
  /\ all_unique' = all_unique \cup {id}
  /\ next' = next \cup {id}

Reject == UNCHANGED <<graph, executed, scores, all_unique, next, superseded>>

\* TracePool::insert, with the option filter_traces.  A trace that is a prefix of what
\* is there is not inserted; one that continues another one to its end replaces it in
\* the graph (the callback that would take the other one from next_ does nothing); any
\* other one becomes a branch.
Insert(s) ==
  LET id == Len(blocks) + 1
      n == find_trace_divergence(s)
      at == SubSeq(s, 1, n)
      prev == IdAt(at)
  IN  /\ ~crashed /\ Len(blocks) < MaxTraces
      /\ blocks' = Append(blocks, s)
      /\ \/ /\ graph = <<>>
            /\ graph' = NewVertices(id, s, 0)
            /\ executed' = With(executed, id, FALSE)
            /\ Accept(id, s)
            /\ UNCHANGED superseded
         \/ /\ graph # <<>> /\ n = Len(s)
            /\ Reject
         \/ /\ graph # <<>> /\ n < Len(s) /\ ~IsLeaf(at)
            /\ graph' = graph \o NewVertices(id, s, n)
            /\ executed' = With(executed, id, FALSE)
            /\ Accept(id, s)
            /\ UNCHANGED superseded
         \/ /\ graph # <<>> /\ n < Len(s) /\ IsLeaf(at)
            /\ graph' = back_insert(id, prev, s, n) \o NewVertices(id, s, n)
            /\ executed' = With(Without(executed, prev), id, FALSE)
            /\ superseded' = superseded \cup {prev}
            /\ Accept(id, s)
      /\ UNCHANGED <<strategy, chosen, thrown, crashed, testvars>>

-----------------------------------------------------------------------------
(* Selection of a trace.                                                   *)

\* Mutant of Take: the trace is not erased from next_.
TakeAndKeep(t, rest) ==
  /\ scores' = rest
  /\ executed' = IF t \in DOMAIN executed THEN [executed EXCEPT ![t] = TRUE] ELSE executed
  /\ chosen' = IF t \in DOMAIN executed THEN Append(chosen, t) ELSE chosen
  /\ thrown' = IF t \in DOMAIN executed THEN thrown ELSE thrown \cup {t}
  /\ UNCHANGED <<next, strategy, blocks, graph, all_unique, superseded, crashed, testvars>>

\* TracePool::next once the selector has chosen t: it leaves next_, and is marked as
\* executed; when the graph no longer knows it that throws, and t is not returned.
Take(t, rest) ==
  /\ scores' = rest
  /\ next' = next \ {t}
  /\ IF t \in DOMAIN executed
       THEN /\ executed' = [executed EXCEPT ![t] = TRUE]
            /\ chosen' = Append(chosen, t)
            /\ UNCHANGED thrown
       ELSE /\ thrown' = thrown \cup {t}
            /\ UNCHANGED <<executed, chosen>>
  /\ UNCHANGED <<strategy, blocks, graph, all_unique, superseded, crashed, testvars>>

\* Mutant of NextByScore: the selector does not remove what it has selected.
NextByScoreAgain ==
  /\ ~crashed /\ strategy \in ScoreStrategies
  /\ \E t \in DOMAIN scores :
       /\ \A u \in DOMAIN scores : ~Less(scores[u], scores[t])
       /\ Take(t, scores)

\* Selector::next: one of the traces with the lowest score.
NextByScore ==
  /\ ~crashed /\ strategy \in ScoreStrategies
  /\ \E t \in DOMAIN scores :
       /\ \A u \in DOMAIN scores : ~Less(scores[u], scores[t])
       /\ Take(t, Without(scores, t))

NextBFS ==
  /\ ~crashed /\ strategy = "bfs" /\ next_bfs # None
  /\ Take(next_bfs, scores)

NextRecursive ==
  /\ ~crashed /\ strategy = "exp-2" /\ graph # <<>> /\ select_by_recursive_score # None
  /\ Take(select_by_recursive_score, scores)

\* The first vertex of a graph that has none.
NextRecursiveEmpty ==
  /\ ~crashed /\ strategy = "exp-2" /\ graph = <<>>
  /\ crashed' = TRUE
  /\ UNCHANGED <<strategy, blocks, graph, executed, scores, all_unique, next, chosen, thrown,
                 superseded, testvars>>

\* The selector returns no trace.
NoTrace ==
  CASE strategy \in ScoreStrategies -> DOMAIN scores = {}
    [] strategy = "bfs" -> next_bfs = None
    [] strategy = "exp-2" -> graph # <<>> /\ select_by_recursive_score = None

-----------------------------------------------------------------------------
(* TestPool.                                                               *)

\* Mutant of test_pool_insert: a test is not looked up in all_.
InsertAlways(t) ==
  /\ test_all' = test_all \cup {t}
  /\ test_next' = <<t>> \o test_next

\* A test that was not seen before goes to the front of next_.
test_pool_insert(t) ==
  /\ test_all' = test_all \cup {t}
  /\ test_next' = IF t \in test_all THEN test_next ELSE <<t>> \o test_next

InsertTest(t) ==
  /\ ~crashed /\ Len(arrived) < MaxArrivals
  /\ test_pool_insert(t)
  /\ arrived' = Append(arrived, t)
  /\ UNCHANGED <<tracevars, handed>>

NextTest ==
  /\ ~crashed /\ test_next # <<>>
  /\ handed' = Append(handed, test_next[Len(test_next)])
  /\ test_next' = SubSeq(test_next, 1, Len(test_next) - 1)
  /\ UNCHANGED <<tracevars, test_all, arrived>>

-----------------------------------------------------------------------------

\* DispatchFSM_::reset: new pools for the next target.
Reset ==
  /\ ~crashed
  /\ blocks' = <<>> /\ graph' = <<>> /\ executed' = <<>> /\ scores' = <<>>
  /\ all_unique' = {} /\ next' = {}
  /\ chosen' = <<>> /\ thrown' = {} /\ superseded' = {}
  /\ test_all' = {} /\ test_next' = <<>> /\ arrived' = <<>> /\ handed' = <<>>
  /\ UNCHANGED <<strategy, crashed>>

Next ==
  \/ \E s \in BlockSeqs : Insert(s)
  \/ NextByScore \/ NextBFS \/ NextRecursive \/ NextRecursiveEmpty
  \/ (\E t \in Tests : InsertTest(t)) \/ NextTest
  \/ Reset

\* A dispatch whose nodes go on asks for traces again and again.
Spec == Init /\ [][Next]_vars /\ WF_vars(NextByScore \/ NextBFS)

-----------------------------------------------------------------------------
(* Properties.                                                             *)

\* TraceGraph::insert, merge_trace, back_insert: whatever the order of arrival, the graph
\* has the blocks of every trace that has arrived, as a tree; its leaves are the ends of
\* the traces in executed_traces_, one each; and the id of a vertex is that of a trace in
\* executed_traces_ that goes through it, so that executed() finds it there.
GraphHoldsTraces ==
  /\ \A j, k \in DOMAIN graph : graph[j].path = graph[k].path => j = k
  /\ Range(blocks) \subseteq Paths
  /\ \A p \in Paths : \A n \in 1 .. Len(p) : SubSeq(p, 1, n) \in Paths
  /\ {v \in Vertices : IsLeaf(v.path)} = {[path |-> blocks[t], id |-> t] : t \in DOMAIN executed}
  /\ \A v \in Vertices : v.id \in DOMAIN executed /\ IsPrefix(v.path, blocks[v.id])

\* TracePool::insert and next: a trace that was accepted waits in next_, or was returned
\* once and is marked as executed as long as the graph knows it, or its selection has
\* thrown; that happens only to a trace that another one has superseded.
EveryTraceOnce ==
  /\ IsInjective(chosen)
  /\ all_unique = next \cup Range(chosen) \cup thrown
  /\ next \cap (Range(chosen) \cup thrown) = {} /\ Range(chosen) \cap thrown = {}
  /\ thrown \subseteq superseded
  /\ \A t \in DOMAIN executed : executed[t] <=> t \in Range(chosen)

\* trace_graph.cpp:436 keeps one branch of those that have the same score.
BehindTie(t) ==
  \E n \in 1 .. Len(blocks[t]) :
    LET kids == Children(SubSeq(blocks[t], 1, n))
    IN  \E i, j \in kids :
          j < i /\ Same(Score(i), Score(j)) /\ IsPrefix(graph[i].path, blocks[t])

\* trace_graph.cpp:450 says "All child traces have been executed." when no trace is
\* selected: that is so for every strategy but exp-2, and there it is so for the traces
\* that are not behind a branch with the same score as an earlier one.
NoneMeansDone ==
  ~crashed /\ NoTrace =>
    \A t \in DOMAIN executed : executed[t] \/ (strategy = "exp-2" /\ BehindTie(t))

\* trace_pool.cpp:34 leaves a superseded trace in next_.  With a strategy that scores the
\* traces it leaves nevertheless, when it is selected in vain, so that next_ becomes empty,
\* which are_all_queues_empty (dispatch.cpp:1697) waits for; with bfs every other one does.
Waiting(t) == t \in next /\ strategy # "exp-2" /\ ~(strategy = "bfs" /\ t \in superseded)
Drained == \A t \in 1 .. MaxTraces : Waiting(t) ~> ~Waiting(t)

\* The tests that have left, then those that wait, the next one first.
Order ==
  LET n == Len(handed) + Len(test_next)
  IN  [i \in 1 .. n |-> IF i <= Len(handed) THEN handed[i] ELSE test_next[n + 1 - i]]

\* test_pool.cpp:32, "FIFO": tests leave in the order in which they first arrived, each
\* one once, however often it arrives and even after it has left.
TestsFIFO ==
  /\ Range(Order) = Range(arrived)
  /\ \A i, j \in DOMAIN Order : i < j =>
       \E k \in DOMAIN arrived : arrived[k] = Order[i] /\ \A l \in 1 .. k : arrived[l] # Order[j]

-----------------------------------------------------------------------------
(* The inductive invariant.                                                *)

Types ==
  /\ strategy \in Strategies /\ crashed \in BOOLEAN
  /\ blocks \in Seq(BlockSeqs) /\ graph \in Seq([path : Seq(Nat) \ {<<>>}, id : Nat])
  /\ executed \in [DOMAIN executed -> BOOLEAN] /\ DOMAIN executed \subseteq DOMAIN blocks
  /\ chosen \in Seq(Nat)
  /\ test_next \in Seq(Tests) /\ arrived \in Seq(Tests) /\ handed \in Seq(Tests)

\* A trace has the vertices of a last part of its path: back_insert, which goes from the
\* end of the trace backwards and stops at the first vertex of another one, finds them all.
LastPart ==
  \A u, v \in Vertices : IsPrefix(u.path, v.path) /\ IsPrefix(v.path, blocks[u.id]) => v.id = u.id

\* The first vertex, from which select_by_recursive_score starts, is that of the first block.
RootFirst == graph # <<>> => Len(graph[1].path) = 1

\* What each container holds of the traces that were accepted.
Accepted ==
  /\ all_unique = DOMAIN executed \cup superseded /\ DOMAIN executed \cap superseded = {}
  /\ superseded \subseteq DOMAIN blocks
  /\ strategy \in ScoreStrategies => DOMAIN scores = next

\* After any insert and next the graph, the selector, next_ and executed_traces_ agree on
\* which traces there are and where in the graph they end, and TestPool's all_ and next_ on
\* which tests have arrived and wait: the properties above but NoneMeansDone and Drained,
\* with what makes them inductive.
PoolInv ==
  /\ Types /\ GraphHoldsTraces /\ LastPart /\ RootFirst
  /\ Accepted /\ EveryTraceOnce
  /\ test_all = Range(arrived) /\ TestsFIFO
=============================================================================
