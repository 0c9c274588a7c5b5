---------------------------- MODULE MCTracePool ----------------------------
(* TracePool for TLC: traces that are prefixes of each other, that branch  *)
(* at the first and at the second block, with and without repeated blocks. *)
EXTENDS TracePool

MCBlockSeqs == {<<1>>, <<1, 2>>, <<1, 3>>, <<1, 2, 2>>, <<1, 2, 3>>, <<1, 2, 3, 3>>}

\* "weighted" is the same as "fifo".
MCStrategies == {"bfs", "exp-1", "exp-2", "random", "fifo"}

\* The two pools share nothing: their steps are not interleaved.
OnePool == blocks = <<>> \/ arrived = <<>>
=============================================================================
