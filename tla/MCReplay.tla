------------------------------ MODULE MCReplay ------------------------------
(* Instances of Replay for TLC.                                            *)
EXTENDS Replay

O(op, a, n) == [op |-> op, a |-> a, n |-> n]
Ld(a, n) == O("ld", a, n)
St(a, n) == O("st", a, n)

MCByte == {0, 1}

\* Two bytes at 0 .. 1 and, until the target makes it concolic too, ordinary memory at 2.
MCVars == <<[name |-> "v", addr |-> 0, data |-> <<1, 0>>], [name |-> "w", addr |-> 2, data |-> <<1>>]>>

\* MAKE_CONCOLIC, with a load before it and the call behind it in its TB; a TB between the
\* two; MAKE_SYMBOLIC, between the prologue and the return.  The stack is at 3.
Push == O("push", 3, 1)
Library == {<<Ld(0, 1), O("concolic", 0, 0), Push>>, <<Push>>,
            <<Push, O("symbolic", 0, 0), Ld(3, 1)>>}

\* Loads of different sizes that overlap, in both orders; stores of what was loaded;
\* an access across the edge of the variable; an instruction that raises.
MCProgs ==
  Library \cup
  {<<St(2, 1), Ld(0, 1)>>,
   <<Ld(1, 1), Ld(0, 2), O("raise", 0, 0)>>,
   <<Ld(1, 2), O("ldh", 0, 1), Ld(2, 1)>>,
   <<Ld(2, 1), St(1, 1), O("end", 0, 0), Ld(3, 1)>>}

=============================================================================
