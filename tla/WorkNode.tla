------------------------------ MODULE WorkNode ------------------------------
(* The behaviours of one node that NodeContract allows.                    *)
EXTENDS NodeContract

VARIABLE node

Init == node = NewNode

Listen ==
    /\ ~node.polling
    /\ \/ node' = Reset(node)
       \/ \E b \in 0..Instances : \E s \in 0..b : node' = Commence(node, b, s)
       \/ \E k \in 1..(node'.inq - node.inq) : node' = Receive(node, k)
       \/ \E k \in 0..node.out : node' = Transmit(node, k)
       \/ \E k \in 0..node.errs : node' = TransmitErrors(node, k)

Next == node' \in Polled(node) \/ Listen

Spec == Init /\ [][Next]_node
=============================================================================
