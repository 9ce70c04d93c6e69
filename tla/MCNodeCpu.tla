------------------------------- MODULE MCNodeCpu -------------------------------
(* Machines for the model checker. *)
EXTENDS NodeCpu

Cpu(n, s, k) == [node |-> n, socket |-> s, core |-> k]

\* Any set of online threads, on one node, each a core of its own.
OneNode == {[h \in S |-> Cpu(0, 0, h % 3)] : S \in SUBSET Digits \ {{}}}

\* Two sockets that are the nodes, in halves and alternating, without and with two
\* threads per core; two nodes in one socket; a node over two sockets.
TwoNodes == LET T == 0..7 IN
    {[h \in T |-> Cpu(h \div 4, h \div 4, h % 4)], [h \in T |-> Cpu(h % 2, h % 2, h \div 2)],
     [h \in T |-> Cpu(h % 2, h % 2, (h % 4) \div 2)], [h \in T |-> Cpu((h \div 2) % 2, (h \div 2) % 2, h % 2)],
     [h \in T |-> Cpu((h % 4) \div 2, 0, h % 4)], [h \in T |-> Cpu(0, h % 2, (h \div 2) % 3)],
     [h \in T \ {3, 6} |-> Cpu(h % 2, h % 2, (h \div 2) % 3)]}

Machines == OneNode \cup TwoNodes

\* The proofs ask for it.
ASSUME MachinesAssumption == CoresWithinNodes
================================================================================
