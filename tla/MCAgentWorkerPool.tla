--------------------------- MODULE MCAgentWorkerPool ---------------------------
(* Instances of AgentWorkerPool for TLC. *)
EXTENDS AgentWorkerPool

CONSTANTS o1, o2, o3, o4, s1, s2, s3

\* Two operations on one store, and one on each of two others.
FourOps == {o1, o2, o3, o4}
ThreeStores == [o \in FourOps |-> CASE o = o3 -> s2 [] o = o4 -> s3 [] OTHER -> s1]
================================================================================
