------------------------------ MODULE MCPrepare ------------------------------
(* `wide` has bookings on three nodes and `narrow` on two of them; each wants *)
(* two targets, one to a node, whose views have one path.  Nodes n1 and n2   *)
(* hold a view, n3 the weights; n2 is booked longest and is the one that     *)
(* gets an engine or reboots.  Each node has room for one view and the model *)
(* beside what it holds, so that an engine or the other preparation can take *)
(* what was counted on.                                                      *)
EXTENDS Prepare

CONSTANTS n1, n2, n3, wide, narrow, d

MCCandidates ==
    [p \in Preparations |-> IF p = wide THEN <<n1, n2, n3>> ELSE <<n3, n2>>]
MCGpus == [t \in Targets |-> 1]
MCBytes == [t \in Targets |-> 2]
MCPathOf == [t \in Targets |-> d]
MCGpuCount == [n \in Nodes |-> 1]
MCLeft == [n \in Nodes |-> IF n = n2 THEN 20 ELSE 5]
MCCapacity == [n \in Nodes |-> IF n = n1 THEN 7 ELSE IF n = n2 THEN 9 ELSE 8]
MCInitAt == [n \in Nodes |-> [q \in Paths |-> IF n = n1 THEN 1
                                     ELSE IF n = n2 THEN 2 ELSE None]]
MCInitWeights == [n \in Nodes |-> n = n3]
MCInitFree == [n \in Nodes |-> IF n = n1 THEN 5 ELSE IF n = n2 THEN 7 ELSE 4]
=============================================================================
