------------------------------ MODULE MCHydrate ------------------------------
(* `two` wants the same kind on two nodes, as a configuration with two equal *)
(* instances does; `one` shares its first place and wants another kind at    *)
(* the second, under the same instance name.  An earlier command, before the *)
(* last reboot, recorded a view at the second place.                         *)
EXTENDS Hydrate

CONSTANTS n1, n2, p1, p2, big, small, two, one, m0, m1, m2

Target(p, k) == [place |-> p, kind |-> k]
MCNodeOf == [p \in Places |-> IF p = p1 THEN n1 ELSE n2]
MCPlan ==
    [h \in Hydrations |->
        IF h = two THEN <<Target(p1, big), Target(p2, big)>>
        ELSE <<Target(p2, small), Target(p1, big)>>]
MCMatOf == [h \in Hydrations |-> IF h = two THEN m2 ELSE m1]
MCKnown ==
    {[mat |-> m0, place |-> p2, kind |-> big, boot |-> 0, told |-> TRUE]}
=============================================================================
