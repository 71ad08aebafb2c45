------------------------------ MODULE MCPublish -----------------------------
(* Two pages of two slices.  The publication `split` scatters two nodes, one *)
(* slice each; `single` one node with everything; `short` leaves a page out, *)
(* as an instance does that serves fewer requests.                           *)
EXTENDS Publish

CONSTANTS p1, p2, lo, hi, split, single, short

MCPages == {p1, p2}
MCParts == {lo, hi}
MCScatter ==
    [c \in Pubs |->
        IF c = split THEN <<MCPages \X {lo}, MCPages \X {hi}>>
        ELSE IF c = single THEN <<MCPages \X MCParts>>
        ELSE <<{p1} \X {lo}, {p1} \X {hi}>>]
=============================================================================
