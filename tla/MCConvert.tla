----------------------------- MODULE MCConvert ------------------------------
(* Four layers of two KV heads: TP, PP with uneven stages, both together, a  *)
(* second replica of a TP instance, and an instance whose stages miss a      *)
(* layer, which the code refuses.  MCAliases has two pipelines whose middle  *)
(* stages have one layer each, but not the same one.                         *)
EXTENDS Convert

Instance(id, tp, pp, partition, nodes) ==
    [id |-> id, tp |-> tp, pp |-> pp, partition |-> partition, nodes |-> nodes]

MCTopologies ==
    {Instance("tp1", 1, 1, <<4>>, 1),
     Instance("tp2", 2, 1, <<4>>, 2),
     Instance("replica", 2, 1, <<4>>, 2),
     Instance("pp2", 1, 2, <<3, 1>>, 1),
     Instance("tp2pp2", 2, 2, <<1, 3>>, 2),
     Instance("short", 1, 3, <<1, 1, 1>>, 1)}

MCAliases ==
    {Instance("early", 1, 3, <<1, 1, 2>>, 3),
     Instance("late", 1, 3, <<2, 1, 1>>, 3)}

\* The first have equal stages wherever TP and PP are equal, these have not.
ASSUME AgreeingStages == Topologies = MCTopologies => StagesAgree
ASSUME AliasedStages == Topologies = MCAliases => ~StagesAgree
=============================================================================
