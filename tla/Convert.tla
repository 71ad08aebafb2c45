------------------------------- MODULE Convert ------------------------------
(***************************************************************************)
(* sglang_format.py: how the bytes of one page travel between topologies.  *)
(* An engine of some topology writes one file for each of its TP/PP ranks; *)
(* scatter_node_to_canonical copies the files of a node into the canonical *)
(* page, materialize_node_from_canonical slices the page into the files of *)
(* another topology, and a peer transfer copies a node's files unchanged   *)
(* when the inventories agree, which compare file names and sizes.         *)
(*                                                                         *)
(* A byte of the page is identified by its layer and KV head: the other    *)
(* axes are copied whole.  The value of a byte is the layer and head it    *)
(* was computed for, so that a byte in the wrong place shows.              *)
(***************************************************************************)
EXTENDS Integers, Sequences, FiniteSets, Sums

CONSTANTS
    NumLayers,      \* num_layers of the model
    NumHeads,       \* num_kv_heads of the model
    Topologies,     \* records of id, tp, pp, partition and nodes
    Nothing         \* a page, a byte, a publication or a view not there

VARIABLES
    view,       \* view[slot]: the files in the RAM directory of the slot
    source,     \* the topology being published, or Nothing
    scattered,  \* how many of its nodes the publication has scattered
    incoming,   \* the page of the publication's incoming directory
    canonical   \* the page of the installed artifact

vars == <<view, source, scattered, incoming, canonical>>

ASSUME ModelSize == NumLayers \in Nat \ {0} /\ NumHeads \in Nat \ {0}
ASSUME TopologyType ==
    \A t \in Topologies :
        /\ t.tp \in Nat \ {0} /\ t.pp \in Nat \ {0} /\ t.nodes \in Nat \ {0}
        /\ t.partition \in Seq(Nat)

Layers == 0..(NumLayers - 1)
Heads == 0..(NumHeads - 1)
Bytes == Layers \X Heads
EmptyPage == [b \in Bytes |-> Nothing]

ASSUME NothingAssumption ==
    Nothing \notin Topologies \cup Bytes \cup [Bytes -> Bytes \cup {Nothing}]

-----------------------------------------------------------------------------
(* The layout, from a topology and the sizes of the model.                  *)

\* Mutated forms of the operators below.
SupportedPartialLayers(t) ==
    /\ Len(t.partition) = t.pp
    /\ (t.tp * t.pp) % t.nodes = 0
    /\ NumHeads % t.tp = 0
\* layer_partition, _rank_coordinates and local_file_size raise on the rest.
Supported(t) ==
    /\ Len(t.partition) = t.pp
    /\ SumOf(t.partition) = NumLayers
    /\ (t.tp * t.pp) % t.nodes = 0
    /\ NumHeads % t.tp = 0

\* Topologies with equal TP and PP have equal stages, as peer transfers, which
\* compare names and sizes, rely on: nothing in the code makes it so.
StagesAgree ==
    \A t, u \in Topologies :
        Supported(t) /\ Supported(u) /\ t.tp = u.tp /\ t.pp = u.pp
            => t.partition = u.partition

CoordinatesByPipeline(t, node) ==
    LET perNode == (t.tp * t.pp) \div t.nodes
    IN  {<<g \div t.pp, g % t.pp>> :
             g \in (node * perNode)..(node * perNode + perNode - 1)}
EvenLayerRange(t, ppRank) ==
    LET size == NumLayers \div t.pp
    IN  (ppRank * size)..(ppRank * size + t.partition[ppRank + 1] - 1)

\* The TP and PP rank of each of the node's processes.
RankCoordinates(t, node) ==
    LET perNode == (t.tp * t.pp) \div t.nodes
    IN  {<<g % t.tp, g \div t.tp>> :
             g \in (node * perNode)..(node * perNode + perNode - 1)}

LayerRange(t, ppRank) ==
    LET start == PartialSums(t.partition)[ppRank]
    IN  start..(start + t.partition[ppRank + 1] - 1)

HeadRange(t, tpRank) ==
    LET size == NumHeads \div t.tp
    IN  (tpRank * size)..(tpRank * size + size - 1)

\* target[:, :, layer_start:layer_end, head_start:head_end]
Region(t, rank) == LayerRange(t, rank[2]) \X HeadRange(t, rank[1])

LeastOf(S) == CHOOSE x \in S : \A y \in S : x <= y

\* A rank file counts its layers and heads from its own zero.
Local(t, rank, byte) ==
    <<byte[1] - LeastOf(LayerRange(t, rank[2])),
      byte[2] - LeastOf(HeadRange(t, rank[1]))>>

\* local_rank_filename leaves the pipeline out of a name when there is none,
\* and never says which layers a stage has.
FileName(t, rank) ==
    IF t.pp > 1 THEN <<rank[1], t.tp, t.pp, rank[2]>> ELSE <<rank[1], t.tp>>
FileSize(t, rank) == t.partition[rank[2] + 1] * (NumHeads \div t.tp)

Slots ==
    UNION {{t} \X (0..(t.nodes - 1)) : t \in {u \in Topologies : Supported(u)}}

\* expected_local_files and its inventory digest.
Expected(slot) ==
    {<<FileName(slot[1], r), FileSize(slot[1], r)>> :
         r \in RankCoordinates(slot[1], slot[2])}

\* inspect_local_materialization: names and sizes, never contents.
Valid(slot, files) ==
    /\ files # Nothing
    /\ \A e \in Expected(slot) :
          /\ e[1] \in DOMAIN files
          /\ Cardinality(DOMAIN files[e[1]]) = e[2]

-----------------------------------------------------------------------------
(* The engine's own layout, which the operators above have to agree with:   *)
(* global_rank = pp_rank * TP + tp_rank, nodes filled in rank order, stages  *)
(* and heads in blocks.                                                     *)

EngineRanks(t, node) ==
    {r \in (0..(t.tp - 1)) \X (0..(t.pp - 1)) :
        (r[2] * t.tp + r[1]) \div ((t.tp * t.pp) \div t.nodes) = node}

EngineFile(t, rank) ==
    LET firstLayer == PartialSums(t.partition)[rank[2]]
        firstHead == rank[1] * (NumHeads \div t.tp)
    IN  [local \in (0..(t.partition[rank[2] + 1] - 1))
                       \X (0..((NumHeads \div t.tp) - 1)) |->
            <<firstLayer + local[1], firstHead + local[2]>>]

EngineFiles(slot) ==
    LET t == slot[1]
        ranks == EngineRanks(t, slot[2])
        rankOf(name) == CHOOSE r \in ranks : FileName(t, r) = name
    IN  [name \in {FileName(t, r) : r \in ranks} |->
            EngineFile(t, rankOf(name))]

-----------------------------------------------------------------------------
Init ==
    /\ view = [s \in Slots |-> Nothing]
    /\ source = Nothing
    /\ scattered = 0
    /\ incoming = Nothing
    /\ canonical = Nothing

\* An engine prefills and stores its pages on the node.
Prefill(slot) ==
    /\ view[slot] = Nothing
    /\ view' = [view EXCEPT ![slot] = EngineFiles(slot)]
    /\ UNCHANGED <<source, scattered, incoming, canonical>>

\* A view is lost with the node's RAM.
Drop(slot) ==
    /\ view[slot] # Nothing
    /\ view' = [view EXCEPT ![slot] = Nothing]
    /\ UNCHANGED <<source, scattered, incoming, canonical>>

\* publish_checkpoint_to_disk finds no artifact and makes the incoming
\* directory; ftruncate makes a page of zeros before anything is scattered.
StartPublish(t) ==
    /\ source = Nothing /\ canonical = Nothing /\ Supported(t)
    /\ source' = t
    /\ scattered' = 0
    /\ incoming' = EmptyPage
    /\ UNCHANGED <<view, canonical>>

\* scatter_node_to_canonical on the next node.
ScatterNode ==
    /\ source # Nothing /\ scattered < source.nodes
    /\ LET slot == <<source, scattered>>
           ranks == RankCoordinates(source, scattered)
           owners(b) == {r \in ranks : b \in Region(source, r)}
           piece(b, r) == view[slot][FileName(source, r)][Local(source, r, b)]
       IN  /\ Valid(slot, view[slot])
           /\ incoming' =
                [b \in Bytes |->
                    IF owners(b) = {} THEN incoming[b]
                    ELSE piece(b, CHOOSE r \in owners(b) : TRUE)]
    /\ scattered' = scattered + 1
    /\ UNCHANGED <<view, source, canonical>>

\* A mutated form of AbandonPublish.
AbandonKeepsIncoming ==
    /\ source # Nothing /\ scattered < source.nodes
    /\ ~Valid(<<source, scattered>>, view[<<source, scattered>>])
    /\ source' = Nothing /\ scattered' = 0
    /\ UNCHANGED <<view, incoming, canonical>>
\* The source of a node is incomplete: the publication fails and removes the
\* incoming directory.
AbandonPublish ==
    /\ source # Nothing /\ scattered < source.nodes
    /\ ~Valid(<<source, scattered>>, view[<<source, scattered>>])
    /\ source' = Nothing /\ scattered' = 0 /\ incoming' = Nothing
    /\ UNCHANGED <<view, canonical>>

\* Every node is scattered: the incoming directory becomes the artifact.
InstallArtifact ==
    /\ source # Nothing /\ scattered = source.nodes
    /\ canonical' = incoming
    /\ source' = Nothing /\ scattered' = 0 /\ incoming' = Nothing
    /\ UNCHANGED view

\* The artifact is removed from the shared disk.
RemoveArtifact ==
    /\ canonical # Nothing
    /\ canonical' = Nothing
    /\ UNCHANGED <<view, source, scattered, incoming>>

\* The files materialize_node_from_canonical writes: a slice past the last
\* layer or head of the page is cut short.
Sliced(slot) ==
    LET t == slot[1]
        ranks == RankCoordinates(t, slot[2])
        rankOf(name) == CHOOSE r \in ranks : FileName(t, r) = name
        file(r) ==
            LET slice == Region(t, r) \cap Bytes
            IN  [local \in {Local(t, r, b) : b \in slice} |->
                    canonical[CHOOSE b \in slice : Local(t, r, b) = local]]
    IN  [name \in {FileName(t, r) : r \in ranks} |-> file(rankOf(name))]

Materialize(slot) ==
    /\ canonical # Nothing /\ ~Valid(slot, view[slot])
    /\ Valid(slot, Sliced(slot))
    /\ view' = [view EXCEPT ![slot] = Sliced(slot)]
    /\ UNCHANGED <<source, scattered, incoming, canonical>>

\* compatible_local_cache_records and materialize_node_from_peer: the files of
\* a directory whose inventory is the one expected here, as they are.  Of the
\* artifact only the manifest read at the hydration's start is needed.
PeerCopy(from, to) ==
    /\ ~Valid(to, view[to])
    /\ Expected(from) = Expected(to) /\ Valid(to, view[from])
    /\ view' = [view EXCEPT ![to] = view[from]]
    /\ UNCHANGED <<source, scattered, incoming, canonical>>

Next ==
    \/ \E s \in Slots : Prefill(s) \/ Drop(s) \/ Materialize(s)
    \/ \E from, to \in Slots : PeerCopy(from, to)
    \/ \E t \in Topologies : StartPublish(t)
    \/ ScatterNode \/ AbandonPublish \/ InstallArtifact \/ RemoveArtifact

Spec == Init /\ [][Next]_vars

-----------------------------------------------------------------------------
\* The shapes of the variables; an incoming page exists exactly while a
\* publication runs (controller.py removes or renames its directory).
TypeOK ==
    /\ DOMAIN view = Slots
    /\ source \in Topologies \cup {Nothing}
    /\ scattered \in IF source = Nothing THEN {0} ELSE 0..source.nodes
    /\ source = Nothing <=> incoming = Nothing
    /\ incoming # Nothing => incoming \in [Bytes -> Bytes \cup {Nothing}]
    /\ canonical # Nothing => canonical \in [Bytes -> Bytes \cup {Nothing}]

\* Whatever topology an artifact was published from, each byte of its page is
\* the one of its own layer and head: no zero is left, none is misplaced
\* (scatter_node_to_canonical; the format has no checksum of the contents).
CanonicalIsRight == canonical # Nothing => \A b \in Bytes : canonical[b] = b

\* A view holds what an engine of its topology would have stored there itself,
\* by prefill, from the artifact or from a peer: the caches are
\* interchangeable (materialize_node_from_canonical,
\* compatible_local_cache_records).
ViewsAreRight ==
    \A s \in Slots : Valid(s, view[s]) => view[s] = EngineFiles(s)

\* The pieces of the scattered nodes are disjoint, each as large as the size
\* computed for its file and counted by a name of its own, and what they cover
\* is what is written: when the last node is done, counting pieces has been
\* enough (local_file_size, the check of written_rank_pieces).
PiecesAddUp ==
    source # Nothing =>
        LET nodes == 0..(scattered - 1)
            ranks == UNION {RankCoordinates(source, n) : n \in nodes}
        IN  /\ {b \in Bytes : incoming[b] # Nothing}
                   = UNION {Region(source, r) : r \in ranks}
            /\ \A r \in ranks :
                   Cardinality(Region(source, r)) = FileSize(source, r)
            /\ \A q, r \in ranks :
                   q # r => Region(source, q) \cap Region(source, r) = {}
            /\ \A n \in nodes :
                   Cardinality(RankCoordinates(source, n))
                       = Cardinality(Expected(<<source, n>>))
=============================================================================
