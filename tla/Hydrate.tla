------------------------------- MODULE Hydrate -------------------------------
(***************************************************************************)
(* controller.py, hydrate_config_from_disk: controllers that bring the     *)
(* views of their configuration into the RAM of its nodes, reusing what is *)
(* there, copying from peers the registry knows, or slicing the canonical  *)
(* artifact, and that record what they found and made.                     *)
(*                                                                         *)
(* A target is a place, one path on one node, and a kind, the inventory of *)
(* rank files wanted there.  Configurations whose instances have the same  *)
(* name share a place and may want different kinds in it.  Of workers no   *)
(* more is assumed than LocalView promises, which LocalInstall implements: *)
(* a view comes and goes, but one that was reported stays until the reboot *)
(* or until a worker for another kind prunes it.                           *)
(***************************************************************************)
EXTENDS Naturals, Sequences

CONSTANTS
    Hydrations,     \* invocations of hydrate_config_from_disk
    Nodes, Places, Kinds,
    NodeOf,         \* the node of each place
    Plan,           \* planned_materializations of each hydration
    Mats, MatOf,    \* materialization fingerprints of the configurations
    AllowBusy,      \* hydrations that may use busy nodes
    PeerEnabled,    \* those with a peer_transfer policy
    Fallback,       \* those whose policy falls back to Disk
    Known,          \* rows that earlier commands left in the registry
    MaxReboots,     \* bound on reboots of a node
    None            \* no row

Targets == [place : Places, kind : Kinds]

\* A row of the registry; told says that a worker installed or pruned the view
\* under the path's lock, and not that an inspection found it there.
Rows == [mat : Mats, place : Places, kind : Kinds, boot : 0..MaxReboots + 1,
         told : BOOLEAN]

ASSUME RebootsAreCounted == MaxReboots \in Nat
ASSUME PlacesAreOnNodes == NodeOf \in [Places -> Nodes]
ASSUME PlanType ==
    /\ Plan \in [Hydrations -> Seq(Targets)]
    /\ \A h \in Hydrations : Plan[h] # <<>>
ASSUME MatType == MatOf \in [Hydrations -> Mats]
\* The fingerprint of a materialization covers the layout of every instance.
ASSUME MatsFixKinds ==
    \A h, g \in Hydrations :
        MatOf[h] = MatOf[g] =>
            \A i \in DOMAIN Plan[h], j \in DOMAIN Plan[g] :
                Plan[h][i].place = Plan[g][j].place =>
                    Plan[h][i].kind = Plan[g][j].kind
ASSUME PolicyType ==
    /\ AllowBusy \subseteq Hydrations
    /\ Fallback \subseteq PeerEnabled /\ PeerEnabled \subseteq Hydrations
ASSUME KnownIsPast == Known \subseteq Rows /\ \A r \in Known : r.boot = 0
ASSUME NoneIsNotARow == None \notin Rows

VARIABLES
    pc,         \* where each hydration is
    todo,       \* nodes whose status it has not yet asked for
    idx,        \* the target it is at
    cands,      \* rows of peers it has not yet tried for this target
    tried,      \* it has made a peer attempt for this target
    from,       \* the row it copies from
    got,        \* rows gathered for the targets done
    rows,       \* rows of local caches in the registry's entry
    artifact,   \* the canonical artifact can be read
    view,       \* the kinds that are complete at each place
    told,       \* the kinds a worker has reported there since the last boot
    orphans,    \* targets of workers that run on without their controller
    boot        \* each node's boot_id

vars == <<pc, todo, idx, cands, tried, from, got, rows, artifact, view, told,
          orphans, boot>>

At(h) == Plan[h][idx[h]]
Observed(h, byWorker) ==
    [mat |-> MatOf[h], place |-> At(h).place, kind |-> At(h).kind,
     boot |-> boot[NodeOf[At(h).place]], told |-> byWorker]
Present(h) == At(h).kind \in view[At(h).place]

\* _merge_cache_rows: a new row replaces the one of the same target.
SameKey(r, s) == r.mat = s.mat /\ r.place = s.place
\* Mutated form of the operation below.
MergeNothing(existing, additions) == additions
Merge(existing, additions) ==
    {r \in existing : \A a \in additions : ~SameKey(r, a)} \cup additions

\* compatible_local_cache_records, without those the caller skips.
Candidates(h) ==
    {r \in rows : r.kind = At(h).kind /\ r.place # At(h).place}

Calling == {"prune", "peer", "disk"}
PeerPhase == {"source", "peer"}
AtTarget == {"inspect", "candidates"} \cup Calling \cup PeerPhase
Running == {"lookup", "status", "record"} \cup AtTarget
Terminal == {"ready", "failed", "timed_out", "killed"}

TypeOK ==
    /\ pc \in [Hydrations -> Running \cup Terminal]
    /\ todo \in [Hydrations -> SUBSET Nodes]
    /\ idx \in [Hydrations -> Nat]
    /\ \A h \in Hydrations :
           /\ idx[h] \in 1..Len(Plan[h]) + 1
           /\ pc[h] \in AtTarget => idx[h] <= Len(Plan[h])
    /\ cands \in [Hydrations -> SUBSET Rows]
    /\ tried \in [Hydrations -> BOOLEAN]
    /\ from \in [Hydrations -> Rows \cup {None}]
    /\ \A h \in Hydrations : pc[h] = "peer" => from[h] # None
    /\ got \in [Hydrations -> SUBSET Rows]
    /\ rows \subseteq Rows
    /\ artifact \in BOOLEAN
    /\ view \in [Places -> SUBSET Kinds]
    /\ told \in [Places -> SUBSET Kinds]
    /\ orphans \subseteq Targets
    /\ boot \in [Nodes -> 1..MaxReboots + 1]

\* What engines have stored before is as if they stored it now.
Init ==
    /\ pc = [h \in Hydrations |-> "lookup"]
    /\ todo = [h \in Hydrations |-> {}]
    /\ idx = [h \in Hydrations |-> 1]
    /\ cands = [h \in Hydrations |-> {}]
    /\ tried = [h \in Hydrations |-> FALSE]
    /\ from = [h \in Hydrations |-> None]
    /\ got = [h \in Hydrations |-> {}]
    /\ rows = Known
    /\ artifact \in BOOLEAN
    /\ view = [p \in Places |-> {}]
    /\ told = [p \in Places |-> {}]
    /\ orphans = {}
    /\ boot = [n \in Nodes |-> 1]

Goto(h, source, target) ==
    /\ pc[h] = source
    /\ pc' = [pc EXCEPT ![h] = target]

\* Mutated form of the operation below.
GatherPastTheEnd(h, byWorker) ==
    /\ got' = [got EXCEPT ![h] = @ \cup {Observed(h, byWorker)}]
    /\ idx' = [idx EXCEPT ![h] = @ + 1]
    /\ pc' = [pc EXCEPT ![h] =
                  IF idx[h] > Len(Plan[h]) THEN "record" ELSE "inspect"]

\* rows.append(...): on to the next target, or to the registry.
Gather(h, byWorker) ==
    /\ got' = [got EXCEPT ![h] = @ \cup {Observed(h, byWorker)}]
    /\ idx' = [idx EXCEPT ![h] = @ + 1]
    /\ pc' = [pc EXCEPT ![h] =
                  IF idx[h] = Len(Plan[h]) THEN "record" ELSE "inspect"]

\* A worker reports success: the view is there, files of other kinds are not.
Reports(t) ==
    /\ t.kind \in view[t.place]
    /\ view' = [view EXCEPT ![t.place] = {t.kind}]
    /\ told' = [told EXCEPT ![t.place] = {t.kind}]

\* The worker has ended, or it runs on when the connection to it was lost.
EndedOrLeft(t) == orphans' \in {orphans, orphans \cup {t}}

-----------------------------------------------------------------------------
\* Mutated forms of the operations below.
PeerFailureEnds(h) ==
    /\ Goto(h, "peer", "failed")
    /\ from' = [from EXCEPT ![h] = None]
    /\ EndedOrLeft(At(h))
    /\ UNCHANGED <<todo, idx, cands, tried, got, rows, artifact, view, told,
                   boot>>

PeerFailureCounts(h) ==
    /\ pc[h] = "peer"
    /\ Gather(h, TRUE)
    /\ from' = [from EXCEPT ![h] = None]
    /\ EndedOrLeft(At(h))
    /\ UNCHANGED <<todo, cands, tried, rows, artifact, view, told, boot>>

PeerFailureRetries(h) ==
    /\ Goto(h, "peer", "source")
    /\ cands' = [cands EXCEPT ![h] = @ \cup {from[h]}]
    /\ from' = [from EXCEPT ![h] = None]
    /\ EndedOrLeft(At(h))
    /\ UNCHANGED <<todo, idx, tried, got, rows, artifact, view, told, boot>>

-----------------------------------------------------------------------------
\* A canonical hit by the registry and the artifact's manifest.
Lookup(h) ==
    /\ Goto(h, "lookup", "status")
    /\ artifact
    /\ todo' = [todo EXCEPT ![h] =
                    {NodeOf[Plan[h][i].place] : i \in DOMAIN Plan[h]}]
    /\ UNCHANGED <<idx, cands, tried, from, got, rows, artifact, view, told,
                   orphans, boot>>

\* Not registered, or invalid, or the artifact cannot be read.
LookupMisses(h) ==
    /\ Goto(h, "lookup", "failed")
    /\ UNCHANGED <<todo, idx, cands, tried, from, got, rows, artifact, view,
                   told, orphans, boot>>

\* A node says that it is idle, or need not be.
AskNode(h) ==
    /\ \E n \in todo[h] :
           /\ todo' = [todo EXCEPT ![h] = @ \ {n}]
           /\ Goto(h, "status",
                   IF todo[h] = {n} THEN "inspect" ELSE "status")
    /\ UNCHANGED <<idx, cands, tried, from, got, rows, artifact, view, told,
                   orphans, boot>>

RefuseBusy(h) ==
    /\ Goto(h, "status", "failed")
    /\ h \notin AllowBusy
    /\ UNCHANGED <<todo, idx, cands, tried, from, got, rows, artifact, view,
                   told, orphans, boot>>

-----------------------------------------------------------------------------
\* For each target.

FindPresent(h) ==
    /\ pc[h] = "inspect"
    /\ view[At(h).place] = {At(h).kind}
    /\ Gather(h, FALSE)
    /\ UNCHANGED <<todo, cands, tried, from, rows, artifact, view, told,
                   orphans, boot>>

\* Files of another kind, or others that engines stored.
FindUnexpected(h) ==
    /\ Goto(h, "inspect", "prune")
    /\ Present(h)
    /\ UNCHANGED <<todo, idx, cands, tried, from, got, rows, artifact, view,
                   told, orphans, boot>>

FindIncomplete(h) ==
    /\ Goto(h, "inspect", IF h \in PeerEnabled THEN "candidates" ELSE "disk")
    /\ ~Present(h)
    /\ UNCHANGED <<todo, idx, cands, tried, from, got, rows, artifact, view,
                   told, orphans, boot>>

\* The transaction that reads the registry's rows.
ReadCandidates(h) ==
    /\ Goto(h, "candidates", "source")
    /\ cands' = [cands EXCEPT ![h] = Candidates(h)]
    /\ tried' = [tried EXCEPT ![h] = FALSE]
    /\ UNCHANGED <<todo, idx, from, got, rows, artifact, view, told, orphans,
                   boot>>

\* The code tries the row verified last first; any order is allowed here.
SourceValid(h) ==
    /\ Goto(h, "source", "peer")
    /\ \E r \in cands[h] :
           /\ r.kind \in view[r.place]
           /\ from' = [from EXCEPT ![h] = r]
           /\ cands' = [cands EXCEPT ![h] = @ \ {r}]
    /\ tried' = [tried EXCEPT ![h] = TRUE]
    /\ UNCHANGED <<todo, idx, got, rows, artifact, view, told, orphans, boot>>

\* "source_invalid", or its inspection fails.
SourceRefused(h) ==
    /\ Goto(h, "source", "source")
    /\ \E r \in cands[h] : cands' = [cands EXCEPT ![h] = @ \ {r}]
    /\ tried' = [tried EXCEPT ![h] = TRUE]
    /\ UNCHANGED <<todo, idx, from, got, rows, artifact, view, told, orphans,
                   boot>>

PeerAnswers(h) ==
    /\ pc[h] = "peer"
    /\ Reports(At(h))
    /\ Gather(h, TRUE)
    /\ from' = [from EXCEPT ![h] = None]
    /\ UNCHANGED <<todo, cands, tried, rows, artifact, orphans, boot>>

\* except (OSError, RuntimeError, ValueError)
PeerFails(h) ==
    /\ Goto(h, "peer", "source")
    /\ from' = [from EXCEPT ![h] = None]
    /\ EndedOrLeft(At(h))
    /\ UNCHANGED <<todo, idx, cands, tried, got, rows, artifact, view, told,
                   boot>>

PeersExhausted(h) ==
    /\ Goto(h, "source", IF tried[h] /\ h \notin Fallback THEN "failed"
                         ELSE "disk")
    /\ cands[h] = {}
    /\ UNCHANGED <<todo, idx, cands, tried, from, got, rows, artifact, view,
                   told, orphans, boot>>

MaterializeAnswers(h) ==
    /\ pc[h] \in {"prune", "disk"}
    /\ Reports(At(h))
    /\ Gather(h, TRUE)
    /\ UNCHANGED <<todo, cands, tried, from, rows, artifact, orphans, boot>>

PruneFails(h) ==
    /\ Goto(h, "prune", "failed")
    /\ EndedOrLeft(At(h))
    /\ UNCHANGED <<todo, idx, cands, tried, from, got, rows, artifact, view,
                   told, boot>>

FillFails(h) ==
    /\ Goto(h, "disk", "failed")
    /\ EndedOrLeft(At(h))
    /\ UNCHANGED <<todo, idx, cands, tried, from, got, rows, artifact, view,
                   told, boot>>

\* A status or an inspection fails, or the registry cannot be read.
ProbeFails(h) ==
    /\ Goto(h, pc[h], "failed")
    /\ pc[h] \in {"status", "inspect", "candidates"}
    /\ UNCHANGED <<todo, idx, cands, tried, from, got, rows, artifact, view,
                   told, orphans, boot>>

\* subprocess.TimeoutExpired: the worker runs on, and nobody catches it.
CallTimesOut(h) ==
    /\ Goto(h, pc[h], "timed_out")
    /\ \/ pc[h] \in {"status", "inspect"} \cup Calling
       \/ pc[h] = "source" /\ cands[h] # {}
    /\ orphans' = orphans \cup (IF pc[h] \in Calling THEN {At(h)} ELSE {})
    /\ UNCHANGED <<todo, idx, cands, tried, from, got, rows, artifact, view,
                   told, boot>>

\* record_local_caches, with all rows at once.
Record(h) ==
    /\ Goto(h, "record", "ready")
    /\ rows' = Merge(rows, got[h])
    /\ UNCHANGED <<todo, idx, cands, tried, from, got, artifact, view, told,
                   orphans, boot>>

RecordFails(h) ==
    /\ Goto(h, "record", "failed")
    /\ UNCHANGED <<todo, idx, cands, tried, from, got, rows, artifact, view,
                   told, orphans, boot>>

Step(h) ==
    \/ Lookup(h) \/ LookupMisses(h) \/ AskNode(h) \/ RefuseBusy(h)
    \/ FindPresent(h) \/ FindUnexpected(h) \/ FindIncomplete(h)
    \/ ReadCandidates(h) \/ SourceValid(h) \/ SourceRefused(h)
    \/ PeerAnswers(h) \/ PeerFails(h) \/ PeersExhausted(h)
    \/ MaterializeAnswers(h) \/ PruneFails(h) \/ FillFails(h)
    \/ ProbeFails(h) \/ CallTimesOut(h) \/ Record(h) \/ RecordFails(h)

-----------------------------------------------------------------------------
\* What happens at the places meanwhile.

\* The worker a hydration has called installs the view from its source.
WorkerInstalls(h) ==
    /\ \/ pc[h] = "peer" /\ from[h].kind \in view[from[h].place]
       \/ pc[h] \in {"prune", "disk"} /\ artifact
    /\ ~Present(h)
    /\ view' = [view EXCEPT ![At(h).place] = {At(h).kind}]
    /\ told' = [told EXCEPT ![At(h).place] = {}]
    /\ UNCHANGED <<pc, todo, idx, cands, tried, from, got, rows, artifact,
                   orphans, boot>>

\* An engine stores what was missing, or a worker left behind installs it.
Appear(t) ==
    /\ t.kind \notin view[t.place]
    /\ view' = [view EXCEPT ![t.place] = @ \cup {t.kind}]
    /\ UNCHANGED <<pc, todo, idx, cands, tried, from, got, rows, artifact,
                   told, orphans, boot>>

\* Targets some worker may be working at.
Worked ==
    orphans \cup {At(h) : h \in {g \in Hydrations : pc[g] \in Calling}}

\* A worker prunes the files of another kind, reported or not.
Prune(t) ==
    /\ \E k \in view[t.place] \ {t.kind} :
           /\ view' = [view EXCEPT ![t.place] = @ \ {k}]
           /\ told' = [told EXCEPT ![t.place] = @ \ {k}]
    /\ UNCHANGED <<pc, todo, idx, cands, tried, from, got, rows, artifact,
                   orphans, boot>>

\* A view that nobody has reported may go at any time.
Withdraw(t) ==
    /\ t.kind \in view[t.place] \ told[t.place]
    /\ view' = [view EXCEPT ![t.place] = @ \ {t.kind}]
    /\ UNCHANGED <<pc, todo, idx, cands, tried, from, got, rows, artifact,
                   told, orphans, boot>>

\* The artifact is published or lost.
ArtifactChanges ==
    /\ artifact' = ~artifact
    /\ UNCHANGED <<pc, todo, idx, cands, tried, from, got, rows, view, told,
                   orphans, boot>>

Reboot(n) ==
    /\ boot[n] <= MaxReboots
    /\ boot' = [boot EXCEPT ![n] = @ + 1]
    /\ view' = [p \in Places |-> IF NodeOf[p] = n THEN {} ELSE view[p]]
    /\ told' = [p \in Places |-> IF NodeOf[p] = n THEN {} ELSE told[p]]
    /\ orphans' = {t \in orphans : NodeOf[t.place] # n}
    /\ UNCHANGED <<pc, todo, idx, cands, tried, from, got, rows, artifact>>

\* The controller is killed; a worker it has called runs on.
Kill(h) ==
    /\ Goto(h, pc[h], "killed")
    /\ pc[h] \in Running
    /\ orphans' = orphans \cup (IF pc[h] \in Calling THEN {At(h)} ELSE {})
    /\ UNCHANGED <<todo, idx, cands, tried, from, got, rows, artifact, view,
                   told, boot>>

\* What this configuration or an earlier one has wanted somewhere.
Planned ==
    (UNION {{Plan[h][i] : i \in DOMAIN Plan[h]} : h \in Hydrations})
        \cup {[place |-> r.place, kind |-> r.kind] : r \in Known}
Done == \A h \in Hydrations : pc[h] \in Terminal

Next ==
    \/ \E h \in Hydrations : Step(h) \/ WorkerInstalls(h) \/ Kill(h)
    \/ \E t \in Planned : Appear(t) \/ Withdraw(t)
    \/ \E t \in Worked : Prune(t)
    \/ ArtifactChanges
    \/ \E n \in Nodes : Reboot(n)

\* Controllers are scheduled, and every call answers, fails or times out.
Fairness == \A h \in Hydrations : WF_vars(Step(h))

Spec == Init /\ [][Next]_vars
FairSpec == Spec /\ Fairness
-----------------------------------------------------------------------------
(***************************************************************************)
(* Properties.                                                             *)
(***************************************************************************)

\* A hydration has come to its i-th target as far as calling workers there.
Reached(h, i) ==
    \/ i < idx[h]
    \/ i = idx[h] /\ pc[h] \notin {"lookup", "status", "inspect", "candidates"}

\* One that wants another kind at the row's place has come to it.
Rivalled(r) ==
    \E h \in Hydrations : \E i \in DOMAIN Plan[h] :
        /\ Plan[h][i].place = r.place /\ Plan[h][i].kind # r.kind
        /\ Reached(h, i)

\* A row that a hydration holds or has recorded, that a worker answered for in
\* the present boot of its node, names a view that is complete there, although
\* it is kept while other targets are worked at for hours.  Where configurations
\* contend for a place, it does so until a hydration for another kind gets
\* there: neither one that is elsewhere nor what it has left behind elsewhere
\* takes the view away.
RowsStand ==
    \A r \in rows \cup UNION {got[h] : h \in Hydrations} :
        r.told /\ r.boot = boot[NodeOf[r.place]] /\ ~Rivalled(r)
            => r.kind \in view[r.place]

\* What a hydration that ended with "ready" recorded for its targets stays in
\* the registry, whatever other hydrations record.
ReadyIsRecorded ==
    \A h \in Hydrations : pc[h] = "ready" =>
        \A i \in DOMAIN Plan[h] :
            \E r \in rows : /\ r.mat = MatOf[h]
                            /\ r.place = Plan[h][i].place
                            /\ r.kind = Plan[h][i].kind

\* With the fallback on, no error of a peer ends a hydration.
PeerErrorsFallBack ==
    [][\A h \in Fallback : pc[h] \in PeerPhase => pc'[h] # "failed"]_vars

\* With the fallback on, no slow peer ends a hydration either.
SlowPeersFallBack ==
    [][\A h \in Fallback : pc[h] \in PeerPhase => pc'[h] # "timed_out"]_vars

\* Every hydration ends.
Termination == <>[]Done
=============================================================================
