------------------------------- MODULE Prepare -------------------------------
(***************************************************************************)
(* controller.py, prepare_cache_aware_config: commands that look at the    *)
(* nodes of their bookings, place the targets of a configuration, one to a *)
(* node, look them up, promote live caches to Disk, hydrate and copy model *)
(* weights.  They share nodes, memory and the registry, and reserve none.  *)
(*                                                                         *)
(* All commands prepare one configuration; its targets are numbered in the *)
(* order of planned_materializations.  What the registry and Disk hold is  *)
(* one value.  A node's memory is its free bytes, the target whose view is *)
(* complete at each path, and whether the model's weights are.             *)
(***************************************************************************)
EXTENDS Naturals, Sequences, FiniteSets, Sums

CONSTANTS
    Preparations,   \* invocations of prepare_cache_aware_config
    Nodes,
    Candidates,     \* nodes of the running bookings, as squeue lists them
    DryRun,         \* preparations that only plan
    N,              \* number of targets
    Gpus, Bytes,    \* GPUs and bytes each target takes
    Paths, PathOf,  \* instance directories, and that of each target
    GpuCount,       \* GPUs of each node
    Left,           \* seconds each booking lasts; without end is a long time
    MinLeft,        \* min_time_left_seconds
    WeightsEnabled, ModelBytes,
    KvReserve, WeightReserve,
    EngineBytes,    \* what an engine may store while it runs
    Capacity, InitFree, InitAt, InitWeights, InitDisk,
    Unsteady,       \* bound: nodes that get an engine or reboot
    MaxUpsets,      \* bound on what happens to nodes, registry and Disk
    None            \* no command, target or assignment

Targets == 1..N

ASSUME TargetAssumption ==
    /\ N \in Nat \ {0}
    /\ Bytes \in [Targets -> Nat] /\ Gpus \in [Targets -> Nat]
    /\ PathOf \in [Targets -> Paths]
ASSUME NodeAssumption ==
    /\ Candidates \in [Preparations -> Seq(Nodes)]
    /\ GpuCount \in [Nodes -> Nat] /\ Left \in [Nodes -> Nat]
ASSUME ByteAssumption ==
    /\ MinLeft \in Nat /\ ModelBytes \in Nat /\ EngineBytes \subseteq Nat
    /\ KvReserve \in Nat /\ WeightReserve \in Nat
    /\ WeightsEnabled \in BOOLEAN
    /\ ~WeightsEnabled => ModelBytes = 0 /\ WeightReserve = 0
ASSUME InitAssumption ==
    /\ Capacity \in [Nodes -> Nat] /\ InitFree \in [Nodes -> Nat]
    /\ InitAt \in [Nodes -> [Paths -> Targets \cup {None}]]
    /\ InitWeights \in [Nodes -> BOOLEAN]
    /\ InitDisk \subseteq {"unregistered", "missing", "complete", "invalid"}
    /\ Unsteady \subseteq Nodes /\ MaxUpsets \in Nat
ASSUME NoneAssumption ==
    None \notin Preparations \cup Targets \cup [Targets -> Nodes]

VARIABLES
    pc,         \* where each preparation is
    phase,      \* whether it fills in KV views or weights
    cand,       \* the candidate it is at
    tgt,        \* the target it is at
    snap,       \* what it has seen of each node
    todo,       \* assignments it has not yet scored
    best,       \* the best one so far, then its plan
    seen,       \* targets that its lookup found valid
    hit,        \* its lookup found the artifact on Disk
    promoted,   \* it has published live caches
    prefill,    \* its answer is "run_prefill_then_publish"
    lock,       \* who holds the registry's lock
    disk,       \* the registry's entry and the artifact it names
    at,         \* the target whose view is complete at each path of a node
    weights,    \* nodes whose weight cache is valid
    free,       \* free bytes of each node's /dev/shm
    busy,       \* nodes with a GPU process
    boot,       \* boots of each node
    upsets

progress == <<pc, phase, cand, tgt>>
planning == <<snap, todo, best>>
looking == <<seen, hit, promoted, prefill, lock>>
memory == <<at, weights, free>>
outside == <<busy, boot, upsets>>
vars == <<progress, planning, looking, disk, memory, outside>>

Seen == [idle : BOOLEAN, free : Nat, cached : SUBSET Targets,
         weights : BOOLEAN, boot : Nat]
Unseen == [idle |-> FALSE, free |-> 0, cached |-> {}, weights |-> FALSE,
           boot |-> 0]

\* The steps of a worker, those that call one, and the rest.
InWorker == {"check", "fill"}
Remote == {"status", "probe", "weigh", "look", "promote", "ask", "inspect"}
              \cup InWorker
Running ==
    {"choose", "assign", "resolve", "lookup", "hydrate", "record"}
        \cup Remote
Terminal == {"done", "dry_run", "refused", "no_space", "failed", "left"}
\* A plan has been made.
Planned == {"resolve", "lookup", "look", "promote", "hydrate", "record",
            "ask", "inspect"} \cup InWorker

Candidate(p) == Candidates[p][cand[p]]
Place(p) == best[p][tgt[p]]
Cached(n, t) == at[n][PathOf[t]] = t

TypeOK ==
    /\ pc \in [Preparations -> Running \cup Terminal]
    /\ phase \in [Preparations -> {"kv", "weights"}]
    /\ cand \in [Preparations -> Nat]
    /\ tgt \in [Preparations -> Nat]
    /\ \A p \in Preparations :
           /\ pc[p] \in {"status", "probe", "weigh"} =>
                  cand[p] \in 1..Len(Candidates[p])
           /\ pc[p] \in {"status", "probe", "hydrate", "record", "ask",
                        "inspect", "left"} \cup InWorker =>
                  tgt[p] \in Targets
           /\ pc[p] = "look" => tgt[p] \in 1..N + 1
           /\ pc[p] \in Planned \cup {"done", "left"} => best[p] # None
    /\ snap \in [Preparations -> [Nodes -> Seen]]
    /\ todo \in [Preparations -> SUBSET [Targets -> Nodes]]
    /\ best \in [Preparations -> [Targets -> Nodes] \cup {None}]
    /\ seen \in [Preparations -> SUBSET Targets]
    /\ hit \in [Preparations -> BOOLEAN]
    /\ promoted \in [Preparations -> BOOLEAN]
    /\ prefill \in [Preparations -> BOOLEAN]
    /\ lock \in Preparations \cup {None}
    /\ disk \in {"unregistered", "missing", "complete", "invalid"}
    /\ at \in [Nodes -> [Paths -> Targets \cup {None}]]
    /\ weights \in [Nodes -> BOOLEAN]
    /\ free \in [Nodes -> Nat]
    /\ busy \in [Nodes -> BOOLEAN]
    /\ boot \in [Nodes -> Nat]
    /\ upsets \in 0..MaxUpsets

Init ==
    /\ pc = [p \in Preparations |->
                 IF Candidates[p] = <<>> THEN "choose" ELSE "status"]
    /\ phase = [p \in Preparations |-> "kv"]
    /\ cand = [p \in Preparations |-> 1]
    /\ tgt = [p \in Preparations |-> 1]
    /\ snap = [p \in Preparations |-> [n \in Nodes |-> Unseen]]
    /\ todo = [p \in Preparations |-> {}]
    /\ best = [p \in Preparations |-> None]
    /\ seen = [p \in Preparations |-> {}]
    /\ hit = [p \in Preparations |-> FALSE]
    /\ promoted = [p \in Preparations |-> FALSE]
    /\ prefill = [p \in Preparations |-> FALSE]
    /\ lock = None
    /\ disk \in InitDisk
    /\ at = InitAt
    /\ weights = InitWeights
    /\ free = InitFree
    /\ busy = [n \in Nodes |-> FALSE]
    /\ boot = [n \in Nodes |-> 1]
    /\ upsets = 0

Goto(p, source, target) ==
    /\ pc[p] = source
    /\ pc' = [pc EXCEPT ![p] = target]

-----------------------------------------------------------------------------
\* Placement: what a preparation makes of what it saw.

\* The nodes that are neither busy nor lost too soon.
Eligible(p) ==
    {n \in Nodes : /\ \E i \in DOMAIN Candidates[p] : Candidates[p][i] = n
                   /\ snap[p][n].idle
                   /\ Left[n] >= MinLeft}

\* itertools.permutations(eligible, len(targets))
Assignments(p) ==
    {a \in [Targets -> Eligible(p)] :
        \A s, t \in Targets : s # t => a[s] # a[t]}

\* Mutated form of the operation below.
NeededForKv(p, t, n) ==
    KvReserve + (IF t \in snap[p][n].cached THEN 0 ELSE Bytes[t])
        + (IF snap[p][n].weights THEN 0 ELSE ModelBytes)

MaxReserve == IF KvReserve > WeightReserve THEN KvReserve ELSE WeightReserve
Needed(p, t, n) ==
    MaxReserve + (IF t \in snap[p][n].cached THEN 0 ELSE Bytes[t])
        + (IF snap[p][n].weights THEN 0 ELSE ModelBytes)

Fits(p, a) ==
    \A t \in Targets : /\ GpuCount[a[t]] = Gpus[t]
                       /\ snap[p][a[t]].free >= Needed(p, t, a[t])

\* Hits, weight hits, lifetime and free bytes of an assignment.
Score(p, a) ==
    <<Cardinality({t \in Targets : t \in snap[p][a[t]].cached}),
      Cardinality({t \in Targets : snap[p][a[t]].weights}),
      SumOf([t \in Targets |-> Left[a[t]]]),
      SumOf([t \in Targets |-> snap[p][a[t]].free])>>

\* The order of tuples.
Exceeds(s, r) ==
    \E i \in DOMAIN s : s[i] > r[i] /\ \A j \in 1..i - 1 : s[j] = r[j]

\* The order in which the loop comes to assignments.
Position(p, n) == CHOOSE i \in DOMAIN Candidates[p] : Candidates[p][i] = n
Before(p, a, b) ==
    \E t \in Targets : /\ Position(p, a[t]) < Position(p, b[t])
                       /\ \A s \in 1..t - 1 : a[s] = b[s]

\* Mutated form of the operation below.
TakesLast(p, a) ==
    Fits(p, a) /\ (best[p] = None \/ ~Exceeds(Score(p, best[p]), Score(p, a)))

\* if best is None or score > best[0]
Takes(p, a) ==
    Fits(p, a) /\ (best[p] = None \/ Exceeds(Score(p, a), Score(p, best[p])))

-----------------------------------------------------------------------------
\* Discovery: the status of every candidate, then its caches.

\* An error counts as busy, and of a busy node nothing more is used.
AskStatus(p) ==
    /\ Goto(p, "status",
            IF cand[p] < Len(Candidates[p]) THEN "status" ELSE "probe")
    /\ \/ UNCHANGED snap
       \/ /\ ~busy[Candidate(p)]
          /\ snap' = [snap EXCEPT
                          ![p][Candidate(p)] =
                              [idle |-> TRUE, free |-> free[Candidate(p)],
                               cached |-> {}, weights |-> FALSE,
                               boot |-> boot[Candidate(p)]]]
    /\ cand' = [cand EXCEPT
                    ![p] = IF @ < Len(Candidates[p]) THEN @ + 1 ELSE 1]
    /\ UNCHANGED <<phase, tgt, todo, best, looking, disk, memory, outside>>

\* An error counts as a miss.
ProbeCache(p) ==
    /\ Goto(p, "probe",
            IF tgt[p] < N \/ cand[p] < Len(Candidates[p]) THEN "probe"
            ELSE IF WeightsEnabled THEN "weigh" ELSE "choose")
    /\ \/ UNCHANGED snap
       \/ /\ snap[p][Candidate(p)].idle
          /\ GpuCount[Candidate(p)] = Gpus[tgt[p]]
          /\ Cached(Candidate(p), tgt[p])
          /\ snap' = [snap EXCEPT ![p][Candidate(p)].cached = @ \cup {tgt[p]}]
    /\ tgt' = [tgt EXCEPT ![p] = IF @ < N THEN @ + 1 ELSE 1]
    /\ cand' = [cand EXCEPT
                    ![p] = IF tgt[p] < N THEN @
                           ELSE IF @ < Len(Candidates[p]) THEN @ + 1 ELSE 1]
    /\ UNCHANGED <<phase, todo, best, looking, disk, memory, outside>>

ProbeWeights(p) ==
    /\ Goto(p, "weigh",
            IF cand[p] < Len(Candidates[p]) THEN "weigh" ELSE "choose")
    /\ \/ UNCHANGED snap
       \/ /\ snap[p][Candidate(p)].idle
          /\ weights[Candidate(p)]
          /\ snap' = [snap EXCEPT ![p][Candidate(p)].weights = TRUE]
    /\ cand' = [cand EXCEPT
                    ![p] = IF @ < Len(Candidates[p]) THEN @ + 1 ELSE 1]
    /\ UNCHANGED <<phase, tgt, todo, best, looking, disk, memory, outside>>

-----------------------------------------------------------------------------
\* choose_placement: a lookup, then one assignment after the other.

Choose(p) ==
    /\ Goto(p, "choose", "assign")
    /\ lock = None
    /\ Cardinality(Eligible(p)) >= N
    /\ todo' = [todo EXCEPT ![p] = Assignments(p)]
    /\ UNCHANGED <<phase, cand, tgt, snap, best, looking, disk, memory,
                   outside>>

TooFewNodes(p) ==
    /\ Goto(p, "choose", "refused")
    /\ lock = None
    /\ Cardinality(Eligible(p)) < N
    /\ UNCHANGED <<phase, cand, tgt, planning, looking, disk, memory, outside>>

Consider(p) ==
    /\ pc[p] = "assign"
    /\ \E a \in todo[p] :
           /\ \A b \in todo[p] \ {a} : Before(p, a, b)
           /\ todo' = [todo EXCEPT ![p] = @ \ {a}]
           /\ best' = [best EXCEPT ![p] = IF Takes(p, a) THEN a ELSE @]
    /\ UNCHANGED <<progress, snap, looking, disk, memory, outside>>

\* "no placement has enough /dev/shm capacity"
Decide(p) ==
    /\ Goto(p, "assign", IF best[p] = None THEN "refused" ELSE "resolve")
    /\ todo[p] = {}
    /\ UNCHANGED <<phase, cand, tgt, planning, looking, disk, memory, outside>>

\* The plan is returned, or the resolved configuration written.
Resolve(p) ==
    /\ Goto(p, "resolve", IF p \in DryRun THEN "dry_run" ELSE "lookup")
    /\ UNCHANGED <<phase, cand, tgt, planning, looking, disk, memory, outside>>

-----------------------------------------------------------------------------
\* lookup_checkpoint, which holds the lock while it probes.

AfterKv == IF WeightsEnabled THEN "ask" ELSE "done"

OpenLookup(p) ==
    /\ Goto(p, "lookup", "look")
    /\ lock = None
    /\ disk # "invalid"
    /\ lock' = p
    /\ hit' = [hit EXCEPT ![p] = disk = "complete"]
    /\ seen' = [seen EXCEPT ![p] = {}]
    /\ tgt' = [tgt EXCEPT ![p] = 1]
    /\ UNCHANGED <<phase, cand, planning, promoted, prefill, disk, memory,
                   outside>>

\* An invalid entry answers before any probe.
FindInvalid(p) ==
    /\ Goto(p, "lookup", AfterKv)
    /\ lock = None
    /\ disk = "invalid"
    /\ prefill' = [prefill EXCEPT ![p] = TRUE]
    /\ phase' = [phase EXCEPT ![p] = "weights"]
    /\ tgt' = [tgt EXCEPT ![p] = 1]
    /\ UNCHANGED <<cand, planning, seen, hit, promoted, lock, disk, memory,
                   outside>>

\* An error counts as a miss here too.
Look(p) ==
    /\ Goto(p, "look", "look")
    /\ tgt[p] <= N
    /\ \/ UNCHANGED seen
       \/ /\ Cached(Place(p), tgt[p])
          /\ seen' = [seen EXCEPT ![p] = @ \cup {tgt[p]}]
    /\ tgt' = [tgt EXCEPT ![p] = @ + 1]
    /\ UNCHANGED <<phase, cand, planning, hit, promoted, prefill, lock, disk,
                   memory, outside>>

\* Mutated form of the operation below.
SomeSeen(p) == seen[p] # {}

AllSeen(p) == seen[p] = Targets

\* Mutated form of the operation below.
AnswerInLock(p, next) ==
    /\ tgt[p] > N
    /\ Goto(p, "look", next)
    /\ tgt' = [tgt EXCEPT ![p] = 1]
    /\ seen' = [seen EXCEPT ![p] = {}]
    /\ hit' = [hit EXCEPT ![p] = FALSE]
    /\ UNCHANGED <<lock, cand, planning, promoted, memory, outside>>

\* The end of the lookup, and what prepare_cache_aware_config does next.
AnswerTo(p, next) ==
    /\ tgt[p] > N
    /\ Goto(p, "look", next)
    /\ tgt' = [tgt EXCEPT ![p] = 1]
    /\ lock' = None
    /\ seen' = [seen EXCEPT ![p] = {}]
    /\ hit' = [hit EXCEPT ![p] = FALSE]
    /\ UNCHANGED <<cand, planning, promoted, memory, outside>>

AnswerHit(p) ==
    /\ AnswerTo(p, IF AllSeen(p) THEN AfterKv ELSE "hydrate")
    /\ hit[p]
    /\ phase' = [phase EXCEPT ![p] = IF AllSeen(p) THEN "weights" ELSE @]
    /\ UNCHANGED <<prefill, disk>>

\* Live caches without an artifact: an unknown configuration is adopted.
AnswerPromotable(p) ==
    /\ AnswerTo(p, "promote")
    /\ ~hit[p] /\ AllSeen(p) /\ ~promoted[p]
    /\ disk' = IF disk = "unregistered" THEN "missing" ELSE disk
    /\ UNCHANGED <<phase, prefill>>

\* "run_prefill_then_publish"
AnswerPrefill(p) ==
    /\ AnswerTo(p, AfterKv)
    /\ ~hit[p] /\ (AllSeen(p) => promoted[p])
    /\ phase' = [phase EXCEPT ![p] = "weights"]
    /\ prefill' = [prefill EXCEPT ![p] = TRUE]
    /\ disk' = IF disk = "unregistered" /\ AllSeen(p) THEN "missing" ELSE disk

\* publish_checkpoint_to_disk reads every view and registers the artifact.
PublishAnswers(p) ==
    /\ Goto(p, "promote", "lookup")
    /\ lock = None
    /\ \A t \in Targets : Cached(best[p][t], t)
    /\ disk' = "complete"
    /\ promoted' = [promoted EXCEPT ![p] = TRUE]
    /\ UNCHANGED <<phase, cand, tgt, planning, seen, hit, prefill, lock,
                   memory, outside>>

-----------------------------------------------------------------------------
\* hydrate_config_from_disk, then materialize_configured_weights: all nodes
\* are asked, then a worker on each brings what is missing.

\* The lookup of the hydration.
BeginHydration(p) ==
    /\ Goto(p, "hydrate", IF disk = "complete" THEN "ask" ELSE "failed")
    /\ lock = None
    /\ UNCHANGED <<phase, cand, tgt, planning, looking, disk, memory, outside>>

\* Mutated form of the operation below.
NextTargetAlways(p) == tgt' = [tgt EXCEPT ![p] = @ + 1]

NextTarget(p) == tgt' = [tgt EXCEPT ![p] = IF @ < N THEN @ + 1 ELSE 1]

AskIdle(p) ==
    /\ Goto(p, "ask", IF busy[Place(p)] THEN "failed"
                      ELSE IF tgt[p] < N THEN "ask" ELSE "check")
    /\ NextTarget(p)
    /\ UNCHANGED <<phase, cand, planning, looking, disk, memory, outside>>

\* What the worker of a target is to bring, and what it must leave free.
Here(p) == IF phase[p] = "kv" THEN Cached(Place(p), tgt[p])
           ELSE weights[Place(p)]
Size(p) == IF phase[p] = "kv" THEN Bytes[tgt[p]] ELSE ModelBytes
Reserve(p) == IF phase[p] = "kv" THEN KvReserve ELSE WeightReserve

\* Workers for the same path of a node take turns.
SamePath(p, q) ==
    /\ Place(p) = Place(q)
    /\ phase[p] = phase[q]
    /\ phase[p] = "kv" => PathOf[tgt[p]] = PathOf[tgt[q]]
Turn(p) == \A q \in Preparations \ {p} : pc[q] = "fill" => ~SamePath(p, q)

\* On to the next target, then to the registry or to the inspection.
Advance(p, source) ==
    /\ NextTarget(p)
    /\ Goto(p, source, IF tgt[p] < N THEN "check"
                       ELSE IF phase[p] = "kv" THEN "record" ELSE "inspect")
    /\ phase' = [phase EXCEPT ![p] = IF tgt[p] < N THEN @ ELSE "weights"]

\* "already_present", or found by the controller's own inspection.
FindPresent(p) ==
    /\ Advance(p, "check")
    /\ Turn(p)
    /\ Here(p)
    /\ UNCHANGED <<cand, planning, looking, disk, memory, outside>>

\* The worker prunes the view of another target from the path.
OthersView(p) ==
    IF phase[p] = "kv" THEN at[Place(p)][PathOf[tgt[p]]] ELSE None
FreeAfterPruning(p) ==
    free[Place(p)] + (IF OthersView(p) = None THEN 0 ELSE Bytes[OthersView(p)])
Prune(p) ==
    /\ free' = [free EXCEPT ![Place(p)] = FreeAfterPruning(p)]
    /\ at' = IF phase[p] = "kv"
             THEN [at EXCEPT ![Place(p)][PathOf[tgt[p]]] = None] ELSE at

CheckSpace(p) ==
    /\ Goto(p, "check", IF FreeAfterPruning(p) >= Size(p) + Reserve(p)
                        THEN "fill" ELSE "no_space")
    /\ Turn(p)
    /\ ~Here(p)
    /\ Prune(p)
    /\ UNCHANGED <<phase, cand, tgt, planning, looking, disk, weights,
                   outside>>

\* What a worker for p's target has done when it ends well.
Bring(p) ==
    /\ Size(p) <= free[Place(p)]
    /\ free' = [free EXCEPT ![Place(p)] = @ - Size(p)]
    /\ IF phase[p] = "kv"
       THEN /\ at' = [at EXCEPT ![Place(p)][PathOf[tgt[p]]] = tgt[p]]
            /\ UNCHANGED weights
       ELSE /\ weights' = [weights EXCEPT ![Place(p)] = TRUE]
            /\ UNCHANGED at

Fill(p) ==
    /\ Advance(p, "fill")
    /\ Bring(p)
    /\ UNCHANGED <<cand, planning, looking, disk, outside>>

\* Others took the memory after the check.
FillRunsOut(p) ==
    /\ Goto(p, "fill", "no_space")
    /\ Size(p) > free[Place(p)]
    /\ UNCHANGED <<phase, cand, tgt, planning, looking, disk, memory, outside>>

\* record_local_caches; its rows are in Hydrate.
RecordRows(p) ==
    /\ Goto(p, "record", AfterKv)
    /\ lock = None
    /\ UNCHANGED <<phase, cand, tgt, planning, looking, disk, memory, outside>>

\* inspect_configured_weights
InspectWeights(p) ==
    /\ Goto(p, "inspect", IF ~weights[Place(p)] THEN "failed"
                          ELSE IF tgt[p] < N THEN "inspect" ELSE "done")
    /\ NextTarget(p)
    /\ UNCHANGED <<phase, cand, planning, looking, disk, memory, outside>>

-----------------------------------------------------------------------------
\* An error or a kill ends a preparation: what it knew is gone and its lock
\* given back, but the worker it had called may run on.
Stops(p) ==
    /\ \/ /\ Goto(p, pc[p], "failed")
          /\ tgt' = [tgt EXCEPT ![p] = 1]
       \/ /\ pc[p] \in InWorker
          /\ Goto(p, pc[p], "left")
          /\ UNCHANGED tgt
    /\ cand' = [cand EXCEPT ![p] = 1]
    /\ snap' = [snap EXCEPT ![p] = [n \in Nodes |-> Unseen]]
    /\ todo' = [todo EXCEPT ![p] = {}]
    /\ seen' = [seen EXCEPT ![p] = {}]
    /\ lock' = IF lock = p THEN None ELSE lock
    /\ UNCHANGED <<phase, best, hit, promoted, prefill, disk, memory, outside>>

\* A call fails or times out, and nobody catches it.
CallFails(p) ==
    pc[p] \in {"look", "promote", "ask", "inspect"} \cup InWorker /\ Stops(p)

Step(p) ==
    \/ AskStatus(p) \/ ProbeCache(p) \/ ProbeWeights(p)
    \/ Choose(p) \/ TooFewNodes(p) \/ Consider(p) \/ Decide(p) \/ Resolve(p)
    \/ OpenLookup(p) \/ FindInvalid(p) \/ Look(p)
    \/ AnswerHit(p) \/ AnswerPromotable(p) \/ AnswerPrefill(p)
    \/ PublishAnswers(p) \/ BeginHydration(p) \/ AskIdle(p)
    \/ FindPresent(p) \/ CheckSpace(p) \/ Fill(p) \/ FillRunsOut(p)
    \/ RecordRows(p) \/ InspectWeights(p) \/ CallFails(p)

Kill(p) == pc[p] \in Running /\ Stops(p)

\* A worker left behind ends well after all.
LeftFills(p) ==
    /\ Goto(p, "left", "failed")
    /\ Turn(p)
    /\ ~Here(p)
    /\ OthersView(p) = None
    /\ Bring(p)
    /\ UNCHANGED <<phase, cand, tgt, planning, looking, disk, outside>>

Upset == upsets < MaxUpsets /\ upsets' = upsets + 1

EngineRuns(n) ==
    /\ Upset
    /\ ~busy[n]
    /\ busy' = [busy EXCEPT ![n] = TRUE]
    /\ \E bytes \in EngineBytes :
           /\ bytes <= free[n]
           /\ free' = [free EXCEPT ![n] = @ - bytes]
    /\ UNCHANGED <<progress, planning, looking, disk, at, weights, boot>>

EngineEnds(n) ==
    /\ busy[n]
    /\ busy' = [busy EXCEPT ![n] = FALSE]
    /\ UNCHANGED <<progress, planning, looking, disk, memory, boot, upsets>>

\* Workers on the node die, their calls fail.
Reboot(n) ==
    /\ Upset
    /\ boot' = [boot EXCEPT ![n] = @ + 1]
    /\ busy' = [busy EXCEPT ![n] = FALSE]
    /\ at' = [at EXCEPT ![n] = [q \in Paths |-> None]]
    /\ weights' = [weights EXCEPT ![n] = FALSE]
    /\ free' = [free EXCEPT ![n] = Capacity[n]]
    /\ pc' = [p \in Preparations |->
                  IF pc[p] \in {"left"} \cup InWorker /\ Place(p) = n
                  THEN "failed" ELSE pc[p]]
    /\ UNCHANGED <<phase, cand, tgt, planning, looking, disk>>

\* Other commands register or invalidate, and the artifact may be lost.
StoreChanges ==
    /\ Upset
    /\ \/ lock = None /\ disk' \in {"complete", "invalid"} \ {disk}
       \/ disk = "complete" /\ disk' = "missing"
    /\ UNCHANGED <<progress, planning, looking, memory, busy, boot>>

Done == \A p \in Preparations : pc[p] \in Terminal

Next ==
    \/ \E p \in Preparations : Step(p) \/ Kill(p) \/ LeftFills(p)
    \/ \E n \in Unsteady : EngineRuns(n) \/ EngineEnds(n) \/ Reboot(n)
    \/ StoreChanges
    \/ Done /\ UNCHANGED vars

\* Preparations are scheduled, and every call answers, fails or times out.
Fairness == \A p \in Preparations : WF_vars(Step(p))

Spec == Init /\ [][Next]_vars
FairSpec == Spec /\ Fairness
-----------------------------------------------------------------------------
(***************************************************************************)
(* Properties.                                                             *)
(***************************************************************************)

\* Of the assignments considered so far, the plan is the one that fits and has
\* the most hits, then weight hits, then lifetime, then free memory, and the
\* first of several equals; without a plan none fits.
PlanIsBest ==
    \A p \in Preparations : pc[p] \in {"assign", "resolve"} =>
        LET fitting == {a \in Assignments(p) \ todo[p] : Fits(p, a)}
        IN  IF best[p] = None THEN fitting = {}
            ELSE /\ best[p] \in fitting
                 /\ \A a \in fitting \ {best[p]} :
                        \/ Exceeds(Score(p, best[p]), Score(p, a))
                        \/ Score(p, best[p]) = Score(p, a)
                           /\ Before(p, best[p], a)

\* Bytes of a plan's target and of the model that were found, or are, on its
\* node.
Found(p, t) ==
    LET s == snap[p][best[p][t]]
    IN  (IF t \in s.cached THEN Bytes[t] ELSE 0)
        + (IF s.weights THEN ModelBytes ELSE 0)
Held(p, t) ==
    (IF Cached(best[p][t], t) THEN Bytes[t] ELSE 0)
    + (IF weights[best[p][t]] THEN ModelBytes ELSE 0)

\* A planned node has room for all that is brought to it, views and weights
\* with their reserves: who runs out of space shares the node with something
\* that took memory since its status was asked.
ShortageIsOthers ==
    [][\A p \in Preparations : pc[p] # "no_space" /\ pc'[p] = "no_space" =>
           free[Place(p)] + Held(p, tgt[p])
               < snap[p][Place(p)].free + Found(p, tgt[p])]_vars

\* Another preparation has planned another target at the node.
Shared(p, t) ==
    \E q \in Preparations \ {p} : best[q] # None /\
        \E s \in Targets \ {t} : best[q][s] = best[p][t]

\* A preparation that ends and does not ask for a prefill leaves every view of
\* its plan on its node, unless the node has rebooted since or another
\* preparation has plans for it; weights stay in any case.
DoneIsPrepared ==
    \A p \in Preparations : pc[p] = "done" =>
        \A t \in Targets :
            boot[best[p][t]] = snap[p][best[p][t]].boot =>
                /\ WeightsEnabled => weights[best[p][t]]
                /\ prefill[p] \/ Shared(p, t) \/ Cached(best[p][t], t)

\* Every preparation ends, although lookups keep others out.
Termination == <>[]Done
=============================================================================
