# Verification of the KV-cache orchestrator

TLA+ models of `src/kv_cache_orchestrator`, the TLC runs that check them on
small instances and TLAPS proofs of what matters most for every instance.
File names below are those of `src/kv_cache_orchestrator` unless a directory is
given.

## The system

A controller is a command that runs to its end; several run at once, on
several hosts. It keeps one JSON registry on a shared file system, keeps
canonical KV artifacts on the shared Disk, and starts one short-lived worker
at a time over SSH, on nodes whose `/dev/shm` holds the rank files of SGLang
engines. Nothing is resident: all coordination is `flock`, `rename`, file
sizes, and what the registry says.

| component | state | operations | talks to |
| --- | --- | --- | --- |
| registry file (`registry.py`, `_locked_registry`) | registry, `.tmp`, `.lock` | one read-modify-write transaction, used by every function | all controllers, by the lock |
| registry entries (`registry.py`) | per canonical fingerprint: state, disk backing, rows of local caches | lookup (adopts live caches), register, register Disk, invalidate, list | publish, hydration, placement |
| publish transaction (`controller.py`) | artifact lock, incoming directory, final directory | find existing, scatter each target, verify, manifest, rename, register, clean up | scatter workers, registry |
| materialize transaction (`sglang_format.py`, `peer.py`) | per path: lock, directory, `.incoming-*`, `.old-*` | prune, inspect, reserve, fill, validate, displace, install, restore, sweep | engines on the node (no lock), canonical pages or a peer's directory |
| layout and conversion (`sglang_format.py`) | none: functions of configuration and model | partition, rank coordinates, names, sizes, scatter, slice | publish, materialize |
| hydration (`controller.py`) | rows gathered for each target | busy check, inspect, reuse, peers, Disk fallback, record | registry, workers |
| placement (`controller.py`) | candidates | probe hits, choose, resolve | Slurm, workers |
| preparation (`controller.py`) | resolved configuration | lookup, promote, lookup, hydrate, weights | all of the above |
| weight cache (`weights.py`) | per fingerprint: lock, directory, manifest with boot id | inspect, materialize | node RAM, model source |
| worker, config, cli, Slurm parsing | none | parsing and one call each | |

What makes each correct:

- registry file: no lost update, no half-written file, another schema left
  alone, the lock always given back;
- entries: `complete` means that the named artifact can be read;
- publish: what stands at the artifact's path is whole and immutable although
  only counts and sizes are checked; failures leave nothing behind; a second
  publisher finds the first one's artifact;
- materialize: a view reported as installed stays complete until the reboot;
  a replaced view is not lost before its successor stands; nothing leaks;
- conversion: every byte is the one of its own layer and head, whatever the
  topologies on both sides;
- weight cache: what is reported was read from the declared model, in this
  boot, and stays until the next;
- hydration: rows describe views that exist, a failing peer falls back to Disk,
  nobody's rows are lost;
- placement and preparation: the plan is the best of those that fit, a chosen
  node has room, and a preparation that is done has prepared its nodes, as far
  as others who share them let it.

What is hard: controllers and workers interleave without a coordinator; a
controller that gives up a worker (SSH timeout) leaves it running; processes
die between two renames; engines share directories with workers and take no
lock; nodes reboot; validation sees names and sizes, never contents; what was
probed is stale when used. PROJECT.json lists these hazards line by line with
the properties for each.

## Modules

| module | models | extends or refines |
| --- | --- | --- |
| `AtomicRegistry` | promise: updates take effect as a whole, at one instant | |
| `RegistryFile` | `_locked_registry` | refines `AtomicRegistry` |
| `CanonicalStore` | promise: an artifact appears whole, is never replaced, a `complete` record names it | |
| `Publish` | `publish_checkpoint_to_disk` and what it calls | refines `CanonicalStore` |
| `LocalInstall` | both materialize workers at one path, engines, the node | refines `LocalView` |
| `LocalView` | promise: a view somebody reported stays until the reboot | |
| `Sums` | Python's `sum` of a list and of its beginnings | used by `Convert` and `Prepare` |
| `Convert` | layout functions, scatter, slice, peer copy | |
| `WeightCache` | `materialize_weight_cache` and `inspect_weight_cache` | refines `LocalView` |
| `Hydrate` | `hydrate_config_from_disk` and the rows of the registry | assumes no more of workers than `LocalView` |
| `Prepare` | `prepare_cache_aware_config`, placement, weights of all nodes | |
| `*Proofs` | theorems and their proofs | extends the module |
| `MC*` | values for TLC | extends the module |

Operators that stand just before an operation under the heading "Mutated
forms" are variants of it with a plausible bug; no specification uses them.
They show that each property can fail.

### RegistryFile

`file` and `tmp` are the registry and its one temporary file, each absent, of
another schema, torn or whole with the set of updates it holds; `lock` is the
flock; `pc` and `view` are each transaction's place and loaded value. Every
system call of `_locked_registry` is an action. Loading and each later step
can raise, and `Crash` kills at any point. A read-only transaction writes the
loaded value back, as the code does. The step from load to rename is not
atomic in the model; that the lock makes it so is `FreshView`, and that the
whole implements one-step updates is `ImplementsAtomic`. This is why the other
modules take a registry transaction as one step.

### Publish

An element of `Pubs` is one invocation; retries are further elements. A page is
the set of its cells, one for each slice that some rank file holds, so partial
scatters show. `Scatter[c][i]` is what target `i` of publication `c` writes. The
size checks of the code see only whether a page file exists (`PageExists`),
because the first piece truncates the file to its full size. A worker may fail
after any subset of its pieces; when SSH times out, or the controller dies, the
worker goes into `abandoned` and can write one piece at any later time, which
brings its incoming directory back (`mkdir(parents=True)`). `final.by` names the
producer of the installed artifact; an entry's backing is that name, which
stands for the manifest digest. `Lose` removes a page, the manifest or the whole
artifact. `Invalidate` and `AdoptLocal` are the other functions that change the
state of the entry.

The assumption `WholeOrNone` on targets (a page is covered by all of its slices
or left out) comes from the layout: an instance's ranks partition layers and
heads. Theorem `LayoutsAreWholeOrNone` of `ConvertProofs` derives it from the
layout, with bytes as slices, for every configuration the code accepts.

### LocalInstall

One path on one node. `Canonical` and `Peers` are the workers of the two
functions, which share all but the fill and the route guard; the lock, the
checks and the error handling are line for line the same. A directory is what
inspection and pruning tell apart: which expected files have their size, and
whether there are further pages or non-files. Engines create the directory and
add files, and never take the lock. A controller's timeout does not stop a
worker, so only `Kill` and `Reboot` do. `seenBoot` is the boot id in the
reported inventory.

`ImplementsView` says that all this amounts to `LocalView`: a view comes and
goes, but once a worker has reported it, it stays until the reboot. The
mapping takes a view as held when `Valid(dest)` holds, and as told to the
workers that reported it in this boot. Hydrate assumes of workers no more than
that promise.

`InstallFails` lets either rename fail for any reason; the one to expect is
`ENOTEMPTY`, when an engine has brought the path back and begun to write there.
A file that is not of its size yet is not in `dest.files`, and is one of the
reasons.

### Convert

One page with one byte for each layer and KV head (the other axes are copied
whole); a byte's value is the layer and head it was computed for, so a
misplaced byte shows. The operators `RankCoordinates`, `LayerRange`,
`HeadRange`, `FileName`, `FileSize` are those of `sglang_format.py`; the
engine's layout (`EngineRanks`, `EngineFile`) is stated on its own from the rank
order in `README.md:105` of the repository, so that the two can disagree.
`PiecesAddUp` says what the count of pieces stands for: the scattered pieces are
disjoint, each has the size computed for its file, and together they cover what
has been written, so that when all are counted the page has no hole.

Publications scatter node after node while views come and go. A topology is one
instance; that requests of several instances cover different pages is in
`Publish`.

### WeightCache

The transaction of LocalInstall again, with what differs. A directory is its
manifest (complete or not, boot, sizes) and what each file holds; a content is
the declared one, another of the same size (`alien`), a shorter one (`cut`), or
what a crash leaves in a file that was never flushed (`garbled`). Only sizes
and the digests of two files (`Identity`) are ever compared, as in the code.
`PeekManifest` and `PeekFiles` are the inspection before the lock, which reads
the manifest of one directory and the files of whatever is at the path next.
`ListSource` reads the snapshot before the lock is waited for and `EditSource`
may change it at any time. The configured local root need not be RAM, and
`docs/architecture.md:84-86` speaks of residue, so that `Reboot` either empties
the node or leaves directories with files that may be garbled; the boot id in
the manifest has to tell.

### Hydrate

A hydration walks through its targets; a target is a place (a path on a node)
and a kind (the expected inventory of files). `view` has the kinds that are
complete at each place, `told` those a worker has answered for since the boot,
`rows` the registry's rows of local caches, each with the boot its inventory
carries. Two configurations whose instances have one name share a place and may
want different kinds there; such places are contested, and each hydration
prunes the files of the other. Every SSH call answers, fails or times out; a
worker whose controller went away is in `orphans` and may still install
(`Appear`) or prune (`Prune`). Of what workers leave behind nothing is assumed
but what `LocalView` promises: a view that nobody has reported may go at any
time (`Withdraw`), one that was reported goes by a reboot or, since `LocalView`
is about workers for one kind, by the prune of a worker for another.

`RowsStand` is about the rows a worker answered for in the present boot, also
those a hydration still holds. Such a row names a complete view, at a contested
place until a hydration that wants another kind has come to that very place
(`Rivalled`): a rival that is still elsewhere, or ended before it got there, and
the workers it left behind do not take the view away. Beyond that point the
code promises nothing, as the prune at `sglang_format.py:627` is on purpose.
`rows` of the code have a time by which peers
are ordered; the model allows every order. `Record` merges by the key of
`_merge_cache_rows`: materialization fingerprint, node, slot and path.
The assumption `MatsFixKinds` says that one fingerprint has one layout, which
is what `materialization_fingerprint` hashes.

### Prepare

The whole command, for several controllers at once. `snap` is what one has seen
of each node (idle, free bytes, targets cached, weights, boot), `best` the
placement so far and then the plan. `Consider` takes one assignment of
`itertools.permutations` after the other, in its order; `Score`, `Fits`,
`Exceeds` are the body of the loop. `lookup_checkpoint` holds the registry's
lock from `OpenLookup` to the answer and probes meanwhile, so others wait.
`disk` is the entry with the artifact it names: not registered, registered but
not readable, complete, or invalid. `PublishAnswers` and `Fill` are the
transactions of Publish, LocalInstall and WeightCache, each taken as one step
after its capacity check: what can go wrong inside them is their own module's
matter. Memory is counted per node: views, weights and engines take from
`free`, a prune gives back. A worker past its check keeps others out of its
path (`Turn`) and not out of the memory. Peers are left out, as Hydrate has
them. A view is told from another of its path by the target only; all commands
prepare the same configuration.

## Runs

| run | bounds | states | shows |
| --- | --- | --- | --- |
| `registry_file` | 3 transactions, 2 of them writers; three initial registries | 3 281 | the six properties of the transaction |
| `publish` | 3 publications (two nodes, one node, one that serves a page less), 2 pages of 2 slices, 1 loss | 577 130 | safety, refinement and termination of publishing |
| `local_install` | one canonical and one peer worker, 2 files, 1 reboot | 65 421 | safety, refinement and termination of installing |
| `convert` | 4 layers, 2 heads, TP1, TP2 twice, PP2 3+1, TP2PP2 1+3, one instance whose stages miss a layer | 3 840 | conversion is exact in every direction |
| `weight_cache` | 2 workers, one digested and one measured file, 1 edit, 1 reboot | 228 006 | safety, refinement and termination of the weight cache |
| `hydrate` | 2 hydrations of two targets, 2 nodes with a path each, 2 kinds, an old row, 1 reboot | 1 123 536 | rows, fallback and termination of hydrations |
| `prepare` | 2 preparations of two targets over 3 and 2 nodes, 1 engine, reboot or change of the registry | 1 009 854 | placement, room, outcome and termination of preparations |
| `publish_exposes`, `publish_refused`, `install_restore`, `convert_aliases`, `hydrate_timeout` | as above, or smaller | | the five disagreements below |

Why the bounds are enough. Registry: a lost update needs two writers, and a
third transaction lets a reader or a second crash come between. Publish: two
publications contend, the third retries after both, which covers an orphan of
the first beside an installed artifact; two pages of two slices make a page
partial, and a set of pages partial; one loss is enough to damage or remove an
artifact, and the invariants about losses speak of the undamaged case or of one
step. LocalInstall: one worker of each kind gives all interleavings of two lock
holders (a third was checked once, with the second rename failing for
`ENOTEMPTY` only: 4.97 million states, no error); two files make a directory
absent, empty, partial or complete; a second reboot repeats the first. Convert:
four layers and two heads are the smallest sizes with uneven stages and split
heads together. WeightCache: one file of each sort, and one edit between any two
reads of the snapshot (a second was tried once: 1.11 million states, no error).
Hydrate: one place both want for the same kind and one they contest, and a peer
row that may be stale; the reboot makes rows of an earlier boot. Prepare: with
two targets and three nodes plans overlap in no node, one or two, for the same
target or another; each node is short of one view or of the model when anyone
else takes memory; one upset is an engine that takes memory between two checks,
a reboot, an invalidation or a loss, and nothing in the properties counts
upsets.
The rejections by GPU count and by `MinLeft` do not occur with these values;
`PlansAreBest` proves `PlanIsBest` for all values.

All passing runs check deadlock as well: when all invocations have ended the
model stutters or the environment goes on, and any other stop would be an
error. None of them uses symmetry, since liveness is checked.

### Fairness

Weak fairness of each invocation's own steps: a process that can run is
scheduled, and a call it waits for ends, because every SSH call and rsync has a
timeout. It suffices for the locks: each holder runs once (a preparation looks
up a few times) and leaves, so the lock is free from some point on. Nothing is
assumed of crashes, losses, reboots, engines or abandoned workers. An endless
stream of new invocations could starve a waiter under this fairness; the models
have finitely many.

## Disagreements

1. `publish_exposes`: a publication that fails in `register_checkpoint`
   (`controller.py:271`), after the rename, leaves its complete manifest at the
   final path, against `docs/architecture.md:72-73`. A later publication adopts
   it, so the store stays consistent (`ImplementsStore` holds).
2. `publish_refused`: once an installed artifact is damaged, no later
   publication of the fingerprint can succeed: it is not accepted as existing
   (`controller.py:141-155`) and it blocks the rename (`controller.py:268`).
3. `install_restore`: when an installation fails at a rename, the restore of
   `sglang_format.py:714-717` is skipped if an engine has recreated the path,
   and a valid directory that had been renamed away is deleted, against
   `docs/architecture.md:80`.
4. `convert_aliases`: inventories compare names and sizes, and pipeline stages
   of equal size under the same name may hold other layers, so a peer copy can
   be accepted that has the wrong contents (`registry.py:503`, against the
   docstring at 481-486).
5. `hydrate_timeout`: a peer that answers too late ends the hydration, because
   `TimeoutExpired` is not among what `controller.py:406` catches, against
   `README.md:29-30` of the repository. Errors of a peer do fall back, which is
   `PeerErrorsFallBack`.

A reading of the document sentence about failed publications that includes
timeouts would also find that an abandoned worker recreates the incoming
directory; `LeakIsExplained` states exactly when directories stay behind.

## Proofs

All theorems are about `Spec`, hold for every value of the constants under the
named assumptions (the sentinel is not a process, bounds are naturals,
`WholeOrNone`, pages have slices, some file is expected; for `Prepare` that
there is a target, sizes are naturals, and without weights a model takes
nothing; for `Convert` that the model has layers and heads and that `Nothing` is
none of the values it stands beside), and need no fairness. Two of `Convert`
have a hypothesis of their own, `StagesAgree`.

- `RegistryFileProofs`: `TypeOK`, `NeverTorn`, `FreshView`, `ForeignUntouched`,
  `ImplementsAtomic`. The invariant says that who is past `Flock` holds the
  lock, that a loaded value equals the file plus the holder's own update, that
  the temporary file of a writer that finished is its value, and that a
  transaction's update is in the file exactly when it has replaced it.
  Refinement: `Replace` of a writer is `Commit`, `Close` is `Return` or
  `Raise`, everything else stutters.
- `PublishProofs`: `TypeOK`, `ArtifactIsWhole`, `CompleteIsBacked`,
  `LeakIsExplained`, `ArtifactImmutable`, `ImplementsStore`. Wholeness depends
  on history: the invariant keeps that an incoming directory holds all pieces of
  the targets before the current one and none but this publication's
  (`ScatteredSoFar`), so that at the rename all targets are done, each existing
  page is covered whole (`WholeOrNone`, lemma `ScatteredIsWhole`) and `Verify`
  has seen every page. Orphans belong to publications that are over
  (`AbandonedAreOver`), so they never touch what is renamed. `FoundIsThere` ties
  what a publication is about to register to what stands on Disk, unless it was
  removed since; `EntryNamesFinal` does so for the entry.
- `LocalInstallProofs`: `TypeOK`, `ReportedIsValid`, `InstalledStaysValid`,
  `LeakIsExplained`. The invariant adds that the lock is held inside the
  transaction, that what is to be installed has been validated, that engines
  only add files (lemma `EngineOnlyAdds`), and that no report of the current
  boot stands while some worker is replacing or restoring the directory
  (`ReportsAreApart`): a worker gets there only from an inspection that failed,
  under the lock, and a valid directory stays valid.

- `LocalInstallProofs` also shows `ImplementsView`, from `ReportsAreApart`: a
  step that takes away a complete directory finds nobody told.
- `WeightCacheProofs`: `TypeOK`, `ReportedIsDeclared`, `InstalledStaysReady`,
  `LeakIsExplained`, `ImplementsView`. The invariant of LocalInstall is not
  enough. A manifest and a length have to stand for contents: `ReadyIsGood` and
  `StagedIsGood` keep that what is ready or being copied came from the snapshot,
  `OneRevision` and `ListedIsDeclared` that it is the declared one as long as
  nobody has edited. And `PeekIsSafe` covers the inspection without the lock:
  within one boot the path holds a directory that is not ready, then none, then
  one that is ready until the reboot, so that a manifest of the first compared
  with the files of the last fits only if the last is ready.
- `HydrateProofs`: `TypeOK`, `RowsStand`, `ReadyIsRecorded`,
  `PeerErrorsFallBack`. The invariant says that a row told in the present boot
  is still told at its place, unless a rival has come there (`ToldRowsStand`),
  and that what is told is there (`ToldIsThere`). A told view is taken away only
  by a worker at its place; each worker, also one left behind, is at a target
  that some hydration has come to (`OrphansAreReached`, lemma
  `WorkedAreReached`), and no hydration goes back behind a target (lemma
  `ReachedStays`), so that where no rival has come every worker wants the row's
  own kind (lemma `OneKind`). The invariant also says that a hydration holds a
  row for each target behind it (`GotSoFar`) and none but those of its plan
  (`GotIsPlanned`), so that with `MatsFixKinds` a merge replaces a row only by
  one of the same kind.
- `PrepareProofs`: `TypeOK`, `DoneIsPrepared`, `ShortageIsOthers`. A plan fits
  what was seen of its nodes and stays what it is (`PlanFits`), and who passed
  the capacity check has the path, but not the memory, to itself
  (`FillerIsAlone`): so a worker that runs out of space meets less memory than
  the placement counted with. Behind each target a preparation has passed, in a
  lookup or in hydration, the view stands, unless its node has rebooted since
  the status was asked or another plan that is firm wants another target there
  (`SeenStands`, `ViewsSoFar`, `ViewsAllStand`, the same for weights). Such a
  view is lost only to the prune of a worker with another target at its node
  (lemma `StepViewsGo`), and that worker is none of its own, as the targets of a
  plan are on different nodes (`PlansAreApart`).

- `PrepareProofs` also shows `PlanIsBest`. The invariant of the search
  (`SearchingSince`) says that the assignments not yet considered come after all
  the others, and that the best so far fits and beats every other one considered
  that fits, by its score or, at equal scores, by its place in the order. That
  the lexicographic comparison is total and transitive is `ExceedsTotal` and
  `ExceedsTransitive`.
- `SumsProofs`: what the recursive function `PartialSums` computes, for every
  list: it is defined by its equations, does not decrease, and each number
  below the sum is in exactly one block (`BlockExists`, `BlocksAreApart`). The
  library states induction for any formula, which no prover here can
  instantiate; these proofs take the least counterexample (`LeastNumber`, from
  the well-foundedness of `<`).
- `ConvertProofs`: `PagePartition`, `TypeOK`, `PiecesAddUp`, `CanonicalIsRight`,
  `ViewsAreRight`, for every number of layers and heads and all topologies.
  `PagePartition` is about the layout alone: by division with remainder each
  head has one TP rank and each global rank one node, by the blocks of a sum
  each layer has one stage, so that each byte of a page has one owner, whatever
  the partition. `LayoutsAreWholeOrNone` lifts that to the nodes of all
  instances of a configuration, which is what `Publish` assumes. The name of a
  file determines its rank (`NamesAreApart`), so that counting names counts
  pieces. `ShapeInv` needs nothing else: what a
  valid view's file holds has the shape of the engine's, whatever its values.
  `ContentsInv` adds that the values are right, and holds under `StagesAgree`:
  topologies of equal TP and PP have equal stages. The code does not guarantee
  that, and without it the two theorems are false (`convert_aliases`); nothing
  more is needed. `MCConvert` has TLC evaluate that the topologies of `convert`
  agree and that those of `convert_aliases` do not.

Every safety property that a run checks is a theorem. Only model-checked are
the liveness properties (`Released` and each `Termination`), which are out of
the prover's reach, and the five disagreements, which are counterexamples.

## Not modelled

- Argument parsing, command lines, fingerprints, page hashing, prompt
  generation, `parse_byte_size` (functions of the configuration), the text of
  `squeue`, `scontrol` and `nvidia-smi`: conversions without state, whose
  results the models take as constants or as inputs.
- Durations: a timeout may come at any time, and so may an end.
- Loss of data by missing `fsync`, except of the weight cache after a reboot,
  where the repository speaks of it.
- Two preparations that write their resolved configuration to one path
  (`controller.py:984-988`): each has its own in the model.
- Peers inside a preparation, and different configurations in one run of
  `Prepare`: both are in `Hydrate`.
- Next, should the project go on: a run with three hydrations for rows of a
  third configuration.
