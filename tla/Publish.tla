------------------------------ MODULE Publish -------------------------------
(***************************************************************************)
(* controller.py, publish_checkpoint_to_disk: concurrent publications of   *)
(* one canonical fingerprint, the workers they run over SSH, the shared    *)
(* Disk and the fingerprint's registry entry.                              *)
(*                                                                         *)
(* A publication takes the artifact lock, returns early when a verified    *)
(* artifact exists, otherwise scatters the caches of its nodes one after   *)
(* the other into an incoming directory, checks the pages, writes the      *)
(* manifest, renames the directory and registers it.  A canonical page is  *)
(* the set of its cells, one for each layer and head slice some rank file  *)
(* holds.  Registry transactions are single steps, which RegistryFile      *)
(* justifies.  Each element of Pubs runs once; a retry is another one.     *)
(***************************************************************************)
EXTENDS Naturals, Sequences

CONSTANTS
    Pubs,           \* invocations of publish_checkpoint_to_disk
    Pages,          \* page keys of the checkpoint's prefixes
    Parts,          \* slices of a page that rank files hold
    Scatter,        \* Scatter[c][i]: the cells target i of c has rank files for
    MaxLosses,      \* bound on losses of files of an installed artifact
    None            \* no publication

Cells == Pages \X Parts
CellsOf(p) == {p} \X Parts

ASSUME ScatterType == Scatter \in [Pubs -> Seq(SUBSET Cells)]
ASSUME LossesAreCounted == MaxLosses \in Nat
ASSUME NoneIsNotAPub == None \notin Pubs
ASSUME PagesHaveParts == Parts # {}
\* The targets of a publication cover a page or leave it out as a whole:
\* every instance that serves a request holds every layer and head of it.
ASSUME WholeOrNone ==
    \A c \in Pubs, p \in Pages :
        LET covered == UNION {Scatter[c][i] : i \in DOMAIN Scatter[c]}
        IN  CellsOf(p) \subseteq covered \/ CellsOf(p) \cap covered = {}

VARIABLES
    pc,         \* where each publication is
    idx,        \* the target each publication is scattering
    found,      \* the backing each publication has computed
    artLock,    \* holder of .<fingerprint>.publish.lock
    incoming,   \* the directory .<fingerprint>.incoming-<uuid> of each
    final,      \* the directory <fingerprint>: who produced it, what it holds
    abandoned,  \* workers that run on after their controller gave them up
    entry,      \* the fingerprint's registry entry
    losses      \* losses so far

vars == <<pc, idx, found, artLock, incoming, final, abandoned, entry, losses>>
disk == <<incoming, final>>

NoDir == [exists |-> FALSE, cells |-> {}, manifest |-> FALSE]
NoArtifact == [by |-> None, cells |-> {}, manifest |-> FALSE]

Targets(c) == DOMAIN Scatter[c]

Held == {"check", "existing", "fallback", "scatter", "verify", "manifest",
         "rename", "register", "cleanup", "leaving"}
Terminal == {"published", "already_published", "failed", "crashed"}

TypeOK ==
    /\ pc \in [Pubs -> {"start"} \cup Held \cup Terminal]
    /\ idx \in [Pubs -> Nat]
    /\ \A c \in Pubs : idx[c] \in 1..(Len(Scatter[c]) + 1)
    /\ found \in [Pubs -> Pubs \cup {None}]
    /\ artLock \in Pubs \cup {None}
    /\ incoming \in [Pubs -> [exists : BOOLEAN, cells : SUBSET Cells,
                              manifest : BOOLEAN]]
    /\ final \in [by : Pubs \cup {None}, cells : SUBSET Cells,
                  manifest : BOOLEAN]
    /\ abandoned \subseteq Pubs \X Nat
    /\ entry \in [state : {"none", "local_only", "complete", "invalid"},
                  backing : Pubs \cup {None}]
    /\ losses \in 0..MaxLosses

Init ==
    /\ pc = [c \in Pubs |-> "start"]
    /\ idx = [c \in Pubs |-> 1]
    /\ found = [c \in Pubs |-> None]
    /\ artLock = None
    /\ incoming = [c \in Pubs |-> NoDir]
    /\ final = NoArtifact
    /\ abandoned = {}
    /\ entry = [state |-> "none", backing |-> None]
    /\ losses = 0

\* A directory after a worker wrote rank pieces into it: mkdir(parents=True)
\* creates it where it is missing.
Written(dir, pieces) ==
    [exists |-> TRUE, cells |-> dir.cells \cup pieces,
     manifest |-> dir.manifest]
Described(dir) == [exists |-> TRUE, cells |-> dir.cells, manifest |-> TRUE]

\* is_file and st_size: a page file has its full size from its first piece on,
\* so a check of sizes sees that a page exists and not what it holds.
PageExists(dir, p) == CellsOf(p) \cap dir.cells # {}
AllPagesExist(dir) == \A p \in Pages : PageExists(dir, p)

\* validate_disk_backing without and with verify_files.
Readable(backing) == final.by = backing /\ final.by # None /\ final.manifest
Verified == Readable(final.by) /\ AllPagesExist(final)

Goto(c, from, to) ==
    /\ pc[c] = from
    /\ pc' = [pc EXCEPT ![c] = to]

-----------------------------------------------------------------------------
\* Mutated forms of the operations below.
StageFromZero(c) ==
    /\ Goto(c, "check", "scatter")
    /\ ~Verified
    /\ incoming' = [incoming EXCEPT ![c] = Written(@, {})]
    /\ idx' = [idx EXCEPT ![c] = 0]
    /\ UNCHANGED <<found, artLock, final, abandoned, entry, losses>>

ScatterCountUnchecked(c) ==
    /\ pc[c] = "scatter"
    /\ idx[c] \in Targets(c)
    /\ \E wrote \in SUBSET Scatter[c][idx[c]] :
           incoming' = [incoming EXCEPT ![c] = Written(@, wrote)]
    /\ idx' = [idx EXCEPT ![c] = @ + 1]
    /\ UNCHANGED <<pc, found, artLock, final, abandoned, entry, losses>>

RegisterBeforeRename(c) ==
    /\ Goto(c, "manifest", "rename")
    /\ incoming' = [incoming EXCEPT ![c] = Described(@)]
    /\ entry' = [state |-> "complete", backing |-> c]
    /\ UNCHANGED <<idx, found, artLock, final, abandoned, losses>>

RenameReplaces(c) ==
    /\ Goto(c, "rename", "register")
    /\ final' = [by |-> c, cells |-> incoming[c].cells,
                 manifest |-> incoming[c].manifest]
    /\ incoming' = [incoming EXCEPT ![c] = NoDir]
    /\ found' = [found EXCEPT ![c] = c]
    /\ UNCHANGED <<idx, artLock, abandoned, entry, losses>>

CompleteUnvalidated(c) ==
    entry' = [state |-> "complete", backing |-> found[c]]

CleanupKeepsIncoming(c) ==
    /\ Goto(c, "cleanup", "failed")
    /\ artLock' = None
    /\ UNCHANGED <<idx, found, disk, abandoned, entry, losses>>

ExistingFailsLocked(c) ==
    /\ pc[c] \in {"existing", "fallback"}
    /\ pc' = [pc EXCEPT ![c] = "failed"]
    /\ UNCHANGED <<idx, found, artLock, disk, abandoned, entry, losses>>

-----------------------------------------------------------------------------
\* with _artifact_lock(root, fingerprint)
Acquire(c) ==
    /\ Goto(c, "start", "check")
    /\ artLock = None
    /\ artLock' = c
    /\ UNCHANGED <<idx, found, disk, abandoned, entry, losses>>

\* _existing_backing verifies the artifact, every page included.
FindExisting(c) ==
    /\ Goto(c, "check", "existing")
    /\ Verified
    /\ found' = [found EXCEPT ![c] = final.by]
    /\ UNCHANGED <<idx, artLock, disk, abandoned, entry, losses>>

\* There is none, or it is not whole: start an incoming directory.
Stage(c) ==
    /\ Goto(c, "check", "scatter")
    /\ ~Verified
    /\ incoming' = [incoming EXCEPT ![c] = Written(@, {})]
    /\ UNCHANGED <<idx, found, artLock, final, abandoned, entry, losses>>

\* The worker of the current target wrote all of its rank pieces and the
\* count it reports is the expected one.
ScatterTarget(c) ==
    /\ pc[c] = "scatter"
    /\ idx[c] \in Targets(c)
    /\ incoming' = [incoming EXCEPT ![c] = Written(@, Scatter[c][idx[c]])]
    /\ idx' = [idx EXCEPT ![c] = @ + 1]
    /\ UNCHANGED <<pc, found, artLock, final, abandoned, entry, losses>>

\* The worker fails, having written some of its pieces: its source is
\* incomplete or vanishes, its configuration names other files so that the
\* count differs, or its answer is not JSON.
ScatterFails(c) ==
    /\ Goto(c, "scatter", "cleanup")
    /\ idx[c] \in Targets(c)
    /\ \E wrote \in SUBSET Scatter[c][idx[c]] :
           incoming' = [incoming EXCEPT ![c] = Written(@, wrote)]
    /\ UNCHANGED <<idx, found, artLock, final, abandoned, entry, losses>>

\* ssh runs into its timeout or loses its connection; the remote worker does
\* not notice.
ScatterTimesOut(c) ==
    /\ Goto(c, "scatter", "cleanup")
    /\ idx[c] \in Targets(c)
    /\ abandoned' = abandoned \cup {<<c, idx[c]>>}
    /\ UNCHANGED <<idx, found, artLock, disk, entry, losses>>

ScatterEnds(c) ==
    /\ Goto(c, "scatter", "verify")
    /\ idx[c] \notin Targets(c)
    /\ UNCHANGED <<idx, found, artLock, disk, abandoned, entry, losses>>

\* Every key of every prefix has a page file of the full size.
Verify(c) ==
    /\ pc[c] = "verify"
    /\ pc' = [pc EXCEPT ![c] = IF AllPagesExist(incoming[c])
                               THEN "manifest" ELSE "cleanup"]
    /\ UNCHANGED <<idx, found, artLock, disk, abandoned, entry, losses>>

WriteManifest(c) ==
    /\ Goto(c, "manifest", "rename")
    /\ incoming' = [incoming EXCEPT ![c] = Described(@)]
    /\ UNCHANGED <<idx, found, artLock, final, abandoned, entry, losses>>

\* The shared Disk is full.
WriteManifestFails(c) ==
    /\ Goto(c, "manifest", "cleanup")
    /\ UNCHANGED <<idx, found, artLock, disk, abandoned, entry, losses>>

\* staging.replace(final); rename(2) takes the place of no directory but an
\* empty one.
Rename(c) ==
    /\ Goto(c, "rename", "register")
    /\ final.by = None
    /\ final' = [by |-> c, cells |-> incoming[c].cells,
                 manifest |-> incoming[c].manifest]
    /\ incoming' = [incoming EXCEPT ![c] = NoDir]
    /\ found' = [found EXCEPT ![c] = c]
    /\ UNCHANGED <<idx, artLock, abandoned, entry, losses>>

\* OSError, ENOTEMPTY.
RenameFails(c) ==
    /\ Goto(c, "rename", "cleanup")
    /\ final.by # None
    /\ UNCHANGED <<idx, found, artLock, disk, abandoned, entry, losses>>

\* The transaction of register_checkpoint and register_disk_checkpoint: it
\* validates the backing and makes the entry complete, an invalid one too.
Complete(c) ==
    /\ Readable(found[c])
    /\ entry' = [state |-> "complete", backing |-> found[c]]

Register(c) ==
    /\ Goto(c, "register", "leaving")
    /\ Complete(c)
    /\ UNCHANGED <<idx, found, artLock, disk, abandoned, losses>>

\* The backing cannot be read any more, or the registry refuses.
RegisterFails(c) ==
    /\ Goto(c, "register", "cleanup")
    /\ UNCHANGED <<idx, found, artLock, disk, abandoned, entry, losses>>

\* Every source was inspected and is complete.
RegisterExisting(c) ==
    /\ Goto(c, "existing", "leaving")
    /\ Complete(c)
    /\ UNCHANGED <<idx, found, artLock, disk, abandoned, losses>>

\* OSError, RuntimeError or ValueError, from a source or from the registry.
InspectFails(c) ==
    /\ Goto(c, "existing", "fallback")
    /\ UNCHANGED <<idx, found, artLock, disk, abandoned, entry, losses>>

RegisterOnDisk(c) ==
    /\ Goto(c, "fallback", "leaving")
    /\ Complete(c)
    /\ UNCHANGED <<idx, found, artLock, disk, abandoned, losses>>

\* TimeoutExpired from an inspection, or an exception of the fallback: there
\* is nothing to clean up.
ExistingFails(c) ==
    /\ pc[c] \in {"existing", "fallback"}
    /\ pc' = [pc EXCEPT ![c] = "failed"]
    /\ artLock' = None
    /\ UNCHANGED <<idx, found, disk, abandoned, entry, losses>>

\* except BaseException: rmtree(staging), raise.
Cleanup(c) ==
    /\ Goto(c, "cleanup", "failed")
    /\ incoming' = [incoming EXCEPT ![c] = NoDir]
    /\ artLock' = None
    /\ UNCHANGED <<idx, found, final, abandoned, entry, losses>>

Leave(c) ==
    /\ pc[c] = "leaving"
    /\ pc' = [pc EXCEPT ![c] = IF found[c] = c THEN "published"
                               ELSE "already_published"]
    /\ artLock' = None
    /\ UNCHANGED <<idx, found, disk, abandoned, entry, losses>>

\* The controller is killed.  A worker it waits for runs on.
Crash(c) ==
    /\ pc[c] \in Held
    /\ pc' = [pc EXCEPT ![c] = "crashed"]
    /\ artLock' = None
    /\ abandoned' = IF pc[c] = "scatter" /\ idx[c] \in Targets(c)
                    THEN abandoned \cup {<<c, idx[c]>>} ELSE abandoned
    /\ UNCHANGED <<idx, found, disk, entry, losses>>

Step(c) ==
    \/ Acquire(c)
    \/ FindExisting(c) \/ RegisterExisting(c) \/ InspectFails(c)
    \/ RegisterOnDisk(c) \/ ExistingFails(c)
    \/ Stage(c)
    \/ ScatterTarget(c) \/ ScatterFails(c) \/ ScatterTimesOut(c)
    \/ ScatterEnds(c)
    \/ Verify(c) \/ WriteManifest(c) \/ WriteManifestFails(c)
    \/ Rename(c) \/ RenameFails(c)
    \/ Register(c) \/ RegisterFails(c)
    \/ Cleanup(c) \/ Leave(c)

-----------------------------------------------------------------------------
\* An abandoned worker writes one more piece: output.parent.mkdir(parents=True)
\* brings its incoming directory back when it has been removed.
AbandonedWrites(c, i) ==
    /\ <<c, i>> \in abandoned
    /\ \E piece \in Scatter[c][i] :
           incoming' = [incoming EXCEPT ![c] = Written(@, {piece})]
    /\ UNCHANGED <<pc, idx, found, artLock, final, abandoned, entry, losses>>

\* lookup_checkpoint finds the complete cache of an unregistered fingerprint.
AdoptLocal ==
    /\ entry.state = "none"
    /\ entry' = [state |-> "local_only", backing |-> entry.backing]
    /\ UNCHANGED <<pc, idx, found, artLock, disk, abandoned, losses>>

\* invalidate_checkpoint
Invalidate ==
    /\ entry.state # "none"
    /\ entry' = [state |-> "invalid", backing |-> entry.backing]
    /\ UNCHANGED <<pc, idx, found, artLock, disk, abandoned, losses>>

\* The file system or an operator removes a page, the manifest or everything.
Lose ==
    /\ losses < MaxLosses
    /\ losses' = losses + 1
    /\ \/ \E p \in Pages :
              /\ PageExists(final, p)
              /\ final' = [by |-> final.by, cells |-> final.cells \ CellsOf(p),
                           manifest |-> final.manifest]
       \/ /\ final.manifest
          /\ final' = [by |-> final.by, cells |-> final.cells,
                       manifest |-> FALSE]
       \/ /\ final.by # None
          /\ final' = NoArtifact
    /\ UNCHANGED <<pc, idx, found, artLock, incoming, abandoned, entry>>

Environment ==
    \/ \E c \in Pubs : \E i \in Targets(c) : AbandonedWrites(c, i)
    \/ AdoptLocal \/ Invalidate \/ Lose

Done == \A c \in Pubs : pc[c] \in Terminal

Next ==
    \/ \E c \in Pubs : Step(c) \/ Crash(c)
    \/ Environment
    \/ Done /\ UNCHANGED vars

\* The controller runs on, and every worker command ends: with an answer, an
\* error or its timeout.
Fairness == \A c \in Pubs : WF_vars(Step(c))

Spec == Init /\ [][Next]_vars
FairSpec == Spec /\ Fairness

-----------------------------------------------------------------------------
(***************************************************************************)
(* Properties.                                                             *)
(***************************************************************************)

Whole(dir) == dir.manifest /\ dir.cells = Cells

\* Whatever publications, workers left behind and crashes do, what stands at
\* the artifact's path holds every slice of every page, although the code
\* never looks inside a page.
ArtifactIsWhole == final.by # None /\ losses = 0 => Whole(final)

\* An installed artifact is never replaced and no worker writes to it: those
\* who read its pages without a lock see one artifact until it is removed.
ArtifactImmutable ==
    [][final.by # None =>
           /\ final'.by \in {final.by, None}
           /\ final' # final => losses' > losses]_vars

\* As long as nothing is lost, a complete entry names the artifact on Disk,
\* so that its digest validates and a lookup can rely on it.
CompleteIsBacked ==
    entry.state = "complete" /\ losses = 0 =>
        entry.backing = final.by /\ Verified

\* An incoming directory outlives its publication only when the controller
\* was killed or gave up a worker that was still running.
LeakIsExplained ==
    \A c \in Pubs :
        incoming[c].exists /\ pc[c] \in Terminal =>
            pc[c] = "crashed" \/ \E i \in Targets(c) : <<c, i>> \in abandoned

\* Every publication ends, and the artifact lock is free when all have.
Termination == <>[](Done /\ artLock = None)

Store == INSTANCE CanonicalStore WITH
    artifact <- final.by,
    quality <- IF final.by = None THEN "gone"
               ELSE IF ~final.manifest THEN "unreadable"
               ELSE IF final.cells = Cells THEN "whole" ELSE "partial",
    record <- entry

\* Publications, their failures included, implement the store.
ImplementsStore == Store!StoreSpec

\* "A failed publish ... never exposes a complete manifest."
FailedExposesNothing ==
    \A c \in Pubs : pc[c] = "failed" /\ final.by = c => ~final.manifest

\* "publish takes a complete topology-specific cache and creates one canonical
\* artifact": with every page scattered and checked, it is installed.
CompleteCacheIsPublished ==
    [][\A c \in Pubs : pc[c] = "rename" =>
           pc'[c] \in {"rename", "register", "crashed"}]_vars
=============================================================================
