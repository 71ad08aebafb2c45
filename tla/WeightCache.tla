----------------------------- MODULE WeightCache -----------------------------
(***************************************************************************)
(* weights.py, materialize_weight_cache: workers on one node that copy the *)
(* shared model snapshot into the node's RAM, under the fingerprint of the *)
(* model that the configuration declares.                                  *)
(*                                                                         *)
(* The transaction is that of LocalInstall, with three differences.  A     *)
(* manifest says what the directory should hold and in which boot it was   *)
(* written.  The source is listed before the lock is waited for, and       *)
(* whoever maintains the snapshot may edit it at any time.  And before the *)
(* lock is taken there is an inspection without it, which reads the        *)
(* manifest and the files one after the other while another worker may be  *)
(* replacing both.  The cache is read by engines and written by nobody     *)
(* else.  The local root may be on a disk, where a reboot leaves residue.  *)
(***************************************************************************)
EXTENDS Naturals

CONSTANTS
    Workers,        \* invocations of materialize_weight_cache
    Files,          \* regular files of the model snapshot
    Identity,       \* config.json and model.safetensors.index.json
    MaxEdits,       \* bound on edits of the snapshot
    MaxReboots,     \* bound on reboots of the node
    None            \* no worker holds the lock

ASSUME BoundsAreCounted == MaxEdits \in Nat /\ MaxReboots \in Nat
ASSUME NoneIsNotAWorker == None \notin Workers
ASSUME IdentityIsKnown == Identity \subseteq Files /\ Identity # {}

VARIABLES
    pc,         \* where each worker is
    lock,       \* holder of the flock on .<fingerprint>.weights.lock
    dest,       \* the directory <local_root>/<fingerprint>
    staging,    \* .<fingerprint>.incoming-<token> of each worker
    previous,   \* .<fingerprint>.old-<token> of each worker
    sizes,      \* the sizes each worker last read in a listing or a manifest
    seenBoot,   \* the boot_id at the inspection each worker reports
    source,     \* what each file of the shared snapshot holds
    edits,      \* how often the snapshot has been edited
    boot        \* the node's boot_id

vars == <<pc, lock, dest, staging, previous, sizes, seenBoot, source, edits,
          boot>>

\* What a file holds: what the declared revision has, something else of the
\* same size or of another size, or, after a crash, what never was written.
Sourced == {"declared", "alien", "cut"}
Contents == Sourced \cup {"garbled", "missing"}
Size(content) ==
    CASE content = "cut" -> "short"
      [] content = "missing" -> "none"
      [] OTHER -> "full"
SizesOf(files) == [f \in Files |-> Size(files[f])]
Sizes == [Files -> {"short", "none", "full"}]

\* _validate_identity_files: the digests are those of the configuration.
Identified(files) == \A f \in Identity : files[f] = "declared"

NoManifest == [complete |-> FALSE, boot |-> 0,
               sizes |-> [f \in Files |-> "none"]]
Manifest(b, s) == [complete |-> TRUE, boot |-> b, sizes |-> s]
Manifests == [complete : BOOLEAN, boot : 0..MaxReboots + 1, sizes : Sizes]

NoFiles == [f \in Files |-> "missing"]
Dir(manifest, files) ==
    [exists |-> TRUE, manifest |-> manifest, files |-> files]
NoDir == [exists |-> FALSE, manifest |-> NoManifest, files |-> NoFiles]
Dirs == [exists : BOOLEAN, manifest : Manifests, files : [Files -> Contents]]

\* Mutated form of the operation below.
ManifestOfAnyBoot(dir) == dir.manifest.complete

\* inspect_weight_cache, the part about the manifest and the part about files.
ManifestHolds(dir) == dir.manifest.complete /\ dir.manifest.boot = boot
FilesHold(dir, expected) ==
    /\ \A f \in Files : /\ dir.files[f] # "missing"
                        /\ Size(dir.files[f]) = expected[f]
    /\ Identified(dir.files)
Ready(dir) == ManifestHolds(dir) /\ FilesHold(dir, dir.manifest.sizes)

Unlocked == {"peek", "list", "wait"}
Held == {"inspect", "reserve", "copy", "identify", "manifest", "validate",
         "displace", "install", "drop", "check", "restore", "succeeding",
         "failing"}
Running == Unlocked \cup Held
Reported == {"already_present", "materialized"}
Terminal == Reported \cup {"failed", "killed"}

TypeOK ==
    /\ pc \in [Workers -> {"start"} \cup Running \cup Terminal]
    /\ lock \in Workers \cup {None}
    /\ dest \in Dirs
    /\ staging \in [Workers -> Dirs]
    /\ previous \in [Workers -> Dirs]
    /\ sizes \in [Workers -> Sizes]
    /\ seenBoot \in [Workers -> 0..MaxReboots + 1]
    /\ source \in [Files -> Sourced]
    /\ edits \in 0..MaxEdits
    /\ boot \in 1..MaxReboots + 1

\* The node may hold nothing, a cache of this boot in which a file has been
\* truncated or none, or residue of an earlier boot.  The snapshot is the
\* declared revision or another one.
Full == [f \in Files |-> "full"]
Init ==
    /\ pc = [w \in Workers |-> "start"]
    /\ lock = None
    /\ dest \in {NoDir}
          \cup {Dir(Manifest(1, Full), files) :
                    files \in [Files -> {"declared", "cut"}]}
          \cup {Dir(Manifest(0, Full), files) :
                    files \in [Files -> {"declared", "garbled"}]}
    /\ staging = [w \in Workers |-> NoDir]
    /\ previous = [w \in Workers |-> NoDir]
    /\ sizes = [w \in Workers |-> SizesOf(NoFiles)]
    /\ seenBoot = [w \in Workers |-> 0]
    /\ source \in {[f \in Files |-> c] : c \in {"declared", "alien"}}
    /\ edits = 0
    /\ boot = 1

Goto(w, from, to) ==
    /\ pc[w] = from
    /\ pc' = [pc EXCEPT ![w] = to]

-----------------------------------------------------------------------------
\* Mutated forms of the operations below.
CheckLaterBoot(w) ==
    /\ Goto(w, "check", IF Ready(dest) THEN "succeeding" ELSE "restore")
    /\ seenBoot' = [seenBoot EXCEPT ![w] = boot + 1]
    /\ UNCHANGED <<lock, dest, staging, previous, sizes, source, edits, boot>>

SweepPreviousOnly(w) ==
    /\ \/ Goto(w, "succeeding", "materialized")
       \/ Goto(w, "failing", "failed")
    /\ previous' = [previous EXCEPT ![w] = NoDir]
    /\ lock' = None
    /\ UNCHANGED <<dest, staging, sizes, seenBoot, source, edits, boot>>

NotPresentUnchecked(w) ==
    /\ Goto(w, "inspect", "reserve")
    /\ UNCHANGED <<lock, dest, staging, previous, sizes, seenBoot, source,
                   edits, boot>>

LockShared(w) ==
    /\ Goto(w, "wait", "inspect")
    /\ lock' = w
    /\ UNCHANGED <<dest, staging, previous, sizes, seenBoot, source, edits,
                   boot>>

NoSpaceLocked(w) ==
    /\ Goto(w, "reserve", "failed")
    /\ UNCHANGED <<lock, dest, staging, previous, sizes, seenBoot, source,
                   edits, boot>>

-----------------------------------------------------------------------------
\* Without the lock.

\* The manifest is read, and what is at the path by then ...
PeekManifest(w) ==
    /\ Goto(w, "start", IF ManifestHolds(dest) THEN "peek" ELSE "list")
    /\ sizes' = [sizes EXCEPT ![w] = dest.manifest.sizes]
    /\ UNCHANGED <<lock, dest, staging, previous, seenBoot, source, edits,
                   boot>>

\* ... is compared with it file by file.
PeekFiles(w) ==
    /\ Goto(w, "peek", IF FilesHold(dest, sizes[w]) THEN "already_present"
                       ELSE "list")
    /\ seenBoot' = [seenBoot EXCEPT ![w] = boot]
    /\ UNCHANGED <<lock, dest, staging, previous, sizes, source, edits, boot>>

\* A file goes away between is_file() and stat() or open().
PeekRaises(w) ==
    /\ Goto(w, "peek", "failed")
    /\ ~dest.exists
    /\ UNCHANGED <<lock, dest, staging, previous, sizes, seenBoot, source,
                   edits, boot>>

\* source_weight_inventory
ListSource(w) ==
    /\ Goto(w, "list", "wait")
    /\ Identified(source)
    /\ sizes' = [sizes EXCEPT ![w] = SizesOf(source)]
    /\ UNCHANGED <<lock, dest, staging, previous, seenBoot, source, edits,
                   boot>>

\* "model identity mismatch"
SourceRefused(w) ==
    /\ Goto(w, "list", "failed")
    /\ ~Identified(source)
    /\ UNCHANGED <<lock, dest, staging, previous, sizes, seenBoot, source,
                   edits, boot>>

Lock(w) ==
    /\ Goto(w, "wait", "inspect")
    /\ lock = None
    /\ lock' = w
    /\ UNCHANGED <<dest, staging, previous, sizes, seenBoot, source, edits,
                   boot>>

-----------------------------------------------------------------------------
\* With the lock.
AlreadyPresent(w) ==
    /\ Goto(w, "inspect", "already_present")
    /\ Ready(dest)
    /\ seenBoot' = [seenBoot EXCEPT ![w] = boot]
    /\ lock' = None
    /\ UNCHANGED <<dest, staging, previous, sizes, source, edits, boot>>

NotPresent(w) ==
    /\ Goto(w, "inspect", "reserve")
    /\ ~Ready(dest)
    /\ UNCHANGED <<lock, dest, staging, previous, sizes, seenBoot, source,
                   edits, boot>>

\* "insufficient /dev/shm space for weights"
NoSpace(w) ==
    /\ Goto(w, "reserve", "failed")
    /\ lock' = None
    /\ UNCHANGED <<dest, staging, previous, sizes, seenBoot, source, edits,
                   boot>>

Stage(w) ==
    /\ Goto(w, "reserve", "copy")
    /\ staging' = [staging EXCEPT ![w] = Dir(NoManifest, NoFiles)]
    /\ UNCHANGED <<lock, dest, previous, sizes, seenBoot, source, edits, boot>>

\* One file of the listing, which holds by now what the snapshot holds by now.
\* The code copies them in the order of their names; any order is allowed here.
CopyFile(w) ==
    /\ \E f \in Files :
           /\ staging[w].files[f] = "missing"
           /\ staging' = [staging EXCEPT ![w].files[f] = source[f]]
           /\ Goto(w, "copy", IF Size(source[f]) = sizes[w][f] THEN "copy"
                              ELSE "restore")
    /\ UNCHANGED <<lock, dest, previous, sizes, seenBoot, source, edits, boot>>

CopyEnds(w) ==
    /\ Goto(w, "copy", "identify")
    /\ \A f \in Files : staging[w].files[f] # "missing"
    /\ UNCHANGED <<lock, dest, staging, previous, sizes, seenBoot, source,
                   edits, boot>>

Identify(w) ==
    /\ Goto(w, "identify", IF Identified(staging[w].files) THEN "manifest"
                           ELSE "restore")
    /\ UNCHANGED <<lock, dest, staging, previous, sizes, seenBoot, source,
                   edits, boot>>

WriteManifest(w) ==
    /\ Goto(w, "manifest", "validate")
    /\ staging' = [staging EXCEPT ![w].manifest = Manifest(boot, sizes[w])]
    /\ UNCHANGED <<lock, dest, previous, sizes, seenBoot, source, edits, boot>>

Validate(w) ==
    /\ Goto(w, "validate", IF Ready(staging[w]) THEN "displace" ELSE "restore")
    /\ UNCHANGED <<lock, dest, staging, previous, sizes, seenBoot, source,
                   edits, boot>>

\* if artifact_path.exists(): artifact_path.replace(previous)
Displace(w) ==
    /\ Goto(w, "displace", "install")
    /\ previous' = [previous EXCEPT ![w] = dest]
    /\ dest' = NoDir
    /\ UNCHANGED <<lock, staging, sizes, seenBoot, source, edits, boot>>

\* staging.replace(artifact_path)
Install(w) ==
    /\ Goto(w, "install", "drop")
    /\ dest' = staging[w]
    /\ staging' = [staging EXCEPT ![w] = NoDir]
    /\ UNCHANGED <<lock, previous, sizes, seenBoot, source, edits, boot>>

DropPrevious(w) ==
    /\ Goto(w, "drop", "check")
    /\ previous' = [previous EXCEPT ![w] = NoDir]
    /\ UNCHANGED <<lock, dest, staging, sizes, seenBoot, source, edits, boot>>

\* The last inspection, whose result is reported.
Check(w) ==
    /\ Goto(w, "check", IF Ready(dest) THEN "succeeding" ELSE "restore")
    /\ seenBoot' = [seenBoot EXCEPT ![w] = boot]
    /\ UNCHANGED <<lock, dest, staging, previous, sizes, source, edits, boot>>

\* The memory is full, or the source cannot be read, or a rename fails.
Raise(w) ==
    /\ \/ Goto(w, "copy", "restore")
       \/ Goto(w, "manifest", "restore")
       \/ Goto(w, "install", "restore")
    /\ UNCHANGED <<lock, dest, staging, previous, sizes, seenBoot, source,
                   edits, boot>>

\* except BaseException: put the old directory back if its place is free.
Restore(w) ==
    /\ Goto(w, "restore", "failing")
    /\ IF previous[w].exists /\ ~dest.exists
       THEN /\ dest' = previous[w]
            /\ previous' = [previous EXCEPT ![w] = NoDir]
       ELSE UNCHANGED <<dest, previous>>
    /\ UNCHANGED <<lock, staging, sizes, seenBoot, source, edits, boot>>

\* finally: remove both private directories and let the lock go.
Sweep(w) ==
    /\ \/ Goto(w, "succeeding", "materialized")
       \/ Goto(w, "failing", "failed")
    /\ staging' = [staging EXCEPT ![w] = NoDir]
    /\ previous' = [previous EXCEPT ![w] = NoDir]
    /\ lock' = None
    /\ UNCHANGED <<dest, sizes, seenBoot, source, edits, boot>>

Kill(w) ==
    /\ Goto(w, pc[w], "killed")
    /\ pc[w] \in Held
    /\ lock' = None
    /\ UNCHANGED <<dest, staging, previous, sizes, seenBoot, source, edits,
                   boot>>

Step(w) ==
    \/ PeekManifest(w) \/ PeekFiles(w) \/ PeekRaises(w)
    \/ ListSource(w) \/ SourceRefused(w) \/ Lock(w)
    \/ AlreadyPresent(w) \/ NotPresent(w) \/ NoSpace(w) \/ Stage(w)
    \/ CopyFile(w) \/ CopyEnds(w) \/ Identify(w) \/ WriteManifest(w)
    \/ Validate(w) \/ Displace(w) \/ Install(w) \/ DropPrevious(w)
    \/ Check(w) \/ Raise(w) \/ Restore(w) \/ Sweep(w)

-----------------------------------------------------------------------------
\* A file of the snapshot is replaced, by the one of another revision or back.
EditSource ==
    /\ edits < MaxEdits
    /\ \E f \in Files, c \in Sourced :
           source[f] # c /\ source' = [source EXCEPT ![f] = c]
    /\ edits' = edits + 1
    /\ UNCHANGED <<pc, lock, dest, staging, previous, sizes, seenBoot, boot>>

\* Nothing was ever flushed: what a disk holds after the crash may have its
\* size and nothing else.
Residue(dir) ==
    {[dir EXCEPT !.files =
          [f \in Files |-> IF f \in lost /\ dir.files[f] # "missing"
                           THEN "garbled" ELSE dir.files[f]]] :
     lost \in SUBSET Files}

\* Every process is gone.  RAM is empty; a directory on a disk is still there.
Reboot ==
    /\ boot <= MaxReboots
    /\ boot' = boot + 1
    /\ pc' = [w \in Workers |-> IF pc[w] \in Running THEN "killed" ELSE pc[w]]
    /\ lock' = None
    /\ \/ /\ dest' = NoDir
          /\ staging' = [w \in Workers |-> NoDir]
          /\ previous' = [w \in Workers |-> NoDir]
       \/ /\ dest' \in Residue(dest)
          /\ UNCHANGED <<staging, previous>>
    /\ UNCHANGED <<sizes, seenBoot, source, edits>>

Done == \A w \in Workers : pc[w] \in Terminal

Next ==
    \/ \E w \in Workers : Step(w) \/ Kill(w)
    \/ EditSource
    \/ Reboot
    \/ Done /\ UNCHANGED vars

\* Workers are scheduled, and reading a file ends.
Fairness == \A w \in Workers : WF_vars(Step(w))

Spec == Init /\ [][Next]_vars
FairSpec == Spec /\ Fairness
-----------------------------------------------------------------------------
(***************************************************************************)
(* Properties.                                                             *)
(***************************************************************************)

Standing == {w \in Workers : pc[w] \in Reported /\ seenBoot[w] = boot}

\* Whatever a worker was told by sizes, a manifest and two digests, the cache
\* it reported for this boot has every file, with contents that were read from
\* the snapshot and never what a crash left, and it is the declared revision
\* unless somebody edited the snapshot.
ReportedIsDeclared ==
    Standing # {} =>
        /\ \A f \in Files : dest.files[f] \in Sourced
        /\ Identified(dest.files)
        /\ edits = 0 => \A f \in Files : dest.files[f] = "declared"

\* From the rename to the end of the transaction the cache is ready, so that
\* the last inspection has nothing to undo although a new one is in place.
InstalledStaysReady ==
    \A w \in Workers : pc[w] \in {"drop", "check", "succeeding"} => Ready(dest)

\* A private copy of the model outlives its worker only if that was killed.
LeakIsExplained ==
    \A w \in Workers :
        (staging[w].exists \/ previous[w].exists) /\ pc[w] \in Terminal =>
            pc[w] = "killed"

\* Model weights keep the promise of LocalView too: what a worker reported,
\* also from the inspection without the lock, is ready until the reboot.
View == INSTANCE LocalView WITH held <- Ready(dest), told <- Standing
ImplementsView == View!ViewSpec

\* Every worker ends, and the lock is free when all have.
Termination == <>[](Done /\ lock = None)
=============================================================================
