---------------------------- MODULE LocalInstall ----------------------------
(***************************************************************************)
(* sglang_format.py, materialize_node_from_canonical, and peer.py,         *)
(* materialize_node_from_peer: worker processes on one node that install   *)
(* the rank files of one instance slot at one path of its CPU RAM, while   *)
(* serving engines use the same path.                                      *)
(*                                                                         *)
(* Both workers run the same transaction under <path>.materialize.lock:    *)
(* prune what serving left behind, return when the directory is complete,  *)
(* otherwise fill an incoming directory, check it, rename the old          *)
(* directory away and the new one into place, and undo that on an error.   *)
(* They differ in where the files come from.  A controller whose SSH call  *)
(* timed out leaves its worker running, so a worker is never stopped but   *)
(* by its own death.  Each element of Canonical and Peers runs once.       *)
(***************************************************************************)
EXTENDS Naturals

CONSTANTS
    Canonical,      \* invocations of materialize_node_from_canonical
    Peers,          \* invocations of materialize_node_from_peer
    Files,          \* the rank files the slot's inventory expects
    MaxReboots,     \* bound on reboots of the node
    None            \* no worker holds the lock

Workers == Canonical \cup Peers

ASSUME RebootsAreCounted == MaxReboots \in Nat
ASSUME NoneIsNotAWorker == None \notin Workers
ASSUME SomethingIsExpected == Files # {}

VARIABLES
    pc,         \* where each worker is
    lock,       \* holder of the flock on .<name>.materialize.lock
    dest,       \* the directory at the slot's path
    staging,    \* .<name>.incoming-<token> of each worker
    previous,   \* .<name>.old-<token> of each worker
    seenBoot,   \* the boot_id in the inventory each worker reports
    boot        \* the node's boot_id

vars == <<pc, lock, dest, staging, previous, seenBoot, boot>>

\* What inspection and pruning tell apart: the expected files that have their
\* size, and whether there is anything else, plain files or not.
Dir(files, other) == [exists |-> TRUE, files |-> files, other |-> other]
NoDir == [exists |-> FALSE, files |-> {}, other |-> "nothing"]
Others == {"nothing", "pages", "non-files"}
Dirs == [exists : BOOLEAN, files : SUBSET Files, other : Others]

\* inspect_local_materialization
Valid(dir) == dir.exists /\ dir.files = Files

\* prune_unexpected_local_files refuses a directory with non-files in it.
Pruned(dir) == [exists |-> dir.exists, files |-> dir.files,
                other |-> "nothing"]

Held == {"prune", "inspect", "reserve", "fill", "validate", "displace",
         "install", "drop", "check", "restore", "succeeding", "failing"}
Reported == {"already_present", "materialized"}
Terminal == Reported \cup {"failed", "killed"}

TypeOK ==
    /\ pc \in [Workers -> {"start"} \cup Held \cup Terminal]
    /\ lock \in Workers \cup {None}
    /\ dest \in Dirs
    /\ staging \in [Workers -> Dirs]
    /\ previous \in [Workers -> Dirs]
    /\ seenBoot \in [Workers -> 0..MaxReboots]
    /\ boot \in 0..MaxReboots

\* The path holds nothing yet, or what an engine wrote while prefilling.
Init ==
    /\ pc = [w \in Workers |-> "start"]
    /\ lock = None
    /\ dest \in {NoDir} \cup {Dir(files, "nothing") : files \in SUBSET Files}
    /\ staging = [w \in Workers |-> NoDir]
    /\ previous = [w \in Workers |-> NoDir]
    /\ seenBoot = [w \in Workers |-> 0]
    /\ boot = 0

Goto(w, from, to) ==
    /\ pc[w] = from
    /\ pc' = [pc EXCEPT ![w] = to]

-----------------------------------------------------------------------------
\* Mutated forms of the operations below.
LockShared(w) ==
    /\ Goto(w, "start", "prune")
    /\ lock' = w
    /\ UNCHANGED <<dest, staging, previous, seenBoot, boot>>

NoSpaceLocked(w) ==
    /\ Goto(w, "reserve", "failed")
    /\ UNCHANGED <<lock, dest, staging, previous, seenBoot, boot>>

NotPresentUnchecked(w) ==
    /\ Goto(w, "inspect", "reserve")
    /\ UNCHANGED <<lock, dest, staging, previous, seenBoot, boot>>

ValidateNothing(w) ==
    /\ Goto(w, "validate", "displace")
    /\ UNCHANGED <<lock, dest, staging, previous, seenBoot, boot>>

CheckLaterBoot(w) ==
    /\ pc[w] = "check"
    /\ pc' = [pc EXCEPT ![w] = IF Valid(dest) THEN "succeeding"
                               ELSE "restore"]
    /\ seenBoot' = [seenBoot EXCEPT ![w] = boot + 1]
    /\ UNCHANGED <<lock, dest, staging, previous, boot>>

SweepStagingOnly(w) ==
    /\ \/ Goto(w, "succeeding", "materialized")
       \/ Goto(w, "failing", "failed")
    /\ staging' = [staging EXCEPT ![w] = NoDir]
    /\ lock' = None
    /\ UNCHANGED <<dest, previous, seenBoot, boot>>

-----------------------------------------------------------------------------
\* The route guard of a peer copy raises before the lock is taken.
RouteRefused(w) ==
    /\ w \in Peers
    /\ Goto(w, "start", "failed")
    /\ UNCHANGED <<lock, dest, staging, previous, seenBoot, boot>>

Lock(w) ==
    /\ Goto(w, "start", "prune")
    /\ lock = None
    /\ lock' = w
    /\ UNCHANGED <<dest, staging, previous, seenBoot, boot>>

Prune(w) ==
    /\ Goto(w, "prune", "inspect")
    /\ dest.other # "non-files"
    /\ dest' = Pruned(dest)
    /\ UNCHANGED <<lock, staging, previous, seenBoot, boot>>

\* "refusing unexpected non-file cache entries": nothing was removed.
PruneRefuses(w) ==
    /\ Goto(w, "prune", "failed")
    /\ dest.other = "non-files"
    /\ lock' = None
    /\ UNCHANGED <<dest, staging, previous, seenBoot, boot>>

AlreadyPresent(w) ==
    /\ Goto(w, "inspect", "already_present")
    /\ Valid(dest)
    /\ seenBoot' = [seenBoot EXCEPT ![w] = boot]
    /\ lock' = None
    /\ UNCHANGED <<dest, staging, previous, boot>>

NotPresent(w) ==
    /\ Goto(w, "inspect", "reserve")
    /\ ~Valid(dest)
    /\ UNCHANGED <<lock, dest, staging, previous, seenBoot, boot>>

\* "insufficient /dev/shm space"
NoSpace(w) ==
    /\ Goto(w, "reserve", "failed")
    /\ lock' = None
    /\ UNCHANGED <<dest, staging, previous, seenBoot, boot>>

Stage(w) ==
    /\ Goto(w, "reserve", "fill")
    /\ staging' = [staging EXCEPT ![w] = Dir({}, "nothing")]
    /\ UNCHANGED <<lock, dest, previous, seenBoot, boot>>

\* Every file is written under a temporary name and renamed.
FillFromCanonical(w) ==
    /\ w \in Canonical
    /\ Goto(w, "fill", "validate")
    /\ staging' = [staging EXCEPT ![w] = Dir(Files, "nothing")]
    /\ UNCHANGED <<lock, dest, previous, seenBoot, boot>>

\* rsync copies what the source holds by now, which its own engine or a
\* worker there may have changed since the controller inspected it; extra
\* pages are then pruned.
FillFromPeer(w) ==
    /\ w \in Peers
    /\ Goto(w, "fill", "validate")
    /\ \E files \in SUBSET Files :
           staging' = [staging EXCEPT ![w] = Dir(files, "nothing")]
    /\ UNCHANGED <<lock, dest, previous, seenBoot, boot>>

\* A canonical page is missing, memory is full, rsync fails or times out, or
\* the copy holds non-files.  What was written so far does not matter.
FillFails(w) ==
    /\ Goto(w, "fill", "restore")
    /\ UNCHANGED <<lock, dest, staging, previous, seenBoot, boot>>

Validate(w) ==
    /\ pc[w] = "validate"
    /\ pc' = [pc EXCEPT ![w] = IF Valid(staging[w]) THEN "displace"
                               ELSE "restore"]
    /\ UNCHANGED <<lock, dest, staging, previous, seenBoot, boot>>

\* if destination_path.exists(): destination_path.replace(previous)
Displace(w) ==
    /\ Goto(w, "displace", "install")
    /\ previous' = [previous EXCEPT ![w] = dest]
    /\ dest' = NoDir
    /\ UNCHANGED <<lock, staging, seenBoot, boot>>

\* rename(2) puts a directory in the place of none or of an empty one.
Installable(dir) == dir.files = {} /\ dir.other = "nothing"

\* staging.replace(destination_path)
Install(w) ==
    /\ Goto(w, "install", "drop")
    /\ Installable(dest)
    /\ dest' = staging[w]
    /\ staging' = [staging EXCEPT ![w] = NoDir]
    /\ UNCHANGED <<lock, previous, seenBoot, boot>>

\* One of the two renames fails: the second for ENOTEMPTY when an engine has
\* brought the directory back and written to it, be it only part of a file,
\* which dest does not show; either for any other reason.
InstallFails(w) ==
    /\ Goto(w, "displace", "restore") \/ Goto(w, "install", "restore")
    /\ UNCHANGED <<lock, dest, staging, previous, seenBoot, boot>>

DropPrevious(w) ==
    /\ Goto(w, "drop", "check")
    /\ previous' = [previous EXCEPT ![w] = NoDir]
    /\ UNCHANGED <<lock, dest, staging, seenBoot, boot>>

\* The last inspection, whose inventory is reported.
Check(w) ==
    /\ pc[w] = "check"
    /\ pc' = [pc EXCEPT ![w] = IF Valid(dest) THEN "succeeding"
                               ELSE "restore"]
    /\ seenBoot' = [seenBoot EXCEPT ![w] = boot]
    /\ UNCHANGED <<lock, dest, staging, previous, boot>>

\* except BaseException: put the old directory back if its place is free.
Restore(w) ==
    /\ Goto(w, "restore", "failing")
    /\ IF previous[w].exists /\ ~dest.exists
       THEN /\ dest' = previous[w]
            /\ previous' = [previous EXCEPT ![w] = NoDir]
       ELSE UNCHANGED <<dest, previous>>
    /\ UNCHANGED <<lock, staging, seenBoot, boot>>

\* finally: remove both private directories and let the lock go.
Sweep(w) ==
    /\ \/ Goto(w, "succeeding", "materialized")
       \/ Goto(w, "failing", "failed")
    /\ staging' = [staging EXCEPT ![w] = NoDir]
    /\ previous' = [previous EXCEPT ![w] = NoDir]
    /\ lock' = None
    /\ UNCHANGED <<dest, seenBoot, boot>>

Kill(w) ==
    /\ Goto(w, pc[w], "killed")
    /\ pc[w] \in Held
    /\ lock' = None
    /\ UNCHANGED <<dest, staging, previous, seenBoot, boot>>

Step(w) ==
    \/ RouteRefused(w) \/ Lock(w)
    \/ Prune(w) \/ PruneRefuses(w)
    \/ AlreadyPresent(w) \/ NotPresent(w)
    \/ NoSpace(w) \/ Stage(w)
    \/ FillFromCanonical(w) \/ FillFromPeer(w) \/ FillFails(w)
    \/ Validate(w) \/ Displace(w) \/ Install(w) \/ InstallFails(w)
    \/ DropPrevious(w) \/ Check(w)
    \/ Restore(w) \/ Sweep(w)

-----------------------------------------------------------------------------
(* The node.  Engines take no lock; they add files and never remove one.    *)

\* An engine starts, and creates the directory it is configured with.
EngineStarts ==
    /\ ~dest.exists
    /\ dest' = Dir({}, "nothing")

\* Prefill writes an expected rank file, decoding pages beyond the checkpoint.
EngineWrites ==
    /\ dest.exists
    /\ \/ \E f \in Files : dest' = Dir(dest.files \cup {f}, dest.other)
       \/ /\ dest.other = "nothing"
          /\ dest' = Dir(dest.files, "pages")

\* Something that is no plain file turns up in the directory.
Clutter ==
    /\ dest.exists
    /\ dest' = Dir(dest.files, "non-files")

Engine ==
    /\ EngineStarts \/ EngineWrites \/ Clutter
    /\ UNCHANGED <<pc, lock, staging, previous, seenBoot, boot>>

\* /dev/shm is empty afterwards and every process is gone.
Reboot ==
    /\ boot < MaxReboots
    /\ boot' = boot + 1
    /\ pc' = [w \in Workers |-> IF pc[w] \in Held THEN "killed" ELSE pc[w]]
    /\ lock' = None
    /\ dest' = NoDir
    /\ staging' = [w \in Workers |-> NoDir]
    /\ previous' = [w \in Workers |-> NoDir]
    /\ UNCHANGED seenBoot

Done == \A w \in Workers : pc[w] \in Terminal

Next ==
    \/ \E w \in Workers : Step(w) \/ Kill(w)
    \/ Engine
    \/ Reboot
    \/ Done /\ UNCHANGED vars

\* Workers are scheduled; copies end, rsync by its timeout if not before.
Fairness == \A w \in Workers : WF_vars(Step(w))

Spec == Init /\ [][Next]_vars
FairSpec == Spec /\ Fairness

-----------------------------------------------------------------------------
(***************************************************************************)
(* Properties.                                                             *)
(***************************************************************************)

\* What a worker reported stays true for the boot it was reported in: no
\* other worker, however it ends, takes a complete directory away again.
ReportedIsValid ==
    \A w \in Workers :
        pc[w] \in Reported /\ seenBoot[w] = boot => Valid(dest)

\* Between the rename and the end of the transaction the directory is
\* complete, so that the last inspection never finds anything to undo.
InstalledStaysValid ==
    \A w \in Workers : pc[w] \in {"drop", "check", "succeeding"} => Valid(dest)

\* A private directory outlives its worker only if the worker was killed.
LeakIsExplained ==
    \A w \in Workers :
        (staging[w].exists \/ previous[w].exists) /\ pc[w] \in Terminal =>
            pc[w] = "killed"

\* Workers and engines together keep the promise of LocalView: a view that has
\* been reported is there until the reboot, and every report is of a view that
\* is there.
Standing == {w \in Workers : pc[w] \in Reported /\ seenBoot[w] = boot}
View == INSTANCE LocalView WITH held <- Valid(dest), told <- Standing
ImplementsView == View!ViewSpec

\* Every worker ends, and the lock is free when all have.
Termination == <>[](Done /\ lock = None)

\* "If installation fails, the previous valid directory is restored": a
\* complete directory that was renamed away is thrown away only when a
\* complete one stands in its place.
ValidPreviousKept ==
    [][\A w \in Workers :
           Valid(previous[w]) /\ ~previous'[w].exists /\ boot' = boot =>
               Valid(dest')]_vars
=============================================================================
