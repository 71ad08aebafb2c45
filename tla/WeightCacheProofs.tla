--------------------------- MODULE WeightCacheProofs -------------------------
(***************************************************************************)
(* Proofs about WeightCache, for any workers, files, edits and reboots:    *)
(* what a worker reported is the declared model and stays so, an installed *)
(* cache is ready, private copies are swept, and the cache implements      *)
(* LocalView.                                                              *)
(***************************************************************************)
EXTENDS WeightCache, TLAPS

(***************************************************************************)
(* The inductive invariant.  Within one boot the path holds a directory    *)
(* that is not ready, then possibly nothing, then one that is ready until  *)
(* the reboot.  The lock makes that so for those who hold it.  A worker    *)
(* that peeks without it may compare the manifest of the first directory   *)
(* with the files of the last: it then succeeds only when the last is      *)
(* ready, because the comparison with the first one fails.                 *)
(***************************************************************************)

\* A worker inside the transaction holds the lock.
HolderHasLock == \A w \in Workers : pc[w] \in Held => lock = w

\* Reports and manifests come from boots that have happened.
SeenIsPast == \A w \in Workers : seenBoot[w] <= boot
ManifestsArePast ==
    /\ dest.manifest.boot <= boot
    /\ \A w \in Workers : previous[w].manifest.boot <= boot

\* While a worker replaces the cache, or undoes that, it is not ready.
Replacing == {"reserve", "copy", "identify", "manifest", "validate",
              "displace", "install", "restore"}
ReplacingNotReady == \A w \in Workers : pc[w] \in Replacing => ~Ready(dest)

\* What is about to be installed has been validated.
StagedIsReady ==
    \A w \in Workers : pc[w] \in {"displace", "install"} => Ready(staging[w])

\* Private directories exist inside the transaction or after a kill.
PrivateIsOwned ==
    \A w \in Workers :
        staging[w].exists \/ previous[w].exists =>
            pc[w] \in Held \cup {"killed"}
PreviousNotYet ==
    \A w \in Workers :
        pc[w] \in {"start", "inspect", "reserve", "copy", "identify",
                   "manifest", "validate", "displace"} \cup Unlocked =>
            ~previous[w].exists
StagingNotYet ==
    \A w \in Workers :
        pc[w] \in {"start", "inspect", "reserve"} \cup Unlocked =>
            staging[w] = NoDir

\* What has been renamed away left nothing in its place and was not ready.
Displaced(w) == pc[w] \in {"install", "restore"} /\ previous[w].exists
DisplacedIsStale ==
    \A w \in Workers :
        Displaced(w) => dest = NoDir /\ ~Ready(previous[w])

\* The comparison without the lock succeeds only on a ready cache.
PeekIsSafe ==
    \A v \in Workers :
        pc[v] = "peek" =>
            /\ FilesHold(dest, sizes[v]) => Ready(dest)
            /\ \A w \in Workers :
                   Displaced(w) => ~FilesHold(previous[w], sizes[v])

\* The snapshot is one revision until somebody edits it, and the declared one
\* if a worker got as far as copying it.
OneRevision ==
    edits = 0 => \/ \A f \in Files : source[f] = "declared"
                 \/ \A f \in Files : source[f] = "alien"
ListedIsDeclared ==
    \A w \in Workers :
        pc[w] \in {"wait"} \cup Held /\ edits = 0 =>
            \A f \in Files : source[f] = "declared"

\* Contents that came from the snapshot.
Good(files) ==
    \A f \in Files :
        /\ files[f] \in Sourced \cup {"missing"}
        /\ edits = 0 => files[f] \in {"declared", "missing"}
StagedIsGood == \A w \in Workers : pc[w] \in Held => Good(staging[w].files)
ReadyIsGood == Ready(dest) => Good(dest.files)

ReportedIsReady == Standing # {} => Ready(dest)

IInv ==
    /\ TypeOK
    /\ HolderHasLock
    /\ SeenIsPast
    /\ ManifestsArePast
    /\ ReplacingNotReady
    /\ StagedIsReady
    /\ PrivateIsOwned
    /\ PreviousNotYet
    /\ StagingNotYet
    /\ DisplacedIsStale
    /\ PeekIsSafe
    /\ OneRevision
    /\ ListedIsDeclared
    /\ StagedIsGood
    /\ ReadyIsGood
    /\ ReportedIsReady
    /\ InstalledStaysReady

\* Sizes are sizes, and every file has one.
LEMMA SizeType ==
    ASSUME NEW files \in [Files -> Contents] PROVE SizesOf(files) \in Sizes
<1>1. \A c \in Contents : Size(c) \in {"short", "none", "full"}
  BY DEF Size
<1> QED
  BY <1>1 DEF SizesOf, Sizes

\* What is not there neither has a manifest nor any file.
LEMMA NothingIsReady ==
    /\ NoDir \in Dirs
    /\ ~ManifestHolds(NoDir)
    /\ ~Ready(NoDir)
    /\ \A s : ~FilesHold(NoDir, s)
<1>1. NoDir \in Dirs
  BY BoundsAreCounted
     DEF NoDir, Dirs, NoManifest, Manifests, Sizes, NoFiles, Contents
<1>2. ~ManifestHolds(NoDir)
  BY DEF NoDir, ManifestHolds, NoManifest
<1>3. PICK f \in Files : TRUE
  BY IdentityIsKnown
<1>4. \A s : ~FilesHold(NoDir, s)
  BY <1>3 DEF NoDir, NoFiles, FilesHold
<1> QED
  BY <1>1, <1>2, <1>4 DEF Ready

\* The invariant holds whatever the node and the snapshot start with.
LEMMA InitInv == Init => IInv
<1> SUFFICES ASSUME Init PROVE IInv
  OBVIOUS
<1> USE BoundsAreCounted
<1>1. Full \in Sizes /\ [f \in Files |-> "none"] \in Sizes
  BY DEF Full, Sizes
<1>2. dest \in Dirs /\ dest.manifest.boot <= 1
  <2>1. CASE dest = NoDir
    BY <2>1, NothingIsReady DEF NoDir, NoManifest
  <2>2. ASSUME NEW files \in [Files -> {"declared", "cut"}],
               dest = Dir(Manifest(1, Full), files)
        PROVE  dest \in Dirs /\ dest.manifest.boot <= 1
    BY <1>1, <2>2 DEF Dir, Dirs, Manifest, Manifests, Contents, Sourced
  <2>3. ASSUME NEW files \in [Files -> {"declared", "garbled"}],
               dest = Dir(Manifest(0, Full), files)
        PROVE  dest \in Dirs /\ dest.manifest.boot <= 1
    BY <1>1, <2>3 DEF Dir, Dirs, Manifest, Manifests, Contents, Sourced
  <2> QED
    BY <2>1, <2>2, <2>3 DEF Init
<1>3. SizesOf(NoFiles) \in Sizes
  BY SizeType DEF NoFiles, Contents
<1>4. TypeOK
  BY <1>2, <1>3, NothingIsReady DEF Init, TypeOK, Sourced
<1>5. \A w \in Workers : pc[w] = "start" /\ seenBoot[w] = 0
  BY DEF Init
<1>6. \A w \in Workers : staging[w] = NoDir /\ previous[w] = NoDir
  BY DEF Init
<1>7. ReadyIsGood
  <2> SUFFICES ASSUME Ready(dest) PROVE Good(dest.files)
    BY DEF ReadyIsGood
  <2>1. PICK files \in [Files -> {"declared", "cut"}] :
            dest = Dir(Manifest(1, Full), files)
    BY NothingIsReady
       DEF Init, Ready, ManifestHolds, Dir, Manifest
  <2>2. \A f \in Files : Size(files[f]) = "full"
    BY <2>1 DEF Ready, FilesHold, Dir, Manifest, Full
  <2>3. \A f \in Files : files[f] = "declared"
    BY <2>2 DEF Size
  <2> QED
    BY <2>1, <2>3 DEF Good, Dir, Sourced
<1>8. OneRevision
  BY DEF Init, OneRevision
<1>9. ManifestsArePast
  BY <1>2, <1>6 DEF ManifestsArePast, NoDir, NoManifest, Init
<1>10. Standing = {}
  BY <1>5 DEF Standing, Reported
<1>11. /\ HolderHasLock /\ SeenIsPast /\ ReplacingNotReady /\ StagedIsReady
       /\ PrivateIsOwned /\ PreviousNotYet /\ StagingNotYet
       /\ DisplacedIsStale /\ PeekIsSafe /\ ListedIsDeclared
       /\ StagedIsGood /\ InstalledStaysReady
  BY <1>5, <1>6
     DEF HolderHasLock, SeenIsPast, ReplacingNotReady, StagedIsReady,
         PrivateIsOwned, PreviousNotYet, StagingNotYet, DisplacedIsStale,
         Displaced, PeekIsSafe, ListedIsDeclared, StagedIsGood,
         InstalledStaysReady, Held, Replacing, NoDir, Init
<1> QED
  BY <1>4, <1>7, <1>8, <1>9, <1>10, <1>11 DEF IInv, ReportedIsReady

\* Every way into the transaction takes the lock, every way out frees it.
LEMMA StepLock == IInv /\ [Next]_vars => HolderHasLock'
<1> SUFFICES ASSUME IInv, [Next]_vars PROVE HolderHasLock'
  OBVIOUS
<1> USE NoneIsNotAWorker
<1> USE DEF IInv, TypeOK, Goto, HolderHasLock, Held
<1>1. ASSUME NEW w \in Workers,
             \/ PeekManifest(w) \/ PeekFiles(w) \/ PeekRaises(w)
             \/ ListSource(w) \/ SourceRefused(w) \/ Lock(w)
             \/ AlreadyPresent(w) \/ NotPresent(w) \/ NoSpace(w) \/ Stage(w)
             \/ CopyFile(w) \/ CopyEnds(w) \/ Identify(w) \/ WriteManifest(w)
             \/ Validate(w) \/ Displace(w) \/ Install(w) \/ DropPrevious(w)
             \/ Check(w) \/ Raise(w) \/ Restore(w) \/ Sweep(w) \/ Kill(w)
      PROVE  HolderHasLock'
  BY <1>1 DEF PeekManifest, PeekFiles, PeekRaises, ListSource, SourceRefused,
         Lock, AlreadyPresent, NotPresent, NoSpace, Stage, CopyFile, CopyEnds,
         Identify, WriteManifest, Validate, Displace, Install, DropPrevious,
         Check, Raise, Restore, Sweep, Kill
<1>2. CASE EditSource
  BY <1>2 DEF EditSource
<1>3. CASE Reboot
  BY <1>3 DEF Reboot, Running, Unlocked
<1>4. CASE UNCHANGED vars
  BY <1>4 DEF vars
<1> QED
  BY <1>1, <1>2, <1>3, <1>4 DEF Next, Step

\* Reports carry the boot they were made in.
LEMMA StepSeen == IInv /\ [Next]_vars => SeenIsPast'
<1> SUFFICES ASSUME IInv, [Next]_vars PROVE SeenIsPast'
  OBVIOUS
<1> USE BoundsAreCounted
<1> USE DEF IInv, TypeOK, Goto, SeenIsPast
<1>1. ASSUME NEW w \in Workers,
             \/ PeekManifest(w) \/ PeekFiles(w) \/ PeekRaises(w)
             \/ ListSource(w) \/ SourceRefused(w) \/ Lock(w)
             \/ AlreadyPresent(w) \/ NotPresent(w) \/ NoSpace(w) \/ Stage(w)
             \/ CopyFile(w) \/ CopyEnds(w) \/ Identify(w) \/ WriteManifest(w)
             \/ Validate(w) \/ Displace(w) \/ Install(w) \/ DropPrevious(w)
             \/ Check(w) \/ Raise(w) \/ Restore(w) \/ Sweep(w) \/ Kill(w)
      PROVE  SeenIsPast'
  BY <1>1 DEF PeekManifest, PeekFiles, PeekRaises, ListSource, SourceRefused,
         Lock, AlreadyPresent, NotPresent, NoSpace, Stage, CopyFile, CopyEnds,
         Identify, WriteManifest, Validate, Displace, Install, DropPrevious,
         Check, Raise, Restore, Sweep, Kill
<1>2. CASE EditSource
  BY <1>2 DEF EditSource
<1>3. CASE Reboot
  BY <1>3 DEF Reboot
<1>4. CASE UNCHANGED vars
  BY <1>4 DEF vars
<1> QED
  BY <1>1, <1>2, <1>3, <1>4 DEF Next, Step

\* A crash changes what files hold, not what the manifest says.
LEMMA ResidueType ==
    ASSUME NEW d \in Dirs, NEW dir \in Residue(d)
    PROVE  dir \in Dirs /\ dir.manifest = d.manifest
<1>1. PICK lost \in SUBSET Files :
          dir = [d EXCEPT !.files =
                     [f \in Files |-> IF f \in lost /\ d.files[f] # "missing"
                                      THEN "garbled" ELSE d.files[f]]]
  BY DEF Residue
<1>2. [f \in Files |-> IF f \in lost /\ d.files[f] # "missing"
                       THEN "garbled" ELSE d.files[f]] \in [Files -> Contents]
  BY DEF Dirs, Contents
<1> QED
  BY <1>1, <1>2 DEF Dirs

\* Every step preserves the types.
LEMMA StepType == IInv /\ [Next]_vars => TypeOK'
<1> SUFFICES ASSUME IInv, [Next]_vars PROVE TypeOK'
  OBVIOUS
<1> USE BoundsAreCounted, NoneIsNotAWorker, NothingIsReady
<1> USE DEF IInv, TypeOK, Goto, Held, Running, Unlocked, Terminal, Reported
<1>1. ASSUME NEW w \in Workers, PeekManifest(w) PROVE TypeOK'
  <2>1. dest.manifest.sizes \in Sizes
    BY DEF Dirs, Manifests
  <2> QED
    BY <1>1, <2>1 DEF PeekManifest
<1>2. ASSUME NEW w \in Workers, PeekFiles(w) PROVE TypeOK'
  BY <1>2 DEF PeekFiles
<1>3. ASSUME NEW w \in Workers, ListSource(w) PROVE TypeOK'
  <2>1. SizesOf(source) \in Sizes
    BY SizeType DEF Sourced, Contents
  <2> QED
    BY <1>3, <2>1 DEF ListSource
<1>4. ASSUME NEW w \in Workers, AlreadyPresent(w) PROVE TypeOK'
  BY <1>4 DEF AlreadyPresent
<1>5. ASSUME NEW w \in Workers, Stage(w) PROVE TypeOK'
  <2>1. Dir(NoManifest, NoFiles) \in Dirs
    BY DEF Dir, Dirs, NoDir
  <2> QED
    BY <1>5, <2>1 DEF Stage
<1>6. ASSUME NEW w \in Workers, CopyFile(w) PROVE TypeOK'
  <2>1. PICK f \in Files :
            /\ staging' = [staging EXCEPT ![w].files[f] = source[f]]
            /\ Goto(w, "copy", IF Size(source[f]) = sizes[w][f] THEN "copy"
                               ELSE "restore")
    BY <1>6 DEF CopyFile
  <2>2. staging' \in [Workers -> Dirs]
    BY <2>1 DEF Dirs, Contents
  <2>3. pc' \in [Workers -> {"start"} \cup Running \cup Terminal]
    BY <2>1
  <2> QED
    BY <1>6, <2>2, <2>3 DEF CopyFile
<1>7. ASSUME NEW w \in Workers, WriteManifest(w) PROVE TypeOK'
  <2>1. Manifest(boot, sizes[w]) \in Manifests
    BY DEF Manifest, Manifests
  <2>2. staging' \in [Workers -> Dirs]
    BY <1>7, <2>1 DEF WriteManifest, Dirs
  <2> QED
    BY <1>7, <2>2 DEF WriteManifest
<1>8. ASSUME NEW w \in Workers, Displace(w) PROVE TypeOK'
  BY <1>8 DEF Displace
<1>9. ASSUME NEW w \in Workers, Install(w) PROVE TypeOK'
  BY <1>9 DEF Install
<1>10. ASSUME NEW w \in Workers, DropPrevious(w) PROVE TypeOK'
  BY <1>10 DEF DropPrevious
<1>11. ASSUME NEW w \in Workers, Check(w) PROVE TypeOK'
  BY <1>11 DEF Check
<1>12. ASSUME NEW w \in Workers, Restore(w) PROVE TypeOK'
  <2>1. dest' \in Dirs /\ previous' \in [Workers -> Dirs]
    BY <1>12 DEF Restore
  <2> QED
    BY <1>12, <2>1 DEF Restore
<1>13. ASSUME NEW w \in Workers, Sweep(w) PROVE TypeOK'
  BY <1>13 DEF Sweep
<1>14. ASSUME NEW w \in Workers,
             \/ PeekRaises(w) \/ SourceRefused(w) \/ Lock(w) \/ NotPresent(w)
             \/ NoSpace(w) \/ CopyEnds(w) \/ Identify(w) \/ Validate(w)
             \/ Raise(w) \/ Kill(w)
      PROVE  TypeOK'
  BY <1>14 DEF PeekRaises, SourceRefused, Lock, NotPresent, NoSpace, CopyEnds,
         Identify, Validate, Raise, Kill
<1>15. CASE EditSource
  <2>1. source' \in [Files -> Sourced]
    BY <1>15 DEF EditSource
  <2> QED
    BY <1>15, <2>1 DEF EditSource
<1>16. CASE Reboot
  <2>1. \A dir \in Residue(dest) : dir \in Dirs
    BY ResidueType
  <2>2. dest' \in Dirs /\ staging' \in [Workers -> Dirs]
        /\ previous' \in [Workers -> Dirs]
    BY <1>16, <2>1 DEF Reboot
  <2> QED
    BY <1>16, <2>2 DEF Reboot
<1>17. CASE UNCHANGED vars
  BY <1>17 DEF vars
<1> QED
  BY <1>1, <1>2, <1>3, <1>4, <1>5, <1>6, <1>7, <1>8, <1>9, <1>10, <1>11, <1>12,
     <1>13, <1>14, <1>15, <1>16, <1>17 DEF Next, Step

\* Private directories appear after the lock and go before it.
LEMMA StepOwned ==
    IInv /\ [Next]_vars =>
        (PrivateIsOwned /\ PreviousNotYet /\ StagingNotYet)'
<1> SUFFICES ASSUME IInv, [Next]_vars
             PROVE  (PrivateIsOwned /\ PreviousNotYet /\ StagingNotYet)'
  OBVIOUS
<1> USE NoneIsNotAWorker
<1>a. ~NoDir.exists
  BY DEF NoDir
<1> USE <1>a
<1> USE DEF IInv, TypeOK, Goto, PrivateIsOwned, PreviousNotYet, StagingNotYet,
            InstalledStaysReady, Held, Unlocked, Running
<1>1. ASSUME NEW w \in Workers, Restore(w)
      PROVE  (PrivateIsOwned /\ PreviousNotYet /\ StagingNotYet)'
  BY <1>1 DEF Restore
<1>2. ASSUME NEW w \in Workers, Check(w)
      PROVE  (PrivateIsOwned /\ PreviousNotYet /\ StagingNotYet)'
  BY <1>2 DEF Check
<1>3. ASSUME NEW w \in Workers,
             \/ PeekManifest(w) \/ PeekFiles(w) \/ PeekRaises(w)
             \/ ListSource(w) \/ SourceRefused(w) \/ Lock(w)
             \/ AlreadyPresent(w) \/ NotPresent(w) \/ NoSpace(w) \/ Stage(w)
             \/ CopyFile(w) \/ CopyEnds(w) \/ Identify(w) \/ WriteManifest(w)
             \/ Validate(w) \/ Displace(w) \/ Install(w) \/ DropPrevious(w)
             \/ Raise(w) \/ Sweep(w) \/ Kill(w)
      PROVE  (PrivateIsOwned /\ PreviousNotYet /\ StagingNotYet)'
  BY <1>3 DEF PeekManifest, PeekFiles, PeekRaises, ListSource, SourceRefused,
         Lock, AlreadyPresent, NotPresent, NoSpace, Stage, CopyFile, CopyEnds,
         Identify, WriteManifest, Validate, Displace, Install, DropPrevious,
         Raise, Sweep, Kill
<1>4. CASE EditSource
  BY <1>4 DEF EditSource
<1>5. CASE Reboot
  BY <1>5 DEF Reboot, NoDir
<1>6. CASE UNCHANGED vars
  BY <1>6 DEF vars
<1> QED
  BY <1>1, <1>2, <1>3, <1>4, <1>5, <1>6 DEF Next, Step

\* A replacement starts from a cache that is not ready, under the lock.
LEMMA StepReplacing == IInv /\ [Next]_vars => ReplacingNotReady'
<1> SUFFICES ASSUME IInv, [Next]_vars PROVE ReplacingNotReady'
  OBVIOUS
<1> USE NoneIsNotAWorker, NothingIsReady
<1> USE DEF IInv, TypeOK, Goto, Held, HolderHasLock, ReplacingNotReady,
            Replacing, InstalledStaysReady, Ready, ManifestHolds
<1>1. ASSUME NEW w \in Workers, Displace(w) PROVE ReplacingNotReady'
  BY <1>1 DEF Displace
<1>2. ASSUME NEW w \in Workers, Install(w) PROVE ReplacingNotReady'
  BY <1>2 DEF Install
<1>3. ASSUME NEW w \in Workers, Restore(w) PROVE ReplacingNotReady'
  BY <1>3 DEF Restore
<1>4. ASSUME NEW w \in Workers,
             \/ PeekManifest(w) \/ PeekFiles(w) \/ PeekRaises(w)
             \/ ListSource(w) \/ SourceRefused(w) \/ Lock(w)
             \/ AlreadyPresent(w) \/ NotPresent(w) \/ NoSpace(w) \/ Stage(w)
             \/ CopyFile(w) \/ CopyEnds(w) \/ Identify(w) \/ WriteManifest(w)
             \/ Validate(w) \/ DropPrevious(w) \/ Check(w) \/ Raise(w)
             \/ Sweep(w) \/ Kill(w)
      PROVE  ReplacingNotReady'
  BY <1>4 DEF PeekManifest, PeekFiles, PeekRaises, ListSource, SourceRefused,
         Lock, AlreadyPresent, NotPresent, NoSpace, Stage, CopyFile, CopyEnds,
         Identify, WriteManifest, Validate, DropPrevious, Check, Raise, Sweep,
         Kill
<1>5. CASE EditSource
  BY <1>5 DEF EditSource
<1>6. CASE Reboot
  BY <1>6 DEF Reboot, Running
<1>7. CASE UNCHANGED vars
  BY <1>7 DEF vars
<1> QED
  BY <1>1, <1>2, <1>3, <1>4, <1>5, <1>6, <1>7 DEF Next, Step

\* Only validation leads to the renames.
LEMMA StepStaged == IInv /\ [Next]_vars => StagedIsReady'
<1> SUFFICES ASSUME IInv, [Next]_vars PROVE StagedIsReady'
  OBVIOUS
<1> USE NoneIsNotAWorker
<1> USE DEF IInv, TypeOK, Goto, Held, StagedIsReady, Ready, ManifestHolds
<1>1. ASSUME NEW w \in Workers, Validate(w) PROVE StagedIsReady'
  BY <1>1 DEF Validate
<1>2. ASSUME NEW w \in Workers, Install(w) PROVE StagedIsReady'
  BY <1>2 DEF Install
<1>3. ASSUME NEW w \in Workers,
             \/ PeekManifest(w) \/ PeekFiles(w) \/ PeekRaises(w)
             \/ ListSource(w) \/ SourceRefused(w) \/ Lock(w)
             \/ AlreadyPresent(w) \/ NotPresent(w) \/ NoSpace(w) \/ Stage(w)
             \/ CopyFile(w) \/ CopyEnds(w) \/ Identify(w) \/ WriteManifest(w)
             \/ Displace(w) \/ DropPrevious(w) \/ Check(w) \/ Raise(w)
             \/ Restore(w) \/ Sweep(w) \/ Kill(w)
      PROVE  StagedIsReady'
  BY <1>3 DEF PeekManifest, PeekFiles, PeekRaises, ListSource, SourceRefused,
         Lock, AlreadyPresent, NotPresent, NoSpace, Stage, CopyFile, CopyEnds,
         Identify, WriteManifest, Displace, DropPrevious, Check, Raise,
         Restore, Sweep, Kill
<1>4. CASE EditSource
  BY <1>4 DEF EditSource
<1>5. CASE Reboot
  BY <1>5 DEF Reboot, Running
<1>6. CASE UNCHANGED vars
  BY <1>6 DEF vars
<1> QED
  BY <1>1, <1>2, <1>3, <1>4, <1>5, <1>6 DEF Next, Step

\* What was renamed away stays as it was, and its place stays free.
LEMMA StepDisplaced == IInv /\ [Next]_vars => DisplacedIsStale'
<1> SUFFICES ASSUME IInv, [Next]_vars PROVE DisplacedIsStale'
  OBVIOUS
<1> USE NoneIsNotAWorker
<1> USE DEF IInv, TypeOK, Goto, Held, HolderHasLock, DisplacedIsStale,
            Displaced, ReplacingNotReady, Replacing, PreviousNotYet,
            InstalledStaysReady, Ready, ManifestHolds
<1>1. ASSUME NEW w \in Workers, Displace(w) PROVE DisplacedIsStale'
  BY <1>1 DEF Displace
<1>2. ASSUME NEW w \in Workers, Install(w) PROVE DisplacedIsStale'
  BY <1>2 DEF Install
<1>3. ASSUME NEW w \in Workers, Restore(w) PROVE DisplacedIsStale'
  BY <1>3 DEF Restore
<1>4. ASSUME NEW w \in Workers, DropPrevious(w) PROVE DisplacedIsStale'
  BY <1>4 DEF DropPrevious
<1>5. ASSUME NEW w \in Workers, Check(w) PROVE DisplacedIsStale'
  BY <1>5 DEF Check
<1>6. ASSUME NEW w \in Workers,
             \/ PeekManifest(w) \/ PeekFiles(w) \/ PeekRaises(w)
             \/ ListSource(w) \/ SourceRefused(w) \/ Lock(w)
             \/ AlreadyPresent(w) \/ NotPresent(w) \/ NoSpace(w) \/ Stage(w)
             \/ CopyFile(w) \/ CopyEnds(w) \/ Identify(w) \/ WriteManifest(w)
             \/ Validate(w) \/ Raise(w) \/ Sweep(w) \/ Kill(w)
      PROVE  DisplacedIsStale'
  BY <1>6 DEF PeekManifest, PeekFiles, PeekRaises, ListSource, SourceRefused,
         Lock, AlreadyPresent, NotPresent, NoSpace, Stage, CopyFile, CopyEnds,
         Identify, WriteManifest, Validate, Raise, Sweep, Kill
<1>7. CASE EditSource
  BY <1>7 DEF EditSource
<1>8. CASE Reboot
  BY <1>8 DEF Reboot, Running
<1>9. CASE UNCHANGED vars
  BY <1>9 DEF vars
<1> QED
  BY <1>1, <1>2, <1>3, <1>4, <1>5, <1>6, <1>7, <1>8, <1>9 DEF Next, Step

\* No manifest names a boot to come.
LEMMA StepManifests == IInv /\ [Next]_vars => ManifestsArePast'
<1> SUFFICES ASSUME IInv, [Next]_vars PROVE ManifestsArePast'
  OBVIOUS
<1> USE BoundsAreCounted
<1> USE DEF IInv, TypeOK, Goto, Held, ManifestsArePast, StagedIsReady, Ready,
            ManifestHolds
<1>1. ASSUME NEW w \in Workers, Displace(w) PROVE ManifestsArePast'
  BY <1>1 DEF Displace, NoDir, NoManifest
<1>2. ASSUME NEW w \in Workers, Install(w) PROVE ManifestsArePast'
  BY <1>2 DEF Install, NoDir, NoManifest
<1>3. ASSUME NEW w \in Workers, Restore(w) PROVE ManifestsArePast'
  BY <1>3 DEF Restore, NoDir, NoManifest
<1>4. ASSUME NEW w \in Workers, DropPrevious(w) PROVE ManifestsArePast'
  BY <1>4 DEF DropPrevious, NoDir, NoManifest
<1>5. ASSUME NEW w \in Workers, Sweep(w) PROVE ManifestsArePast'
  BY <1>5 DEF Sweep, NoDir, NoManifest
<1>6. ASSUME NEW w \in Workers,
             \/ PeekManifest(w) \/ PeekFiles(w) \/ PeekRaises(w)
             \/ ListSource(w) \/ SourceRefused(w) \/ Lock(w)
             \/ AlreadyPresent(w) \/ NotPresent(w) \/ NoSpace(w) \/ Stage(w)
             \/ CopyFile(w) \/ CopyEnds(w) \/ Identify(w) \/ WriteManifest(w)
             \/ Validate(w) \/ Check(w) \/ Raise(w) \/ Kill(w)
      PROVE  ManifestsArePast'
  BY <1>6 DEF PeekManifest, PeekFiles, PeekRaises, ListSource, SourceRefused,
         Lock, AlreadyPresent, NotPresent, NoSpace, Stage, CopyFile, CopyEnds,
         Identify, WriteManifest, Validate, Check, Raise, Kill
<1>7. CASE EditSource
  BY <1>7 DEF EditSource
<1>8. CASE Reboot
  <2>1. dest'.manifest.boot <= boot
    BY <1>8, ResidueType DEF Reboot, NoDir, NoManifest
  <2>2. \A d \in Dirs : d.manifest.boot \in Nat
    BY DEF Dirs, Manifests
  <2>3. \A w \in Workers : previous'[w].manifest.boot <= boot
    BY <1>8 DEF Reboot, NoDir, NoManifest
  <2>4. boot \in Nat /\ boot' = boot + 1
    BY <1>8 DEF Reboot
  <2>5. dest' \in Dirs /\ previous' \in [Workers -> Dirs]
    BY StepType DEF TypeOK
  <2> HIDE DEF IInv, TypeOK
  <2> QED
    BY <2>1, <2>2, <2>3, <2>4, <2>5
<1>9. CASE UNCHANGED vars
  BY <1>9 DEF vars
<1> QED
  BY <1>1, <1>2, <1>3, <1>4, <1>5, <1>6, <1>7, <1>8, <1>9 DEF Next, Step

\* Only a declared snapshot is listed, and only edits change it.
LEMMA StepSource == IInv /\ [Next]_vars => (OneRevision /\ ListedIsDeclared)'
<1> SUFFICES ASSUME IInv, [Next]_vars PROVE (OneRevision /\ ListedIsDeclared)'
  OBVIOUS
<1> USE NoneIsNotAWorker, BoundsAreCounted
<1> USE DEF IInv, TypeOK, Goto, Held, OneRevision, ListedIsDeclared
<1>1. ASSUME NEW w \in Workers, ListSource(w)
      PROVE  (OneRevision /\ ListedIsDeclared)'
  <2>1. PICK f \in Files : source[f] = "declared"
    BY <1>1, IdentityIsKnown DEF ListSource, Identified
  <2> QED
    BY <1>1, <2>1 DEF ListSource
<1>2. ASSUME NEW w \in Workers,
             \/ PeekManifest(w) \/ PeekFiles(w) \/ PeekRaises(w)
             \/ SourceRefused(w) \/ Lock(w) \/ AlreadyPresent(w)
             \/ NotPresent(w) \/ NoSpace(w) \/ Stage(w) \/ CopyFile(w)
             \/ CopyEnds(w) \/ Identify(w) \/ WriteManifest(w) \/ Validate(w)
             \/ Displace(w) \/ Install(w) \/ DropPrevious(w) \/ Check(w)
             \/ Raise(w) \/ Restore(w) \/ Sweep(w) \/ Kill(w)
      PROVE  (OneRevision /\ ListedIsDeclared)'
  BY <1>2 DEF PeekManifest, PeekFiles, PeekRaises, SourceRefused, Lock,
         AlreadyPresent, NotPresent, NoSpace, Stage, CopyFile, CopyEnds,
         Identify, WriteManifest, Validate, Displace, Install, DropPrevious,
         Check, Raise, Restore, Sweep, Kill
<1>3. CASE EditSource
  BY <1>3 DEF EditSource
<1>4. CASE Reboot
  BY <1>4 DEF Reboot, Running
<1>5. CASE UNCHANGED vars
  BY <1>5 DEF vars
<1> QED
  BY <1>1, <1>2, <1>3, <1>4, <1>5 DEF Next, Step

\* What is staged was read from the snapshot.
LEMMA StepStagedGood == IInv /\ [Next]_vars => StagedIsGood'
<1> SUFFICES ASSUME IInv, [Next]_vars PROVE StagedIsGood'
  OBVIOUS
<1> USE BoundsAreCounted
<1> USE DEF IInv, TypeOK, Goto, Held, StagedIsGood, Good, ListedIsDeclared,
            StagingNotYet, Unlocked
<1>1. ASSUME NEW w \in Workers, Lock(w) PROVE StagedIsGood'
  <2>1. staging[w] = NoDir
    BY <1>1 DEF Lock
  <2> QED
    BY <1>1, <2>1 DEF Lock, NoDir, NoFiles
<1>2. ASSUME NEW w \in Workers, Stage(w) PROVE StagedIsGood'
  BY <1>2 DEF Stage, Dir, NoFiles
<1>3. ASSUME NEW w \in Workers, CopyFile(w) PROVE StagedIsGood'
  <2>1. PICK f \in Files :
            /\ staging' = [staging EXCEPT ![w].files[f] = source[f]]
            /\ Goto(w, "copy", IF Size(source[f]) = sizes[w][f] THEN "copy"
                               ELSE "restore")
    BY <1>3 DEF CopyFile
  <2>2. staging'[w].files = [staging[w].files EXCEPT ![f] = source[f]]
    BY <2>1 DEF Dirs
  <2>3. \A v \in Workers \ {w} : staging'[v] = staging[v]
    BY <2>1
  <2>4. source[f] \in Sourced /\ (edits = 0 => source[f] = "declared")
    BY <2>1
  <2>5. Good(staging[w].files)
    BY <2>1
  <2>6. Good(staging'[w].files)
    BY <2>2, <2>4, <2>5 DEF Dirs
  <2>7. pc[w] \in Held /\ edits' = edits
        /\ \A v \in Workers \ {w} : pc'[v] = pc[v]
    BY <1>3, <2>1 DEF CopyFile
  <2> QED
    BY <2>3, <2>6, <2>7
<1>4. ASSUME NEW w \in Workers, WriteManifest(w) PROVE StagedIsGood'
  BY <1>4 DEF WriteManifest, Dirs
<1>5. ASSUME NEW w \in Workers, Install(w) PROVE StagedIsGood'
  BY <1>5 DEF Install, NoDir, NoFiles
<1>6. ASSUME NEW w \in Workers, Sweep(w) PROVE StagedIsGood'
  BY <1>6 DEF Sweep, NoDir, NoFiles
<1>7. ASSUME NEW w \in Workers,
             \/ PeekManifest(w) \/ PeekFiles(w) \/ PeekRaises(w)
             \/ ListSource(w) \/ SourceRefused(w) \/ AlreadyPresent(w)
             \/ NotPresent(w) \/ NoSpace(w) \/ CopyEnds(w) \/ Identify(w)
             \/ Validate(w) \/ Displace(w) \/ DropPrevious(w) \/ Check(w)
             \/ Raise(w) \/ Restore(w) \/ Kill(w)
      PROVE  StagedIsGood'
  BY <1>7 DEF PeekManifest, PeekFiles, PeekRaises, ListSource, SourceRefused,
         AlreadyPresent, NotPresent, NoSpace, CopyEnds, Identify, Validate,
         Displace, DropPrevious, Check, Raise, Restore, Kill
<1>8. CASE EditSource
  BY <1>8 DEF EditSource
<1>9. CASE Reboot
  BY <1>9 DEF Reboot, Running
<1>10. CASE UNCHANGED vars
  BY <1>10 DEF vars
<1> QED
  BY <1>1, <1>2, <1>3, <1>4, <1>5, <1>6, <1>7, <1>8, <1>9, <1>10 DEF Next, Step

\* A cache that is ready was read from the snapshot, in this boot.
LEMMA StepReadyGood == IInv /\ [Next]_vars => ReadyIsGood'
<1> SUFFICES ASSUME IInv, [Next]_vars PROVE ReadyIsGood'
  OBVIOUS
<1> USE BoundsAreCounted, NothingIsReady
<1> USE DEF IInv, TypeOK, Goto, Held, ReadyIsGood, StagedIsGood, Good,
            DisplacedIsStale, Displaced, Ready, ManifestHolds
<1>1. ASSUME NEW w \in Workers, Displace(w) PROVE ReadyIsGood'
  BY <1>1 DEF Displace
<1>2. ASSUME NEW w \in Workers, Install(w) PROVE ReadyIsGood'
  BY <1>2 DEF Install
<1>3. ASSUME NEW w \in Workers, Restore(w) PROVE ReadyIsGood'
  BY <1>3 DEF Restore
<1>4. ASSUME NEW w \in Workers,
             \/ PeekManifest(w) \/ PeekFiles(w) \/ PeekRaises(w)
             \/ ListSource(w) \/ SourceRefused(w) \/ Lock(w)
             \/ AlreadyPresent(w) \/ NotPresent(w) \/ NoSpace(w) \/ Stage(w)
             \/ CopyFile(w) \/ CopyEnds(w) \/ Identify(w) \/ WriteManifest(w)
             \/ Validate(w) \/ DropPrevious(w) \/ Check(w) \/ Raise(w)
             \/ Sweep(w) \/ Kill(w)
      PROVE  ReadyIsGood'
  BY <1>4 DEF PeekManifest, PeekFiles, PeekRaises, ListSource, SourceRefused,
         Lock, AlreadyPresent, NotPresent, NoSpace, Stage, CopyFile, CopyEnds,
         Identify, WriteManifest, Validate, DropPrevious, Check, Raise, Sweep,
         Kill
<1>5. CASE EditSource
  BY <1>5 DEF EditSource
<1>6. CASE Reboot
  <2>1. dest'.manifest.boot <= boot /\ boot \in Nat /\ boot' = boot + 1
    BY <1>6, ResidueType DEF Reboot, NoDir, NoManifest, ManifestsArePast
  <2>2. dest'.manifest.boot # boot'
    BY <2>1, StepType DEF Dirs, Manifests
  <2> QED
    BY <2>2
<1>7. CASE UNCHANGED vars
  BY <1>7 DEF vars
<1> QED
  BY <1>1, <1>2, <1>3, <1>4, <1>5, <1>6, <1>7 DEF Next, Step

\* A comparison without the lock stays safe.
LEMMA StepPeek == IInv /\ [Next]_vars => PeekIsSafe'
<1> SUFFICES ASSUME IInv, [Next]_vars PROVE PeekIsSafe'
  OBVIOUS
<1> USE NoneIsNotAWorker, NothingIsReady
<1> USE DEF IInv, TypeOK, Goto, Held, PeekIsSafe, Displaced, ReplacingNotReady,
            Replacing, PreviousNotYet, Unlocked, InstalledStaysReady, Ready,
            ManifestHolds, HolderHasLock
<1>1. ASSUME NEW w \in Workers, PeekManifest(w) PROVE PeekIsSafe'
  <2>1. Ready(dest) \/ ~ManifestHolds(dest) \/ ~FilesHold(dest, sizes'[w])
    BY <1>1 DEF PeekManifest
  <2> QED
    BY <1>1, <2>1 DEF PeekManifest, DisplacedIsStale
<1>2. ASSUME NEW w \in Workers, Displace(w) PROVE PeekIsSafe'
  BY <1>2 DEF Displace
<1>3. ASSUME NEW w \in Workers, Install(w) PROVE PeekIsSafe'
  <2>1. Ready(staging[w])
    BY <1>3 DEF Install, StagedIsReady
  <2> QED
    BY <1>3, <2>1 DEF Install
<1>4. ASSUME NEW w \in Workers, DropPrevious(w) PROVE PeekIsSafe'
  BY <1>4 DEF DropPrevious
<1>5. ASSUME NEW w \in Workers, Check(w) PROVE PeekIsSafe'
  <2>1. pc' = [pc EXCEPT ![w] = "succeeding"]
    BY <1>5 DEF Check
  <2> QED
    BY <1>5, <2>1 DEF Check
<1>6. ASSUME NEW w \in Workers, Restore(w) PROVE PeekIsSafe'
  BY <1>6 DEF Restore
<1>7. ASSUME NEW w \in Workers, Sweep(w) PROVE PeekIsSafe'
  BY <1>7 DEF Sweep
<1>8. ASSUME NEW w \in Workers,
             \/ PeekFiles(w) \/ PeekRaises(w) \/ ListSource(w)
             \/ SourceRefused(w) \/ Lock(w) \/ AlreadyPresent(w)
             \/ NotPresent(w) \/ NoSpace(w) \/ Stage(w) \/ CopyFile(w)
             \/ CopyEnds(w) \/ Identify(w) \/ WriteManifest(w) \/ Validate(w)
             \/ Raise(w) \/ Kill(w)
      PROVE  PeekIsSafe'
  BY <1>8 DEF PeekFiles, PeekRaises, ListSource, SourceRefused, Lock,
         AlreadyPresent, NotPresent, NoSpace, Stage, CopyFile, CopyEnds,
         Identify, WriteManifest, Validate, Raise, Kill
<1>9. CASE EditSource
  BY <1>9 DEF EditSource
<1>10. CASE Reboot
  BY <1>10 DEF Reboot, Running
<1>11. CASE UNCHANGED vars
  BY <1>11 DEF vars
<1> QED
  BY <1>1, <1>2, <1>3, <1>4, <1>5, <1>6, <1>7, <1>8, <1>9, <1>10, <1>11
     DEF Next, Step

\* A report stands for a cache that is ready.
LEMMA StepReported == IInv /\ [Next]_vars => ReportedIsReady'
<1> SUFFICES ASSUME IInv, [Next]_vars PROVE ReportedIsReady'
  OBVIOUS
<1> USE NoneIsNotAWorker, NothingIsReady
<1> USE DEF IInv, TypeOK, Goto, Held, HolderHasLock, ReportedIsReady, Standing,
            Reported, ReplacingNotReady, Replacing, InstalledStaysReady, Ready,
            ManifestHolds
<1>1. ASSUME NEW w \in Workers, PeekFiles(w) PROVE ReportedIsReady'
  BY <1>1 DEF PeekFiles, PeekIsSafe
<1>2. ASSUME NEW w \in Workers, AlreadyPresent(w) PROVE ReportedIsReady'
  BY <1>2 DEF AlreadyPresent
<1>3. ASSUME NEW w \in Workers, Displace(w) PROVE ReportedIsReady'
  BY <1>3 DEF Displace
<1>4. ASSUME NEW w \in Workers, Install(w) PROVE ReportedIsReady'
  <2>1. Ready(staging[w])
    BY <1>4 DEF Install, StagedIsReady
  <2> QED
    BY <1>4, <2>1 DEF Install
<1>5. ASSUME NEW w \in Workers, Restore(w) PROVE ReportedIsReady'
  BY <1>5 DEF Restore
<1>6. ASSUME NEW w \in Workers, Check(w) PROVE ReportedIsReady'
  BY <1>6 DEF Check
<1>7. ASSUME NEW w \in Workers, Sweep(w) PROVE ReportedIsReady'
  BY <1>7 DEF Sweep
<1>8. ASSUME NEW w \in Workers,
             \/ PeekManifest(w) \/ PeekRaises(w) \/ ListSource(w)
             \/ SourceRefused(w) \/ Lock(w) \/ NotPresent(w) \/ NoSpace(w)
             \/ Stage(w) \/ CopyFile(w) \/ CopyEnds(w) \/ Identify(w)
             \/ WriteManifest(w) \/ Validate(w) \/ DropPrevious(w) \/ Raise(w)
             \/ Kill(w)
      PROVE  ReportedIsReady'
  BY <1>8 DEF PeekManifest, PeekRaises, ListSource, SourceRefused, Lock,
         NotPresent, NoSpace, Stage, CopyFile, CopyEnds, Identify,
         WriteManifest, Validate, DropPrevious, Raise, Kill
<1>9. CASE EditSource
  BY <1>9 DEF EditSource
<1>10. CASE Reboot
  <2>1. \A w \in Workers : seenBoot[w] # boot + 1
    BY <1>10 DEF SeenIsPast
  <2> QED
    BY <1>10, <2>1 DEF Reboot, Running
<1>11. CASE UNCHANGED vars
  BY <1>11 DEF vars
<1> QED
  BY <1>1, <1>2, <1>3, <1>4, <1>5, <1>6, <1>7, <1>8, <1>9, <1>10, <1>11
     DEF Next, Step

\* What is installed under the lock stays ready under it.
LEMMA StepInstalled == IInv /\ [Next]_vars => InstalledStaysReady'
<1> SUFFICES ASSUME IInv, [Next]_vars PROVE InstalledStaysReady'
  OBVIOUS
<1> USE NoneIsNotAWorker, NothingIsReady
<1> USE DEF IInv, TypeOK, Goto, Held, HolderHasLock, ReplacingNotReady,
            Replacing, InstalledStaysReady, StagedIsReady, Ready, ManifestHolds
<1>1. ASSUME NEW w \in Workers, Displace(w) PROVE InstalledStaysReady'
  BY <1>1 DEF Displace
<1>2. ASSUME NEW w \in Workers, Install(w) PROVE InstalledStaysReady'
  BY <1>2 DEF Install
<1>3. ASSUME NEW w \in Workers, Restore(w) PROVE InstalledStaysReady'
  BY <1>3 DEF Restore
<1>4. ASSUME NEW w \in Workers, Check(w) PROVE InstalledStaysReady'
  BY <1>4 DEF Check
<1>5. ASSUME NEW w \in Workers,
             \/ PeekManifest(w) \/ PeekFiles(w) \/ PeekRaises(w)
             \/ ListSource(w) \/ SourceRefused(w) \/ Lock(w)
             \/ AlreadyPresent(w) \/ NotPresent(w) \/ NoSpace(w) \/ Stage(w)
             \/ CopyFile(w) \/ CopyEnds(w) \/ Identify(w) \/ WriteManifest(w)
             \/ Validate(w) \/ DropPrevious(w) \/ Raise(w) \/ Sweep(w)
             \/ Kill(w)
      PROVE  InstalledStaysReady'
  BY <1>5 DEF PeekManifest, PeekFiles, PeekRaises, ListSource, SourceRefused,
         Lock, AlreadyPresent, NotPresent, NoSpace, Stage, CopyFile, CopyEnds,
         Identify, WriteManifest, Validate, DropPrevious, Raise, Sweep, Kill
<1>6. CASE EditSource
  BY <1>6 DEF EditSource
<1>7. CASE Reboot
  BY <1>7 DEF Reboot, Running
<1>8. CASE UNCHANGED vars
  BY <1>8 DEF vars
<1> QED
  BY <1>1, <1>2, <1>3, <1>4, <1>5, <1>6, <1>7, <1>8 DEF Next, Step

\* The invariant is inductive.
LEMMA StepInv == IInv /\ [Next]_vars => IInv'
<1> SUFFICES ASSUME IInv, [Next]_vars PROVE IInv'
  OBVIOUS
<1> QED
  BY StepLock, StepSeen, StepType, StepOwned, StepReplacing, StepStaged,
     StepDisplaced, StepManifests, StepSource, StepStagedGood, StepReadyGood,
     StepPeek, StepReported, StepInstalled DEF IInv

\* It holds in every state.
LEMMA Invariance == Spec => []IInv
BY InitInv, StepInv, PTL DEF Spec

\* Every variable keeps its type.
THEOREM TypeCorrect == Spec => []TypeOK
<1>1. IInv => TypeOK
  BY DEF IInv
<1> QED
  BY Invariance, <1>1, PTL

\* Whatever happens to the snapshot and to the node, a cache that was reported
\* in this boot was read from the snapshot, has the declared identity, and is
\* the declared revision if nobody edited the snapshot.
THEOREM ReportsAreDeclared == Spec => []ReportedIsDeclared
<1>1. IInv => ReportedIsDeclared
  <2> SUFFICES ASSUME IInv, Standing # {}
               PROVE  /\ \A f \in Files : dest.files[f] \in Sourced
                      /\ Identified(dest.files)
                      /\ edits = 0 => \A f \in Files :
                                          dest.files[f] = "declared"
    BY DEF ReportedIsDeclared
  <2>1. Ready(dest)
    BY DEF IInv, ReportedIsReady
  <2>2. Good(dest.files)
    BY <2>1 DEF IInv, ReadyIsGood
  <2>3. /\ Identified(dest.files)
        /\ \A f \in Files : dest.files[f] # "missing"
    BY <2>1 DEF Ready, FilesHold
  <2> QED
    BY <2>2, <2>3 DEF Good
<1> QED
  BY Invariance, <1>1, PTL

\* Between the rename and the last inspection the new cache stays ready.
THEOREM InstalledIsReady == Spec => []InstalledStaysReady
<1>1. IInv => InstalledStaysReady
  BY DEF IInv
<1> QED
  BY Invariance, <1>1, PTL

\* Only a worker that was killed leaves a private directory behind.
THEOREM LeaksAreExplained == Spec => []LeakIsExplained
<1>1. IInv => LeakIsExplained
  BY DEF IInv, PrivateIsOwned, LeakIsExplained, Held, Terminal, Reported
<1> QED
  BY Invariance, <1>1, PTL

\* Most steps neither replace the cache nor report it.
LEMMA QuietStep ==
    ASSUME IInv, NEW w \in Workers,
           \/ PeekManifest(w) \/ PeekRaises(w) \/ ListSource(w)
           \/ SourceRefused(w) \/ Lock(w) \/ NotPresent(w) \/ NoSpace(w)
           \/ Stage(w) \/ CopyFile(w) \/ CopyEnds(w) \/ Identify(w)
           \/ WriteManifest(w) \/ Validate(w) \/ DropPrevious(w) \/ Check(w)
           \/ Raise(w) \/ Kill(w)
    PROVE  UNCHANGED <<Ready(dest), Standing>>
<1>1. dest' = dest /\ boot' = boot
  BY DEF PeekManifest, PeekRaises, ListSource, SourceRefused, Lock, NotPresent,
         NoSpace, Stage, CopyFile, CopyEnds, Identify, WriteManifest, Validate,
         DropPrevious, Check, Raise, Kill
<1>2. \A v \in Workers :
          (pc'[v] \in Reported /\ seenBoot'[v] = boot')
              <=> (pc[v] \in Reported /\ seenBoot[v] = boot)
  BY DEF IInv, TypeOK, Goto, Reported, Held, PeekManifest, PeekRaises,
         ListSource, SourceRefused, Lock, NotPresent, NoSpace, Stage, CopyFile,
         CopyEnds, Identify, WriteManifest, Validate, DropPrevious, Check,
         Raise, Kill
<1> QED
  BY <1>1, <1>2 DEF Standing, Ready, ManifestHolds

\* While it is replaced the cache was not ready and has not been reported.
LEMMA ReplacingStep ==
    ASSUME IInv, NEW w \in Workers, Displace(w) \/ Install(w) \/ Restore(w)
    PROVE  /\ ~Ready(dest)
           /\ Standing = {} /\ Standing' = {}
<1>1. ~Ready(dest)
  BY DEF IInv, ReplacingNotReady, Replacing, Displace, Install, Restore, Goto
<1>2. Standing = {}
  BY <1>1 DEF IInv, ReportedIsReady
<1>3. Standing' = {}
  BY <1>2 DEF IInv, TypeOK, Standing, Reported, Displace, Install, Restore,
              Goto
<1> QED
  BY <1>1, <1>2, <1>3

\* A report adds its worker to those told, and is about a cache that is ready.
LEMMA ReportingStep ==
    ASSUME IInv, NEW w \in Workers,
           PeekFiles(w) \/ AlreadyPresent(w) \/ Sweep(w)
    PROVE  /\ UNCHANGED Ready(dest)
           /\ \/ UNCHANGED Standing
              \/ Ready(dest) /\ Standing' = Standing \cup {w}
<1> USE DEF IInv, TypeOK, Goto, Reported
<1>1. UNCHANGED Ready(dest)
  BY DEF PeekFiles, AlreadyPresent, Sweep, Ready, ManifestHolds
<1>2. CASE \/ PeekFiles(w) /\ FilesHold(dest, sizes[w])
           \/ AlreadyPresent(w)
           \/ Sweep(w) /\ pc[w] = "succeeding" /\ seenBoot[w] = boot
  <2>1. Ready(dest)
    BY <1>2 DEF PeekFiles, PeekIsSafe, AlreadyPresent, Sweep,
                InstalledStaysReady
  <2>2. \A v \in Workers :
            (pc'[v] \in Reported /\ seenBoot'[v] = boot')
                <=> (v = w \/ (pc[v] \in Reported /\ seenBoot[v] = boot))
    BY <1>2 DEF PeekFiles, AlreadyPresent, Sweep
  <2>3. Standing' = Standing \cup {w}
    BY <2>2 DEF Standing
  <2> QED
    BY <1>1, <2>1, <2>3
<1>3. CASE \/ PeekFiles(w) /\ ~FilesHold(dest, sizes[w])
           \/ Sweep(w) /\ ~(pc[w] = "succeeding" /\ seenBoot[w] = boot)
  <2>1. \A v \in Workers :
            (pc'[v] \in Reported /\ seenBoot'[v] = boot')
                <=> (pc[v] \in Reported /\ seenBoot[v] = boot)
    BY <1>3 DEF PeekFiles, Sweep
  <2> QED
    BY <1>1, <2>1 DEF Standing
<1> QED
  BY <1>2, <1>3

\* Every step maps to a step of the abstract view or leaves it as it is.
LEMMA StepView ==
    IInv /\ [Next]_vars => [View!ViewNext]_<<Ready(dest), Standing>>
<1> SUFFICES ASSUME IInv, [Next]_vars
             PROVE  [View!ViewNext]_<<Ready(dest), Standing>>
  OBVIOUS
<1> USE DEF View!ViewNext, View!Appear, View!Withdraw, View!Report,
            View!Reboot
<1>0. Ready(dest) \in BOOLEAN /\ Ready(dest)' \in BOOLEAN
  BY DEF Ready, FilesHold
<1>1. ASSUME NEW w \in Workers,
             \/ PeekManifest(w) \/ PeekRaises(w) \/ ListSource(w)
             \/ SourceRefused(w) \/ Lock(w) \/ NotPresent(w) \/ NoSpace(w)
             \/ Stage(w) \/ CopyFile(w) \/ CopyEnds(w) \/ Identify(w)
             \/ WriteManifest(w) \/ Validate(w) \/ DropPrevious(w)
             \/ Check(w) \/ Raise(w) \/ Kill(w)
      PROVE  UNCHANGED <<Ready(dest), Standing>>
  BY <1>1, QuietStep
<1>2. ASSUME NEW w \in Workers, Displace(w) \/ Install(w) \/ Restore(w)
      PROVE  [View!ViewNext]_<<Ready(dest), Standing>>
  BY <1>0, <1>2, ReplacingStep
<1>3. ASSUME NEW w \in Workers, PeekFiles(w) \/ AlreadyPresent(w) \/ Sweep(w)
      PROVE  [View!ViewNext]_<<Ready(dest), Standing>>
  BY <1>3, ReportingStep
<1>4. CASE EditSource
  BY <1>4 DEF EditSource, Standing, Ready, ManifestHolds
<1>5. CASE Reboot
  <2>1. dest'.manifest.boot <= boot /\ boot' = boot + 1
    BY <1>5, ResidueType
       DEF IInv, TypeOK, ManifestsArePast, Reboot, NoDir, NoManifest
  <2>2. boot \in Nat /\ dest' \in Dirs
    BY <1>5, StepType, BoundsAreCounted DEF IInv, TypeOK
  <2>3. Ready(dest)' = FALSE
    BY <2>1, <2>2, BoundsAreCounted
       DEF Ready, ManifestHolds, Dirs, Manifests
  <2>4. \A w \in Workers : seenBoot[w] # boot + 1
    BY <2>2, BoundsAreCounted DEF IInv, TypeOK, SeenIsPast
  <2>5. Standing' = {}
    BY <1>5, <2>4 DEF Reboot, Standing
  <2> QED
    BY <2>3, <2>5
<1>6. CASE UNCHANGED vars
  BY <1>6 DEF vars, Standing, Ready, ManifestHolds
<1> QED
  BY <1>1, <1>2, <1>3, <1>4, <1>5, <1>6 DEF Next, Step

\* Workers with and without the lock, edits and reboots implement the view
\* that controllers rely on.
THEOREM WeightsRefine == Spec => ImplementsView
<1>1. Init => View!ViewInit
  <2> SUFFICES ASSUME Init PROVE View!ViewInit
    OBVIOUS
  <2>1. Ready(dest) \in BOOLEAN
    BY DEF Ready, FilesHold
  <2>2. Standing = {}
    BY DEF Init, Standing, Reported
  <2> QED
    BY <2>1, <2>2 DEF View!ViewInit
<1> QED
  BY <1>1, StepView, Invariance, PTL
     DEF Spec, ImplementsView, View!ViewSpec, View!viewVars
=============================================================================
