---------------------------- MODULE PublishProofs ---------------------------
(***************************************************************************)
(* Proofs about Publish, for any publications, topologies, pages and       *)
(* number of losses: what stands at the artifact's path is whole, it is    *)
(* never replaced, and publications implement CanonicalStore.              *)
(***************************************************************************)
EXTENDS Publish, TLAPS

Building == {"scatter", "verify", "manifest", "rename"}
Covered(c) == UNION {Scatter[c][i] : i \in DOMAIN Scatter[c]}

(***************************************************************************)
(* The inductive invariant.  That an installed artifact is whole depends   *)
(* on the history of its incoming directory: it holds what the targets     *)
(* before the current one wrote and nothing foreign, and because targets   *)
(* cover a page as a whole or not at all, a page file that exists is whole *)
(* once all targets are done.                                              *)
(***************************************************************************)

\* A publication past `with _artifact_lock` holds the lock.
HolderHasLock == \A c \in Pubs : pc[c] \in Held => artLock = c

\* The incoming directory holds the pieces of the targets that are done.
ScatteredSoFar ==
    \A c \in Pubs :
        /\ incoming[c].cells \subseteq Covered(c)
        /\ pc[c] \in {"start", "check"} => idx[c] = 1
        /\ pc[c] \in Building =>
               \A i \in Targets(c) :
                   i < idx[c] => Scatter[c][i] \subseteq incoming[c].cells
        /\ pc[c] \in {"verify", "manifest", "rename"} =>
               idx[c] \notin Targets(c)
        /\ pc[c] \in {"manifest", "rename"} => AllPagesExist(incoming[c])
        /\ pc[c] = "rename" => incoming[c].manifest

\* Only a publication that failed or died leaves a worker behind.
AbandonedAreOver ==
    \A c \in Pubs, i \in Nat :
        <<c, i>> \in abandoned =>
            i \in Targets(c) /\ pc[c] \in {"cleanup", "failed", "crashed"}

\* A publication that registers has found the artifact that is there, unless
\* it was removed in the meantime.
FoundIsThere ==
    \A c \in Pubs :
        /\ pc[c] \in {"existing", "fallback", "register"} =>
               found[c] # None /\ final.by \in {found[c], None}
        /\ pc[c] \in {"start", "check"} \cup Building => found[c] = None

\* An incoming directory belongs to a running or killed publication, or to a
\* worker that was left behind.
IncomingIsOwned ==
    \A c \in Pubs :
        incoming[c].exists =>
            \/ pc[c] \in Building \cup {"cleanup", "crashed"}
            \/ \E i \in Targets(c) : <<c, i>> \in abandoned

\* Nothing is nothing, and an entry that was never complete names nothing.
NoneIsEmpty ==
    /\ final.by = None => final = NoArtifact
    /\ entry.state \in {"none", "local_only"} => entry.backing = None

\* While nothing is lost, a complete entry names the artifact.
EntryNamesFinal ==
    entry.state = "complete" /\ losses = 0 =>
        entry.backing = final.by /\ final.by # None

IInv ==
    /\ TypeOK
    /\ HolderHasLock
    /\ ScatteredSoFar
    /\ AbandonedAreOver
    /\ FoundIsThere
    /\ IncomingIsOwned
    /\ NoneIsEmpty
    /\ ArtifactIsWhole
    /\ EntryNamesFinal

\* Targets are numbered from one without gaps.
LEMMA TargetsAreNumbered ==
    ASSUME NEW c \in Pubs
    PROVE  /\ Scatter[c] \in Seq(SUBSET Cells)
           /\ Targets(c) = 1..Len(Scatter[c])
           /\ Len(Scatter[c]) \in Nat
           /\ \A i \in Targets(c) : Scatter[c][i] \subseteq Cells
BY ScatterType DEF Targets

\* When every target has scattered, existing pages are whole pages.
LEMMA ScatteredIsWhole ==
    ASSUME NEW c \in Pubs, IInv, pc[c] = "rename"
    PROVE  incoming[c].cells = Cells /\ incoming[c].manifest
<1> USE DEF IInv
<1>1. Targets(c) = 1..Len(Scatter[c]) /\ Len(Scatter[c]) \in Nat
  BY TargetsAreNumbered
<1>2. idx[c] = Len(Scatter[c]) + 1
  BY <1>1 DEF TypeOK, ScatteredSoFar
<1>3. Covered(c) \subseteq incoming[c].cells
  <2>1. ASSUME NEW i \in Targets(c)
        PROVE  Scatter[c][i] \subseteq incoming[c].cells
    BY <1>1, <1>2, <2>1 DEF ScatteredSoFar, Building
  <2> QED
    BY <2>1 DEF Covered, Targets
<1>4. incoming[c].cells = Covered(c)
  BY <1>3 DEF ScatteredSoFar
<1>5. ASSUME NEW p \in Pages PROVE CellsOf(p) \subseteq incoming[c].cells
  BY <1>4, WholeOrNone DEF ScatteredSoFar, AllPagesExist, PageExists, Covered
<1>6. incoming[c].cells \subseteq Cells
  BY DEF TypeOK
<1>7. Cells \subseteq incoming[c].cells
  BY <1>5 DEF Cells, CellsOf
<1> QED
  BY <1>6, <1>7 DEF ScatteredSoFar

\* The invariant holds initially.
LEMMA InitInv == Init => IInv
<1> SUFFICES ASSUME Init PROVE IInv
  OBVIOUS
<1> USE DEF Init
<1>1. TypeOK
  BY TargetsAreNumbered, LossesAreCounted
     DEF TypeOK, NoDir, NoArtifact, Held, Terminal
<1>2. HolderHasLock /\ ScatteredSoFar /\ AbandonedAreOver /\ FoundIsThere
  BY DEF HolderHasLock, ScatteredSoFar, AbandonedAreOver, FoundIsThere, Held,
         Building, NoDir, Covered, NoArtifact
<1>3. IncomingIsOwned /\ NoneIsEmpty /\ ArtifactIsWhole /\ EntryNamesFinal
  BY DEF IncomingIsOwned, NoneIsEmpty, ArtifactIsWhole, EntryNamesFinal,
         NoDir, NoArtifact
<1> QED
  BY <1>1, <1>2, <1>3 DEF IInv

\* Every step preserves the types.
LEMMA StepType == TypeOK /\ [Next]_vars => TypeOK'
<1> SUFFICES ASSUME TypeOK, [Next]_vars PROVE TypeOK'
  OBVIOUS
<1> USE NoneIsNotAPub, LossesAreCounted, TargetsAreNumbered
<1> USE DEF TypeOK, Held, Terminal, Goto, disk, NoDir, NoArtifact, Complete,
            Readable, Written, Described
<1>1. ASSUME NEW c \in Pubs, Acquire(c) PROVE TypeOK'
  BY <1>1 DEF Acquire
<1>2. ASSUME NEW c \in Pubs, FindExisting(c) PROVE TypeOK'
  BY <1>2 DEF FindExisting
<1>3. ASSUME NEW c \in Pubs, Stage(c) PROVE TypeOK'
  BY <1>3 DEF Stage
<1>4. ASSUME NEW c \in Pubs, ScatterTarget(c) PROVE TypeOK'
  BY <1>4 DEF ScatterTarget
<1>5. ASSUME NEW c \in Pubs, ScatterFails(c) PROVE TypeOK'
  BY <1>5 DEF ScatterFails
<1>6. ASSUME NEW c \in Pubs, ScatterTimesOut(c) PROVE TypeOK'
  BY <1>6 DEF ScatterTimesOut
<1>7. ASSUME NEW c \in Pubs, ScatterEnds(c) PROVE TypeOK'
  BY <1>7 DEF ScatterEnds
<1>8. ASSUME NEW c \in Pubs, Verify(c) PROVE TypeOK'
  BY <1>8 DEF Verify
<1>9. ASSUME NEW c \in Pubs, WriteManifest(c) PROVE TypeOK'
  BY <1>9 DEF WriteManifest
<1>10. ASSUME NEW c \in Pubs, WriteManifestFails(c) PROVE TypeOK'
  BY <1>10 DEF WriteManifestFails
<1>11. ASSUME NEW c \in Pubs, Rename(c) PROVE TypeOK'
  BY <1>11 DEF Rename
<1>12. ASSUME NEW c \in Pubs, RenameFails(c) PROVE TypeOK'
  BY <1>12 DEF RenameFails
<1>13. ASSUME NEW c \in Pubs, Register(c) PROVE TypeOK'
  BY <1>13 DEF Register
<1>14. ASSUME NEW c \in Pubs, RegisterFails(c) PROVE TypeOK'
  BY <1>14 DEF RegisterFails
<1>15. ASSUME NEW c \in Pubs, RegisterExisting(c) PROVE TypeOK'
  BY <1>15 DEF RegisterExisting
<1>16. ASSUME NEW c \in Pubs, InspectFails(c) PROVE TypeOK'
  BY <1>16 DEF InspectFails
<1>17. ASSUME NEW c \in Pubs, RegisterOnDisk(c) PROVE TypeOK'
  BY <1>17 DEF RegisterOnDisk
<1>18. ASSUME NEW c \in Pubs, ExistingFails(c) PROVE TypeOK'
  BY <1>18 DEF ExistingFails
<1>19. ASSUME NEW c \in Pubs, Cleanup(c) PROVE TypeOK'
  BY <1>19 DEF Cleanup
<1>20. ASSUME NEW c \in Pubs, Leave(c) PROVE TypeOK'
  BY <1>20 DEF Leave
<1>21. ASSUME NEW c \in Pubs, Crash(c) PROVE TypeOK'
  BY <1>21 DEF Crash
<1>22. ASSUME NEW c \in Pubs, NEW i \in Targets(c), AbandonedWrites(c, i)
       PROVE  TypeOK'
  BY <1>22 DEF AbandonedWrites
<1>23. CASE AdoptLocal
  BY <1>23 DEF AdoptLocal
<1>24. CASE Invalidate
  BY <1>24 DEF Invalidate
<1>25. CASE Lose
  <2>1. ASSUME NEW p \in Pages,
               final' = [by |-> final.by, cells |-> final.cells \ CellsOf(p),
                         manifest |-> final.manifest]
        PROVE  final' \in [by : Pubs \cup {None}, cells : SUBSET Cells,
                           manifest : BOOLEAN]
    BY <2>1
  <2>2. CASE final' = [by |-> final.by, cells |-> final.cells,
                       manifest |-> FALSE]
    BY <1>25, <2>2 DEF Lose
  <2>3. CASE final' = NoArtifact
    BY <1>25, <2>3 DEF Lose
  <2> QED
    BY <1>25, <2>1, <2>2, <2>3 DEF Lose
<1>26. CASE UNCHANGED vars
  BY <1>26 DEF vars
<1> QED
  BY <1>1, <1>2, <1>3, <1>4, <1>5, <1>6, <1>7, <1>8, <1>9, <1>10, <1>11,
     <1>12, <1>13, <1>14, <1>15, <1>16, <1>17, <1>18, <1>19, <1>20, <1>21,
     <1>22, <1>23, <1>24, <1>25, <1>26
     DEF Next, Step, Environment

\* Every way into the locked region takes the lock and every way out gives it
\* back.
LEMMA StepLock == IInv /\ [Next]_vars => HolderHasLock'
<1> SUFFICES ASSUME IInv, [Next]_vars PROVE HolderHasLock'
  OBVIOUS
<1> USE NoneIsNotAPub
<1> USE DEF IInv, TypeOK, HolderHasLock, Held, Goto
<1>1. ASSUME NEW c \in Pubs,
             \/ Acquire(c) \/ FindExisting(c) \/ Stage(c)
               \/ ScatterTarget(c) \/ ScatterFails(c) \/ ScatterTimesOut(c)
               \/ ScatterEnds(c) \/ Verify(c) \/ WriteManifest(c)
               \/ WriteManifestFails(c) \/ Rename(c) \/ RenameFails(c)
               \/ Register(c) \/ RegisterFails(c) \/ RegisterExisting(c)
               \/ InspectFails(c) \/ RegisterOnDisk(c) \/ ExistingFails(c)
               \/ Cleanup(c) \/ Leave(c) \/ Crash(c)
      PROVE  HolderHasLock'
  BY <1>1 DEF Acquire, FindExisting, Stage, ScatterTarget, ScatterFails,
         ScatterTimesOut, ScatterEnds, Verify, WriteManifest,
         WriteManifestFails, Rename, RenameFails, Register,
         RegisterFails, RegisterExisting, InspectFails, RegisterOnDisk,
         ExistingFails, Cleanup, Leave, Crash
<1>2. ASSUME NEW c \in Pubs, NEW i \in Targets(c), AbandonedWrites(c, i)
      PROVE  HolderHasLock'
  BY <1>2 DEF AbandonedWrites
<1>3. CASE AdoptLocal
  BY <1>3 DEF AdoptLocal
<1>4. CASE Invalidate
  BY <1>4 DEF Invalidate
<1>5. CASE Lose
  BY <1>5 DEF Lose
<1>6. CASE UNCHANGED vars
  BY <1>6 DEF vars
<1> QED
  BY <1>1, <1>2, <1>3, <1>4, <1>5, <1>6
     DEF Next, Step, Environment

\* A worker is left behind only as its publication ends.
LEMMA StepAbandoned == IInv /\ [Next]_vars => AbandonedAreOver'
<1> SUFFICES ASSUME IInv, [Next]_vars PROVE AbandonedAreOver'
  OBVIOUS
<1> USE TargetsAreNumbered
<1> USE DEF IInv, TypeOK, AbandonedAreOver, Goto, Held
<1>1. ASSUME NEW c \in Pubs,
             \/ Acquire(c) \/ FindExisting(c) \/ Stage(c)
               \/ ScatterTarget(c) \/ ScatterFails(c) \/ ScatterTimesOut(c)
               \/ ScatterEnds(c) \/ Verify(c) \/ WriteManifest(c)
               \/ WriteManifestFails(c) \/ Rename(c) \/ RenameFails(c)
               \/ Register(c) \/ RegisterFails(c) \/ RegisterExisting(c)
               \/ InspectFails(c) \/ RegisterOnDisk(c) \/ ExistingFails(c)
               \/ Cleanup(c) \/ Leave(c) \/ Crash(c)
      PROVE  AbandonedAreOver'
  BY <1>1 DEF Acquire, FindExisting, Stage, ScatterTarget, ScatterFails,
         ScatterTimesOut, ScatterEnds, Verify, WriteManifest,
         WriteManifestFails, Rename, RenameFails, Register,
         RegisterFails, RegisterExisting, InspectFails, RegisterOnDisk,
         ExistingFails, Cleanup, Leave, Crash
<1>2. ASSUME NEW c \in Pubs, NEW i \in Targets(c), AbandonedWrites(c, i)
      PROVE  AbandonedAreOver'
  BY <1>2 DEF AbandonedWrites
<1>3. CASE AdoptLocal
  BY <1>3 DEF AdoptLocal
<1>4. CASE Invalidate
  BY <1>4 DEF Invalidate
<1>5. CASE Lose
  BY <1>5 DEF Lose
<1>6. CASE UNCHANGED vars
  BY <1>6 DEF vars
<1> QED
  BY <1>1, <1>2, <1>3, <1>4, <1>5, <1>6
     DEF Next, Step, Environment

\* Only the lock holder installs, so what it found can only disappear.
LEMMA StepFound == IInv /\ [Next]_vars => FoundIsThere'
<1> SUFFICES ASSUME IInv, [Next]_vars PROVE FoundIsThere'
  OBVIOUS
<1> USE NoneIsNotAPub
<1> USE DEF IInv, TypeOK, HolderHasLock, FoundIsThere, Goto, disk, Held,
            Building, NoArtifact, Readable, Complete, Verified
<1>1. ASSUME NEW c \in Pubs,
             \/ Acquire(c) \/ FindExisting(c) \/ Stage(c)
               \/ ScatterTarget(c) \/ ScatterFails(c) \/ ScatterTimesOut(c)
               \/ ScatterEnds(c) \/ Verify(c) \/ WriteManifest(c)
               \/ WriteManifestFails(c) \/ Rename(c) \/ RenameFails(c)
               \/ Register(c) \/ RegisterFails(c) \/ RegisterExisting(c)
               \/ InspectFails(c) \/ RegisterOnDisk(c) \/ ExistingFails(c)
               \/ Cleanup(c) \/ Leave(c) \/ Crash(c)
      PROVE  FoundIsThere'
  BY <1>1 DEF Acquire, FindExisting, Stage, ScatterTarget, ScatterFails,
         ScatterTimesOut, ScatterEnds, Verify, WriteManifest,
         WriteManifestFails, Rename, RenameFails, Register,
         RegisterFails, RegisterExisting, InspectFails, RegisterOnDisk,
         ExistingFails, Cleanup, Leave, Crash
<1>2. ASSUME NEW c \in Pubs, NEW i \in Targets(c), AbandonedWrites(c, i)
      PROVE  FoundIsThere'
  BY <1>2 DEF AbandonedWrites
<1>3. CASE AdoptLocal
  BY <1>3 DEF AdoptLocal
<1>4. CASE Invalidate
  BY <1>4 DEF Invalidate
<1>5. CASE Lose
  BY <1>5 DEF Lose
<1>6. CASE UNCHANGED vars
  BY <1>6 DEF vars
<1> QED
  BY <1>1, <1>2, <1>3, <1>4, <1>5, <1>6
     DEF Next, Step, Environment

\* Directories are removed by the publication that ends, or explained.
LEMMA StepOwned == IInv /\ [Next]_vars => IncomingIsOwned'
<1> SUFFICES ASSUME IInv, [Next]_vars PROVE IncomingIsOwned'
  OBVIOUS
<1> USE TargetsAreNumbered
<1> USE DEF IInv, TypeOK, IncomingIsOwned, AbandonedAreOver, Goto, disk,
            Building, Written, Described, NoDir, Held
<1>1. ASSUME NEW c \in Pubs, Stage(c) PROVE IncomingIsOwned'
  BY <1>1 DEF Stage
<1>2. ASSUME NEW c \in Pubs, ScatterTarget(c) PROVE IncomingIsOwned'
  BY <1>2 DEF ScatterTarget
<1>3. ASSUME NEW c \in Pubs, ScatterFails(c) PROVE IncomingIsOwned'
  BY <1>3 DEF ScatterFails
<1>4. ASSUME NEW c \in Pubs, ScatterTimesOut(c) PROVE IncomingIsOwned'
  BY <1>4 DEF ScatterTimesOut
<1>5. ASSUME NEW c \in Pubs, WriteManifest(c) PROVE IncomingIsOwned'
  BY <1>5 DEF WriteManifest
<1>6. ASSUME NEW c \in Pubs, Rename(c) PROVE IncomingIsOwned'
  BY <1>6 DEF Rename
<1>7. ASSUME NEW c \in Pubs, Cleanup(c) PROVE IncomingIsOwned'
  BY <1>7 DEF Cleanup
<1>8. ASSUME NEW c \in Pubs, Crash(c) PROVE IncomingIsOwned'
  BY <1>8 DEF Crash
<1>9. ASSUME NEW c \in Pubs,
             \/ Acquire(c) \/ FindExisting(c) \/ ScatterEnds(c)
               \/ Verify(c) \/ WriteManifestFails(c) \/ RenameFails(c)
               \/ Register(c) \/ RegisterFails(c) \/ RegisterExisting(c)
               \/ InspectFails(c) \/ RegisterOnDisk(c) \/ ExistingFails(c)
               \/ Leave(c)
      PROVE  IncomingIsOwned'
  BY <1>9 DEF Acquire, FindExisting, ScatterEnds, Verify, WriteManifestFails,
         RenameFails, Register, RegisterFails, RegisterExisting,
         InspectFails, RegisterOnDisk, ExistingFails, Leave
<1>10. ASSUME NEW c \in Pubs, NEW i \in Targets(c), AbandonedWrites(c, i)
      PROVE  IncomingIsOwned'
  BY <1>10 DEF AbandonedWrites
<1>11. CASE AdoptLocal
  BY <1>11 DEF AdoptLocal
<1>12. CASE Invalidate
  BY <1>12 DEF Invalidate
<1>13. CASE Lose
  BY <1>13 DEF Lose
<1>14. CASE UNCHANGED vars
  BY <1>14 DEF vars
<1> QED
  BY <1>1, <1>2, <1>3, <1>4, <1>5, <1>6, <1>7, <1>8, <1>9, <1>10,
         <1>11, <1>12, <1>13, <1>14
     DEF Next, Step, Environment

\* Nothing stays empty.
LEMMA StepNone == IInv /\ [Next]_vars => NoneIsEmpty'
<1> SUFFICES ASSUME IInv, [Next]_vars PROVE NoneIsEmpty'
  OBVIOUS
<1> USE NoneIsNotAPub
<1> USE DEF IInv, TypeOK, NoneIsEmpty, Goto, disk, NoArtifact, Readable,
            Complete
<1>1. ASSUME NEW c \in Pubs,
             \/ Acquire(c) \/ FindExisting(c) \/ Stage(c)
               \/ ScatterTarget(c) \/ ScatterFails(c) \/ ScatterTimesOut(c)
               \/ ScatterEnds(c) \/ Verify(c) \/ WriteManifest(c)
               \/ WriteManifestFails(c) \/ Rename(c) \/ RenameFails(c)
               \/ Register(c) \/ RegisterFails(c) \/ RegisterExisting(c)
               \/ InspectFails(c) \/ RegisterOnDisk(c) \/ ExistingFails(c)
               \/ Cleanup(c) \/ Leave(c) \/ Crash(c)
      PROVE  NoneIsEmpty'
  BY <1>1 DEF Acquire, FindExisting, Stage, ScatterTarget, ScatterFails,
         ScatterTimesOut, ScatterEnds, Verify, WriteManifest,
         WriteManifestFails, Rename, RenameFails, Register,
         RegisterFails, RegisterExisting, InspectFails, RegisterOnDisk,
         ExistingFails, Cleanup, Leave, Crash
<1>2. ASSUME NEW c \in Pubs, NEW i \in Targets(c), AbandonedWrites(c, i)
      PROVE  NoneIsEmpty'
  BY <1>2 DEF AbandonedWrites
<1>3. CASE AdoptLocal
  BY <1>3 DEF AdoptLocal
<1>4. CASE Invalidate
  BY <1>4 DEF Invalidate
<1>5. CASE Lose
  BY <1>5 DEF Lose
<1>6. CASE UNCHANGED vars
  BY <1>6 DEF vars
<1> QED
  BY <1>1, <1>2, <1>3, <1>4, <1>5, <1>6
     DEF Next, Step, Environment

\* A target adds its pieces and nothing else, and only then counts as done.
LEMMA StepScattered == IInv /\ [Next]_vars => ScatteredSoFar'
<1> SUFFICES ASSUME IInv, [Next]_vars PROVE ScatteredSoFar'
  OBVIOUS
<1> USE TargetsAreNumbered
<1> USE DEF IInv, TypeOK, ScatteredSoFar, AbandonedAreOver, Goto, disk,
            Building, Written, Described, NoDir, Held, Covered, AllPagesExist,
            PageExists, Targets
<1>1. ASSUME NEW c \in Pubs, Stage(c) PROVE ScatteredSoFar'
  BY <1>1 DEF Stage
<1>2. ASSUME NEW c \in Pubs, ScatterTarget(c) PROVE ScatteredSoFar'
  BY <1>2 DEF ScatterTarget
<1>3. ASSUME NEW c \in Pubs, ScatterFails(c) PROVE ScatteredSoFar'
  BY <1>3 DEF ScatterFails
<1>4. ASSUME NEW c \in Pubs, ScatterTimesOut(c) PROVE ScatteredSoFar'
  BY <1>4 DEF ScatterTimesOut
<1>5. ASSUME NEW c \in Pubs, ScatterEnds(c) PROVE ScatteredSoFar'
  BY <1>5 DEF ScatterEnds
<1>6. ASSUME NEW c \in Pubs, Verify(c) PROVE ScatteredSoFar'
  BY <1>6 DEF Verify
<1>7. ASSUME NEW c \in Pubs, WriteManifest(c) PROVE ScatteredSoFar'
  BY <1>7 DEF WriteManifest
<1>8. ASSUME NEW c \in Pubs, Rename(c) PROVE ScatteredSoFar'
  BY <1>8 DEF Rename
<1>9. ASSUME NEW c \in Pubs, Cleanup(c) PROVE ScatteredSoFar'
  BY <1>9 DEF Cleanup
<1>10. ASSUME NEW c \in Pubs, Crash(c) PROVE ScatteredSoFar'
  BY <1>10 DEF Crash
<1>11. ASSUME NEW c \in Pubs,
             \/ Acquire(c) \/ FindExisting(c) \/ WriteManifestFails(c)
               \/ RenameFails(c) \/ Register(c) \/ RegisterFails(c)
               \/ RegisterExisting(c) \/ InspectFails(c) \/ RegisterOnDisk(c)
               \/ ExistingFails(c) \/ Leave(c)
      PROVE  ScatteredSoFar'
  BY <1>11 DEF Acquire, FindExisting, WriteManifestFails, RenameFails, Register,
         RegisterFails, RegisterExisting, InspectFails, RegisterOnDisk,
         ExistingFails, Leave
<1>12. ASSUME NEW c \in Pubs, NEW i \in Targets(c), AbandonedWrites(c, i)
      PROVE  ScatteredSoFar'
  BY <1>12 DEF AbandonedWrites
<1>13. CASE AdoptLocal
  BY <1>13 DEF AdoptLocal
<1>14. CASE Invalidate
  BY <1>14 DEF Invalidate
<1>15. CASE Lose
  BY <1>15 DEF Lose
<1>16. CASE UNCHANGED vars
  BY <1>16 DEF vars
<1> QED
  BY <1>1, <1>2, <1>3, <1>4, <1>5, <1>6, <1>7, <1>8, <1>9, <1>10,
         <1>11, <1>12, <1>13, <1>14, <1>15, <1>16
     DEF Next, Step, Environment

\* A rename installs a whole artifact; only a loss changes it.
LEMMA StepWhole == IInv /\ [Next]_vars => ArtifactIsWhole'
<1> SUFFICES ASSUME IInv, [Next]_vars PROVE ArtifactIsWhole'
  OBVIOUS
<1> USE ScatteredIsWhole
<1> USE DEF IInv, ArtifactIsWhole, TypeOK, Whole, disk, NoArtifact, Goto
<1>1. ASSUME NEW c \in Pubs, Rename(c) PROVE ArtifactIsWhole'
  BY <1>1 DEF Rename
<1>2. ASSUME NEW c \in Pubs,
             \/ Acquire(c) \/ FindExisting(c) \/ Stage(c)
               \/ ScatterTarget(c) \/ ScatterFails(c) \/ ScatterTimesOut(c)
               \/ ScatterEnds(c) \/ Verify(c) \/ WriteManifest(c)
               \/ WriteManifestFails(c) \/ RenameFails(c) \/ Register(c)
               \/ RegisterFails(c) \/ RegisterExisting(c) \/ InspectFails(c)
               \/ RegisterOnDisk(c) \/ ExistingFails(c) \/ Cleanup(c)
               \/ Leave(c) \/ Crash(c)
      PROVE  ArtifactIsWhole'
  BY <1>2 DEF Acquire, FindExisting, Stage, ScatterTarget, ScatterFails,
         ScatterTimesOut, ScatterEnds, Verify, WriteManifest,
         WriteManifestFails, RenameFails, Register, RegisterFails,
         RegisterExisting, InspectFails, RegisterOnDisk, ExistingFails,
         Cleanup, Leave, Crash
<1>3. ASSUME NEW c \in Pubs, NEW i \in Targets(c), AbandonedWrites(c, i)
      PROVE  ArtifactIsWhole'
  BY <1>3 DEF AbandonedWrites
<1>4. CASE AdoptLocal
  BY <1>4 DEF AdoptLocal
<1>5. CASE Invalidate
  BY <1>5 DEF Invalidate
<1>6. CASE Lose
  BY <1>6 DEF Lose
<1>7. CASE UNCHANGED vars
  BY <1>7 DEF vars
<1> QED
  BY <1>1, <1>2, <1>3, <1>4, <1>5, <1>6, <1>7
     DEF Next, Step, Environment

\* The entry changes only to the installed artifact.
LEMMA StepEntry == IInv /\ [Next]_vars => EntryNamesFinal'
<1> SUFFICES ASSUME IInv, [Next]_vars PROVE EntryNamesFinal'
  OBVIOUS
<1> USE NoneIsNotAPub
<1> USE DEF IInv, EntryNamesFinal, TypeOK, disk, NoArtifact, Goto, Complete,
            Readable, FoundIsThere
<1>1. ASSUME NEW c \in Pubs, Rename(c) PROVE EntryNamesFinal'
  BY <1>1 DEF Rename
<1>2. ASSUME NEW c \in Pubs, Register(c) PROVE EntryNamesFinal'
  BY <1>2 DEF Register
<1>3. ASSUME NEW c \in Pubs, RegisterExisting(c) PROVE EntryNamesFinal'
  BY <1>3 DEF RegisterExisting
<1>4. ASSUME NEW c \in Pubs, RegisterOnDisk(c) PROVE EntryNamesFinal'
  BY <1>4 DEF RegisterOnDisk
<1>5. ASSUME NEW c \in Pubs,
             \/ Acquire(c) \/ FindExisting(c) \/ Stage(c)
               \/ ScatterTarget(c) \/ ScatterFails(c) \/ ScatterTimesOut(c)
               \/ ScatterEnds(c) \/ Verify(c) \/ WriteManifest(c)
               \/ WriteManifestFails(c) \/ RenameFails(c) \/ RegisterFails(c)
               \/ InspectFails(c) \/ ExistingFails(c) \/ Cleanup(c)
               \/ Leave(c) \/ Crash(c)
      PROVE  EntryNamesFinal'
  BY <1>5 DEF Acquire, FindExisting, Stage, ScatterTarget, ScatterFails,
         ScatterTimesOut, ScatterEnds, Verify, WriteManifest,
         WriteManifestFails, RenameFails, RegisterFails, InspectFails,
         ExistingFails, Cleanup, Leave, Crash
<1>6. ASSUME NEW c \in Pubs, NEW i \in Targets(c), AbandonedWrites(c, i)
      PROVE  EntryNamesFinal'
  BY <1>6 DEF AbandonedWrites
<1>7. CASE AdoptLocal
  BY <1>7 DEF AdoptLocal
<1>8. CASE Invalidate
  BY <1>8 DEF Invalidate
<1>9. CASE Lose
  BY <1>9 DEF Lose
<1>10. CASE UNCHANGED vars
  BY <1>10 DEF vars
<1> QED
  BY <1>1, <1>2, <1>3, <1>4, <1>5, <1>6, <1>7, <1>8, <1>9, <1>10
     DEF Next, Step, Environment

\* Every step preserves the invariant, one lemma for each part of it.
LEMMA StepInv == IInv /\ [Next]_vars => IInv'
<1>1. IInv => TypeOK
  BY DEF IInv
<1> QED
  BY <1>1, StepType, StepLock, StepAbandoned, StepFound, StepOwned, StepNone,
     StepScattered, StepWhole, StepEntry DEF IInv

\* The invariant holds in every reachable state.
LEMMA Invariance == Spec => []IInv
BY InitInv, StepInv, PTL DEF Spec

-----------------------------------------------------------------------------
\* Every variable keeps its type, whatever the publications do.
THEOREM TypeCorrect == Spec => []TypeOK
<1>1. IInv => TypeOK
  BY DEF IInv
<1> QED
  BY <1>1, Invariance, PTL

\* The artifact holds every slice of every page while nothing was lost.
THEOREM InstalledIsWhole == Spec => []ArtifactIsWhole
<1>1. IInv => ArtifactIsWhole
  BY DEF IInv
<1> QED
  BY <1>1, Invariance, PTL

\* While nothing was lost, a complete entry names a verified artifact.
THEOREM CompleteEntryIsBacked == Spec => []CompleteIsBacked
<1>1. ASSUME IInv, entry.state = "complete", losses = 0
      PROVE  entry.backing = final.by /\ Verified
  <2>1. entry.backing = final.by /\ final.by # None
    BY <1>1 DEF IInv, EntryNamesFinal
  <2>2. final.manifest /\ final.cells = Cells
    BY <1>1, <2>1 DEF IInv, ArtifactIsWhole, Whole
  <2>3. ASSUME NEW p \in Pages PROVE PageExists(final, p)
    <3>1. PICK x \in Parts : TRUE
      BY PagesHaveParts
    <3>2. <<p, x>> \in CellsOf(p) /\ <<p, x>> \in final.cells
      BY <2>2 DEF CellsOf, Cells
    <3> QED
      BY <3>2 DEF PageExists
  <2> QED
    BY <2>1, <2>2, <2>3 DEF Verified, Readable, AllPagesExist
<1>2. IInv => CompleteIsBacked
  BY <1>1 DEF CompleteIsBacked
<1> QED
  BY <1>2, Invariance, PTL

\* Incoming directories that stay behind are explained.
THEOREM LeaksAreExplained == Spec => []LeakIsExplained
<1>1. IInv => LeakIsExplained
  BY DEF IInv, IncomingIsOwned, LeakIsExplained, Building, Terminal
<1> QED
  BY <1>1, Invariance, PTL

\* One step never replaces an installed artifact nor writes into it.
LEMMA StepImmutable ==
    IInv /\ [Next]_vars =>
        (final.by # None =>
            /\ final'.by \in {final.by, None}
            /\ final' # final => losses' > losses)
<1> SUFFICES ASSUME IInv, [Next]_vars, final.by # None
             PROVE  /\ final'.by \in {final.by, None}
                    /\ final' # final => losses' > losses
  OBVIOUS
<1>1. ASSUME NEW c \in Pubs, Rename(c) PROVE FALSE
  BY <1>1 DEF Rename
<1>2. CASE Lose
  <2>1. losses' > losses
    BY <1>2 DEF Lose, IInv, TypeOK
  <2>2. final'.by \in {final.by, None}
    BY <1>2 DEF Lose, NoArtifact
  <2> QED
    BY <2>1, <2>2
<1>3. ASSUME NEW c \in Pubs,
             \/ Acquire(c) \/ FindExisting(c) \/ Stage(c)
               \/ ScatterTarget(c) \/ ScatterFails(c) \/ ScatterTimesOut(c)
               \/ ScatterEnds(c) \/ Verify(c) \/ WriteManifest(c)
               \/ WriteManifestFails(c) \/ RenameFails(c) \/ Register(c)
               \/ RegisterFails(c) \/ RegisterExisting(c) \/ InspectFails(c)
               \/ RegisterOnDisk(c) \/ ExistingFails(c) \/ Cleanup(c)
               \/ Leave(c) \/ Crash(c)
      PROVE  final' = final
  BY <1>3 DEF disk, Acquire, FindExisting, Stage, ScatterTarget, ScatterFails,
         ScatterTimesOut, ScatterEnds, Verify, WriteManifest,
         WriteManifestFails, RenameFails, Register, RegisterFails,
         RegisterExisting, InspectFails, RegisterOnDisk, ExistingFails,
         Cleanup, Leave, Crash
<1>4. ASSUME NEW c \in Pubs, NEW i \in Targets(c), AbandonedWrites(c, i)
      PROVE  final' = final
  BY <1>4 DEF AbandonedWrites
<1>5. CASE AdoptLocal \/ Invalidate \/ UNCHANGED vars
  BY <1>5 DEF AdoptLocal, Invalidate, vars, disk
<1> QED
  BY <1>1, <1>2, <1>3, <1>4, <1>5 DEF Next, Step, Environment

\* Readers without a lock see one artifact until it is removed.
THEOREM InstalledIsImmutable == Spec => ArtifactImmutable
<1>1. IInv /\ [Next]_vars =>
          [final.by # None =>
               /\ final'.by \in {final.by, None}
               /\ final' # final => losses' > losses]_vars
  BY StepImmutable
<1> QED
  BY <1>1, Invariance, PTL DEF Spec, ArtifactImmutable

-----------------------------------------------------------------------------
\* Initial states map to the empty store.
LEMMA InitRefines == Init => Store!StoreInit
BY DEF Init, NoArtifact, Store!StoreInit, Store!NoRecord

\* A rename is the installation, a registration the record, a loss the decay;
\* every other step is invisible.
LEMMA StepRefines == IInv /\ [Next]_vars => [Store!StoreNext]_Store!storeVars
<1> SUFFICES ASSUME IInv, [Next]_vars
             PROVE  [Store!StoreNext]_Store!storeVars
  OBVIOUS
<1>0. UNCHANGED <<final, entry>> => UNCHANGED Store!storeVars
  BY DEF Store!storeVars
<1>1. ASSUME NEW c \in Pubs, Rename(c) PROVE Store!Install(c)
  <2>1. incoming[c].cells = Cells /\ incoming[c].manifest
    BY <1>1, ScatteredIsWhole DEF Rename, Goto
  <2> QED
    BY <1>1, <2>1, NoneIsNotAPub DEF Rename, Store!Install
<1>2. ASSUME NEW c \in Pubs,
             Register(c) \/ RegisterExisting(c) \/ RegisterOnDisk(c)
      PROVE  Store!Record
  BY <1>2 DEF Register, RegisterExisting, RegisterOnDisk, Complete, Readable,
              disk, Store!Record
<1>3. ASSUME AdoptLocal PROVE Store!Adopt
  BY <1>3 DEF AdoptLocal, disk, IInv, NoneIsEmpty, TypeOK, Store!Adopt,
              Store!NoRecord
<1>4. ASSUME Invalidate PROVE Store!Invalidate
  BY <1>4 DEF Invalidate, disk, IInv, TypeOK, Store!Invalidate
<1>5. ASSUME Lose PROVE Store!Decay
  <2>1. final.by # None
    BY <1>5 DEF Lose, PageExists, IInv, NoneIsEmpty, NoArtifact
  <2>2. ASSUME NEW p \in Pages, PageExists(final, p),
               final' = [by |-> final.by, cells |-> final.cells \ CellsOf(p),
                         manifest |-> final.manifest]
        PROVE  final'.by = final.by /\ final'.cells # Cells
    BY <2>2 DEF PageExists, IInv, TypeOK
  <2>3. CASE final' = [by |-> final.by, cells |-> final.cells,
                       manifest |-> FALSE]
    BY <1>5, <2>1, <2>3 DEF Lose, Store!Decay
  <2>4. CASE final' = NoArtifact
    BY <1>5, <2>1, <2>4 DEF Lose, NoArtifact, Store!Decay
  <2>5. CASE final'.by = final.by /\ final'.cells # Cells
    BY <1>5, <2>1, <2>5 DEF Lose, Store!Decay
  <2> QED
    BY <1>5, <2>2, <2>3, <2>4, <2>5 DEF Lose
<1>6. ASSUME NEW c \in Pubs,
             \/ Acquire(c) \/ FindExisting(c) \/ Stage(c)
               \/ ScatterTarget(c) \/ ScatterFails(c) \/ ScatterTimesOut(c)
               \/ ScatterEnds(c) \/ Verify(c) \/ WriteManifest(c)
               \/ WriteManifestFails(c) \/ RenameFails(c) \/ RegisterFails(c)
               \/ InspectFails(c) \/ ExistingFails(c) \/ Cleanup(c)
               \/ Leave(c) \/ Crash(c)
      PROVE  UNCHANGED <<final, entry>>
  BY <1>6 DEF disk, Acquire, FindExisting, Stage, ScatterTarget, ScatterFails,
         ScatterTimesOut, ScatterEnds, Verify, WriteManifest,
         WriteManifestFails, RenameFails, RegisterFails, InspectFails,
         ExistingFails, Cleanup, Leave, Crash
<1>7. ASSUME NEW c \in Pubs, NEW i \in Targets(c), AbandonedWrites(c, i)
      PROVE  UNCHANGED <<final, entry>>
  BY <1>7 DEF AbandonedWrites
<1>8. CASE UNCHANGED vars
  BY <1>8, <1>0 DEF vars
<1> QED
  BY <1>1, <1>2, <1>3, <1>4, <1>5, <1>6, <1>7, <1>8, <1>0
     DEF Next, Step, Environment, Store!StoreNext

\* Publications implement the store that readers are promised.
THEOREM PublishRefines == Spec => ImplementsStore
BY InitRefines, StepRefines, Invariance, PTL
   DEF Spec, ImplementsStore, Store!StoreSpec
=============================================================================
