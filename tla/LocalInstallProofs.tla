-------------------------- MODULE LocalInstallProofs ------------------------
(***************************************************************************)
(* Proofs about LocalInstall, for any workers, files and number of         *)
(* reboots: what a worker reported stays true, an installed directory      *)
(* stays complete, and private directories are swept.                      *)
(***************************************************************************)
EXTENDS LocalInstall, TLAPS

(***************************************************************************)
(* The inductive invariant.  That a reported directory is never taken away *)
(* rests on who may be in the middle of a replacement: a worker starts one *)
(* only after it found the directory incomplete, under the lock, and as    *)
(* long as it holds the lock no other worker gets to report anything.      *)
(***************************************************************************)

\* A worker inside the transaction holds the lock.
HolderHasLock == \A w \in Workers : pc[w] \in Held => lock = w

\* While a worker replaces the directory, or undoes that, no report of this
\* boot stands.
Replacing == {"reserve", "fill", "validate", "displace", "install", "restore"}
ReportsAreApart ==
    \A w, v \in Workers :
        pc[w] \in Replacing /\ pc[v] \in Reported => seenBoot[v] < boot

\* No report comes from a boot that has not happened.
SeenIsPast == \A w \in Workers : seenBoot[w] <= boot

\* What is about to be installed has been validated.
StagedIsValid ==
    \A w \in Workers : pc[w] \in {"displace", "install"} => Valid(staging[w])

\* Private directories exist inside the transaction or after a kill.
PrivateIsOwned ==
    \A w \in Workers :
        staging[w].exists \/ previous[w].exists =>
            pc[w] \in Held \cup {"killed"}

PrivateNotYet ==
    \A w \in Workers :
        pc[w] \in {"start", "prune", "inspect", "reserve"} =>
            ~staging[w].exists /\ ~previous[w].exists

IInv ==
    /\ TypeOK
    /\ HolderHasLock
    /\ ReportsAreApart
    /\ SeenIsPast
    /\ StagedIsValid
    /\ PrivateIsOwned
    /\ PrivateNotYet
    /\ ReportedIsValid
    /\ InstalledStaysValid

\* The invariant holds of a path in any state an engine may have left it in.
LEMMA InitInv == Init => IInv
<1> SUFFICES ASSUME Init PROVE IInv
  OBVIOUS
<1>1. dest \in Dirs
  <2>1. CASE dest = NoDir
    BY <2>1 DEF NoDir, Dirs, Others
  <2>2. ASSUME NEW files \in SUBSET Files, dest = Dir(files, "nothing")
        PROVE  dest \in Dirs
    BY <2>2 DEF Dir, Dirs, Others
  <2> QED
    BY <2>1, <2>2 DEF Init
<1>2. TypeOK
  BY <1>1, RebootsAreCounted DEF Init, TypeOK, NoDir, Dirs, Others
<1>3. \A w \in Workers : pc[w] = "start"
  BY DEF Init
<1>4. \A w \in Workers : ~staging[w].exists /\ ~previous[w].exists
  BY DEF Init, NoDir
<1>5. \A w \in Workers : seenBoot[w] <= boot
  BY DEF Init
<1> QED
  BY <1>2, <1>3, <1>4, <1>5
     DEF IInv, HolderHasLock, ReportsAreApart,
         SeenIsPast, StagedIsValid, PrivateIsOwned, PrivateNotYet,
         ReportedIsValid, InstalledStaysValid, Held, Reported, Replacing

\* Engines take nothing away, and touch nothing but the directory.
LEMMA EngineOnlyAdds ==
    TypeOK /\ Engine =>
        /\ dest' \in Dirs
        /\ dest'.exists
        /\ dest.exists => dest.files \subseteq dest'.files
        /\ Valid(dest) => Valid(dest')
<1> SUFFICES ASSUME TypeOK, Engine
             PROVE  /\ dest' \in Dirs
                    /\ dest'.exists
                    /\ dest.exists => dest.files \subseteq dest'.files
  BY DEF Valid, TypeOK, Dirs
<1>1. dest.files \subseteq Files /\ dest.other \in Others
  BY DEF TypeOK, Dirs
<1>2. CASE EngineStarts
  BY <1>2 DEF EngineStarts, Dir, Dirs, Others
<1>3. CASE EngineWrites
  <2>1. ASSUME NEW f \in Files, dest' = Dir(dest.files \cup {f}, dest.other)
        PROVE  /\ dest' \in Dirs /\ dest'.exists
               /\ dest.files \subseteq dest'.files
    BY <1>1, <2>1 DEF Dir, Dirs
  <2>2. ASSUME dest' = Dir(dest.files, "pages")
        PROVE  /\ dest' \in Dirs /\ dest'.exists
               /\ dest.files \subseteq dest'.files
    BY <1>1, <2>2 DEF Dir, Dirs, Others
  <2> QED
    BY <1>3, <2>1, <2>2 DEF EngineWrites
<1>4. CASE Clutter
  BY <1>1, <1>4 DEF Clutter, Dir, Dirs, Others
<1> QED
  BY <1>2, <1>3, <1>4 DEF Engine

\* Every step preserves the types.
LEMMA StepType == IInv /\ [Next]_vars => TypeOK'
<1> SUFFICES ASSUME IInv, [Next]_vars PROVE TypeOK'
  OBVIOUS
<1> USE NoneIsNotAWorker, RebootsAreCounted
<1> USE DEF IInv, TypeOK, Goto, Held, Reported, Terminal, Dirs, Dir, NoDir,
            Others, Pruned
<1>1. ASSUME NEW w \in Workers, Prune(w) PROVE TypeOK'
  BY <1>1 DEF Prune
<1>2. ASSUME NEW w \in Workers, AlreadyPresent(w) PROVE TypeOK'
  BY <1>2 DEF AlreadyPresent
<1>3. ASSUME NEW w \in Workers, Stage(w) PROVE TypeOK'
  BY <1>3 DEF Stage
<1>4. ASSUME NEW w \in Workers, FillFromCanonical(w) PROVE TypeOK'
  BY <1>4 DEF FillFromCanonical
<1>5. ASSUME NEW w \in Workers, FillFromPeer(w) PROVE TypeOK'
  BY <1>5 DEF FillFromPeer
<1>6. ASSUME NEW w \in Workers, Displace(w) PROVE TypeOK'
  BY <1>6 DEF Displace
<1>7. ASSUME NEW w \in Workers, Install(w) PROVE TypeOK'
  BY <1>7 DEF Install
<1>8. ASSUME NEW w \in Workers, DropPrevious(w) PROVE TypeOK'
  BY <1>8 DEF DropPrevious
<1>9. ASSUME NEW w \in Workers, Check(w) PROVE TypeOK'
  <2>1. boot \in 0..MaxReboots /\ seenBoot' \in [Workers -> 0..MaxReboots]
    BY <1>9 DEF Check
  <2>2. pc' \in [Workers -> {"start"} \cup Held \cup Terminal]
    <3>1. CASE Valid(dest)
      BY <1>9, <3>1 DEF Check
    <3>2. CASE ~Valid(dest)
      BY <1>9, <3>2 DEF Check
    <3> QED
      BY <3>1, <3>2
  <2>3. UNCHANGED <<lock, dest, staging, previous, boot>>
    BY <1>9 DEF Check
  <2> QED
    BY <2>1, <2>2, <2>3
<1>10. ASSUME NEW w \in Workers, Restore(w) PROVE TypeOK'
  <2>1. CASE previous[w].exists /\ ~dest.exists
    <3>1. dest' = previous[w] /\ dest' \in Dirs
      BY <1>10, <2>1 DEF Restore
    <3>2. NoDir \in Dirs /\ previous' = [previous EXCEPT ![w] = NoDir]
      BY <1>10, <2>1 DEF Restore
    <3>3. previous' \in [Workers -> Dirs]
      BY <3>2
    <3>4. pc' = [pc EXCEPT ![w] = "failing"]
      BY <1>10 DEF Restore
    <3>5. UNCHANGED <<lock, staging, seenBoot, boot>>
      BY <1>10 DEF Restore
    <3> QED
      BY <3>1, <3>3, <3>4, <3>5
  <2>2. CASE ~(previous[w].exists /\ ~dest.exists)
    BY <1>10, <2>2 DEF Restore
  <2> QED
    BY <2>1, <2>2
<1>11. ASSUME NEW w \in Workers, Sweep(w) PROVE TypeOK'
  BY <1>11 DEF Sweep
<1>12. ASSUME NEW w \in Workers,
             \/ RouteRefused(w) \/ Lock(w) \/ PruneRefuses(w)
               \/ NotPresent(w) \/ NoSpace(w) \/ FillFails(w)
               \/ Validate(w) \/ InstallFails(w) \/ Kill(w)
      PROVE  TypeOK'
  BY <1>12 DEF RouteRefused, Lock, PruneRefuses, NotPresent, NoSpace, FillFails,
         Validate, InstallFails, Kill
<1>13. CASE Engine
  BY <1>13, EngineOnlyAdds DEF Engine
<1>14. CASE Reboot
  BY <1>14 DEF Reboot
<1>15. CASE UNCHANGED vars
  BY <1>15 DEF vars
<1> QED
  BY <1>1, <1>2, <1>3, <1>4, <1>5, <1>6, <1>7, <1>8, <1>9, <1>10,
         <1>11, <1>12, <1>13, <1>14, <1>15
     DEF Next, Step

\* Every way into the transaction takes the lock, every way out frees it.
LEMMA StepLock == IInv /\ [Next]_vars => HolderHasLock'
<1> SUFFICES ASSUME IInv, [Next]_vars PROVE HolderHasLock'
  OBVIOUS
<1> USE NoneIsNotAWorker
<1> USE DEF IInv, TypeOK, HolderHasLock, Goto, Held
<1>1. ASSUME NEW w \in Workers,
             \/ RouteRefused(w) \/ Lock(w) \/ Prune(w)
               \/ PruneRefuses(w) \/ AlreadyPresent(w) \/ NotPresent(w)
               \/ NoSpace(w) \/ Stage(w) \/ FillFromCanonical(w)
               \/ FillFromPeer(w) \/ FillFails(w) \/ Validate(w)
               \/ Displace(w) \/ Install(w) \/ InstallFails(w)
               \/ DropPrevious(w) \/ Check(w) \/ Restore(w)
               \/ Sweep(w) \/ Kill(w)
      PROVE  HolderHasLock'
  BY <1>1 DEF RouteRefused, Lock, Prune, PruneRefuses, AlreadyPresent,
         NotPresent, NoSpace, Stage, FillFromCanonical, FillFromPeer,
         FillFails, Validate, Displace, Install, InstallFails,
         DropPrevious, Check, Restore, Sweep, Kill
<1>2. CASE Engine
  BY <1>2, EngineOnlyAdds DEF Engine
<1>3. CASE Reboot
  BY <1>3 DEF Reboot
<1>4. CASE UNCHANGED vars
  BY <1>4 DEF vars
<1> QED
  BY <1>1, <1>2, <1>3, <1>4
     DEF Next, Step

\* A replacement starts from an incomplete directory, under the lock.
LEMMA StepReplacing == IInv /\ [Next]_vars => ReportsAreApart'
<1> SUFFICES ASSUME IInv, [Next]_vars PROVE ReportsAreApart'
  OBVIOUS
<1> USE NoneIsNotAWorker
<1> USE DEF IInv, TypeOK, HolderHasLock, ReportsAreApart, SeenIsPast,
            ReportedIsValid, InstalledStaysValid, Goto, Held, Replacing,
            Reported
<1>1. ASSUME NEW w \in Workers, AlreadyPresent(w) PROVE ReportsAreApart'
  BY <1>1 DEF AlreadyPresent
<1>2. ASSUME NEW w \in Workers, NotPresent(w) PROVE ReportsAreApart'
  BY <1>2 DEF NotPresent
<1>3. ASSUME NEW w \in Workers, Check(w) PROVE ReportsAreApart'
  BY <1>3 DEF Check
<1>4. ASSUME NEW w \in Workers, Sweep(w) PROVE ReportsAreApart'
  BY <1>4 DEF Sweep
<1>5. ASSUME NEW w \in Workers,
             \/ RouteRefused(w) \/ Lock(w) \/ Prune(w)
               \/ PruneRefuses(w) \/ NoSpace(w) \/ Stage(w)
               \/ FillFromCanonical(w) \/ FillFromPeer(w) \/ FillFails(w)
               \/ Validate(w) \/ Displace(w) \/ Install(w)
               \/ InstallFails(w) \/ DropPrevious(w) \/ Restore(w)
               \/ Kill(w)
      PROVE  ReportsAreApart'
  BY <1>5 DEF RouteRefused, Lock, Prune, PruneRefuses, NoSpace, Stage,
         FillFromCanonical, FillFromPeer, FillFails, Validate, Displace,
         Install, InstallFails, DropPrevious, Restore, Kill
<1>6. CASE Engine
  BY <1>6, EngineOnlyAdds DEF Engine
<1>7. CASE Reboot
  BY <1>7 DEF Reboot
<1>8. CASE UNCHANGED vars
  BY <1>8 DEF vars
<1> QED
  BY <1>1, <1>2, <1>3, <1>4, <1>5, <1>6, <1>7, <1>8
     DEF Next, Step

\* Reports carry the boot they were made in.
LEMMA StepSeen == IInv /\ [Next]_vars => SeenIsPast'
<1> SUFFICES ASSUME IInv, [Next]_vars PROVE SeenIsPast'
  OBVIOUS
<1> USE RebootsAreCounted
<1> USE DEF IInv, TypeOK, SeenIsPast, Goto, Held
<1>1. ASSUME NEW w \in Workers,
             \/ RouteRefused(w) \/ Lock(w) \/ Prune(w)
               \/ PruneRefuses(w) \/ AlreadyPresent(w) \/ NotPresent(w)
               \/ NoSpace(w) \/ Stage(w) \/ FillFromCanonical(w)
               \/ FillFromPeer(w) \/ FillFails(w) \/ Validate(w)
               \/ Displace(w) \/ Install(w) \/ InstallFails(w)
               \/ DropPrevious(w) \/ Check(w) \/ Restore(w)
               \/ Sweep(w) \/ Kill(w)
      PROVE  SeenIsPast'
  BY <1>1 DEF RouteRefused, Lock, Prune, PruneRefuses, AlreadyPresent,
         NotPresent, NoSpace, Stage, FillFromCanonical, FillFromPeer,
         FillFails, Validate, Displace, Install, InstallFails,
         DropPrevious, Check, Restore, Sweep, Kill
<1>2. CASE Engine
  BY <1>2, EngineOnlyAdds DEF Engine
<1>3. CASE Reboot
  BY <1>3 DEF Reboot
<1>4. CASE UNCHANGED vars
  BY <1>4 DEF vars
<1> QED
  BY <1>1, <1>2, <1>3, <1>4
     DEF Next, Step

\* Only validation leads to the renames.
LEMMA StepStaged == IInv /\ [Next]_vars => StagedIsValid'
<1> SUFFICES ASSUME IInv, [Next]_vars PROVE StagedIsValid'
  OBVIOUS
<1> USE NoneIsNotAWorker
<1> USE DEF IInv, TypeOK, StagedIsValid, Goto, Held, Valid, NoDir
<1>1. ASSUME NEW w \in Workers, Validate(w) PROVE StagedIsValid'
  BY <1>1 DEF Validate
<1>2. ASSUME NEW w \in Workers, Install(w) PROVE StagedIsValid'
  BY <1>2 DEF Install
<1>3. ASSUME NEW w \in Workers,
             \/ RouteRefused(w) \/ Lock(w) \/ Prune(w)
               \/ PruneRefuses(w) \/ AlreadyPresent(w) \/ NotPresent(w)
               \/ NoSpace(w) \/ Stage(w) \/ FillFromCanonical(w)
               \/ FillFromPeer(w) \/ FillFails(w) \/ Displace(w)
               \/ InstallFails(w) \/ DropPrevious(w) \/ Check(w)
               \/ Restore(w) \/ Sweep(w) \/ Kill(w)
      PROVE  StagedIsValid'
  BY <1>3 DEF RouteRefused, Lock, Prune, PruneRefuses, AlreadyPresent,
         NotPresent, NoSpace, Stage, FillFromCanonical, FillFromPeer,
         FillFails, Displace, InstallFails, DropPrevious, Check, Restore,
         Sweep, Kill
<1>4. CASE Engine
  BY <1>4, EngineOnlyAdds DEF Engine
<1>5. CASE Reboot
  BY <1>5 DEF Reboot
<1>6. CASE UNCHANGED vars
  BY <1>6 DEF vars
<1> QED
  BY <1>1, <1>2, <1>3, <1>4, <1>5, <1>6
     DEF Next, Step

\* Private directories appear after the lock and go before it.
LEMMA StepPrivate == IInv /\ [Next]_vars => (PrivateIsOwned /\ PrivateNotYet)'
<1> SUFFICES ASSUME IInv, [Next]_vars PROVE (PrivateIsOwned /\ PrivateNotYet)'
  OBVIOUS
<1> USE NoneIsNotAWorker
<1> USE DEF IInv, TypeOK, PrivateIsOwned, PrivateNotYet, Goto, Held, NoDir, Dir
<1>1. ASSUME NEW w \in Workers,
             \/ RouteRefused(w) \/ Lock(w) \/ Prune(w)
               \/ PruneRefuses(w) \/ AlreadyPresent(w) \/ NotPresent(w)
               \/ NoSpace(w) \/ Stage(w) \/ FillFromCanonical(w)
               \/ FillFromPeer(w) \/ FillFails(w) \/ Validate(w)
               \/ Displace(w) \/ Install(w) \/ InstallFails(w)
               \/ DropPrevious(w) \/ Check(w) \/ Restore(w)
               \/ Sweep(w) \/ Kill(w)
      PROVE  (PrivateIsOwned /\ PrivateNotYet)'
  BY <1>1 DEF RouteRefused, Lock, Prune, PruneRefuses, AlreadyPresent,
         NotPresent, NoSpace, Stage, FillFromCanonical, FillFromPeer,
         FillFails, Validate, Displace, Install, InstallFails,
         DropPrevious, Check, Restore, Sweep, Kill
<1>2. CASE Engine
  BY <1>2, EngineOnlyAdds DEF Engine
<1>3. CASE Reboot
  BY <1>3 DEF Reboot
<1>4. CASE UNCHANGED vars
  BY <1>4 DEF vars
<1> QED
  BY <1>1, <1>2, <1>3, <1>4
     DEF Next, Step

\* A report stays true: nobody else is replacing, and engines only add.
LEMMA StepReported == IInv /\ [Next]_vars => ReportedIsValid'
<1> SUFFICES ASSUME IInv, [Next]_vars PROVE ReportedIsValid'
  OBVIOUS
<1> USE NoneIsNotAWorker
<1> USE DEF IInv, TypeOK, HolderHasLock, ReportsAreApart, SeenIsPast,
            ReportedIsValid, InstalledStaysValid, Goto, Held, Replacing,
            Reported, Valid, NoDir, Pruned
<1>1. ASSUME NEW w \in Workers, Prune(w) PROVE ReportedIsValid'
  BY <1>1 DEF Prune
<1>2. ASSUME NEW w \in Workers, AlreadyPresent(w) PROVE ReportedIsValid'
  BY <1>2 DEF AlreadyPresent
<1>3. ASSUME NEW w \in Workers, Displace(w) PROVE ReportedIsValid'
  BY <1>3 DEF Displace
<1>4. ASSUME NEW w \in Workers, Install(w) PROVE ReportedIsValid'
  BY <1>4 DEF Install
<1>5. ASSUME NEW w \in Workers, Check(w) PROVE ReportedIsValid'
  BY <1>5 DEF Check
<1>6. ASSUME NEW w \in Workers, Restore(w) PROVE ReportedIsValid'
  BY <1>6 DEF Restore
<1>7. ASSUME NEW w \in Workers, Sweep(w) PROVE ReportedIsValid'
  BY <1>7 DEF Sweep
<1>8. ASSUME NEW w \in Workers,
             \/ RouteRefused(w) \/ Lock(w) \/ PruneRefuses(w)
               \/ NotPresent(w) \/ NoSpace(w) \/ Stage(w)
               \/ FillFromCanonical(w) \/ FillFromPeer(w) \/ FillFails(w)
               \/ Validate(w) \/ InstallFails(w) \/ DropPrevious(w)
               \/ Kill(w)
      PROVE  ReportedIsValid'
  BY <1>8 DEF RouteRefused, Lock, PruneRefuses, NotPresent, NoSpace, Stage,
         FillFromCanonical, FillFromPeer, FillFails, Validate,
         InstallFails, DropPrevious, Kill
<1>9. CASE Engine
  BY <1>9, EngineOnlyAdds DEF Engine
<1>10. CASE Reboot
  BY <1>10 DEF Reboot
<1>11. CASE UNCHANGED vars
  BY <1>11 DEF vars
<1> QED
  BY <1>1, <1>2, <1>3, <1>4, <1>5, <1>6, <1>7, <1>8, <1>9, <1>10, <1>11
     DEF Next, Step

\* Nobody but engines touches the new directory, and they only add.
LEMMA StepInstalled == IInv /\ [Next]_vars => InstalledStaysValid'
<1> SUFFICES ASSUME IInv, [Next]_vars PROVE InstalledStaysValid'
  OBVIOUS
<1> USE NoneIsNotAWorker
<1> USE DEF IInv, TypeOK, HolderHasLock, StagedIsValid, InstalledStaysValid,
            Goto, Held, Valid, NoDir, Pruned
<1>1. ASSUME NEW w \in Workers, Prune(w) PROVE InstalledStaysValid'
  BY <1>1 DEF Prune
<1>2. ASSUME NEW w \in Workers, Displace(w) PROVE InstalledStaysValid'
  BY <1>2 DEF Displace
<1>3. ASSUME NEW w \in Workers, Install(w) PROVE InstalledStaysValid'
  BY <1>3 DEF Install
<1>4. ASSUME NEW w \in Workers, Check(w) PROVE InstalledStaysValid'
  BY <1>4 DEF Check
<1>5. ASSUME NEW w \in Workers, Restore(w) PROVE InstalledStaysValid'
  BY <1>5 DEF Restore
<1>6. ASSUME NEW w \in Workers, Sweep(w) PROVE InstalledStaysValid'
  BY <1>6 DEF Sweep
<1>7. ASSUME NEW w \in Workers,
             \/ RouteRefused(w) \/ Lock(w) \/ PruneRefuses(w)
               \/ AlreadyPresent(w) \/ NotPresent(w) \/ NoSpace(w)
               \/ Stage(w) \/ FillFromCanonical(w) \/ FillFromPeer(w)
               \/ FillFails(w) \/ Validate(w) \/ InstallFails(w)
               \/ DropPrevious(w) \/ Kill(w)
      PROVE  InstalledStaysValid'
  BY <1>7 DEF RouteRefused, Lock, PruneRefuses, AlreadyPresent, NotPresent,
         NoSpace, Stage, FillFromCanonical, FillFromPeer, FillFails,
         Validate, InstallFails, DropPrevious, Kill
<1>8. CASE Engine
  BY <1>8, EngineOnlyAdds DEF Engine
<1>9. CASE Reboot
  BY <1>9 DEF Reboot
<1>10. CASE UNCHANGED vars
  BY <1>10 DEF vars
<1> QED
  BY <1>1, <1>2, <1>3, <1>4, <1>5, <1>6, <1>7, <1>8, <1>9, <1>10
     DEF Next, Step

\* Every step preserves the invariant, one lemma for each part of it.
LEMMA StepInv == IInv /\ [Next]_vars => IInv'
BY StepType, StepLock, StepReplacing, StepSeen, StepStaged, StepPrivate,
   StepReported, StepInstalled DEF IInv

\* The invariant holds in every reachable state.
LEMMA Invariance == Spec => []IInv
BY InitInv, StepInv, PTL DEF Spec

-----------------------------------------------------------------------------
\* Every variable keeps its type, whatever workers and engines do.
THEOREM TypeCorrect == Spec => []TypeOK
<1>1. IInv => TypeOK
  BY DEF IInv
<1> QED
  BY <1>1, Invariance, PTL

\* What a worker reported stays true until the node reboots.
THEOREM ReportsStayTrue == Spec => []ReportedIsValid
<1>1. IInv => ReportedIsValid
  BY DEF IInv
<1> QED
  BY <1>1, Invariance, PTL

\* The last inspection never finds an incomplete directory.
THEOREM InstalledIsComplete == Spec => []InstalledStaysValid
<1>1. IInv => InstalledStaysValid
  BY DEF IInv
<1> QED
  BY <1>1, Invariance, PTL

\* Only a killed worker leaves a private directory behind.
THEOREM LeaksAreExplained == Spec => []LeakIsExplained
<1>1. IInv => LeakIsExplained
  BY DEF IInv, PrivateIsOwned, LeakIsExplained, Held, Terminal, Reported
<1> QED
  BY <1>1, Invariance, PTL
-----------------------------------------------------------------------------
(***************************************************************************)
(* Refinement of LocalView.                                                *)
(***************************************************************************)

\* Steps of workers that are neither a report nor a replacement keep the view
\* and the reports of it.
LEMMA QuietStep ==
    ASSUME IInv, NEW w \in Workers,
           \/ RouteRefused(w) \/ Lock(w) \/ Prune(w) \/ PruneRefuses(w)
           \/ NotPresent(w) \/ NoSpace(w) \/ Stage(w) \/ FillFromCanonical(w)
           \/ FillFromPeer(w) \/ FillFails(w) \/ Validate(w)
           \/ InstallFails(w) \/ DropPrevious(w) \/ Check(w) \/ Kill(w)
    PROVE  Valid(dest)' = Valid(dest) /\ Standing' = Standing
<1> USE DEF IInv, TypeOK, Goto, Held, Reported
<1>1. Valid(dest)' = Valid(dest)
  BY DEF RouteRefused, Lock, Prune, PruneRefuses, NotPresent, NoSpace, Stage,
         FillFromCanonical, FillFromPeer, FillFails, Validate, InstallFails,
         DropPrevious, Check, Kill, Valid, Pruned
<1>2. \A v \in Workers :
          (pc'[v] \in Reported /\ seenBoot'[v] = boot')
              <=> (pc[v] \in Reported /\ seenBoot[v] = boot)
  BY DEF RouteRefused, Lock, Prune, PruneRefuses, NotPresent, NoSpace, Stage,
         FillFromCanonical, FillFromPeer, FillFails, Validate, InstallFails,
         DropPrevious, Check, Kill
<1> QED
  BY <1>1, <1>2 DEF Standing

\* A replacement and its undoing happen while no report stands.
LEMMA ReplacingStep ==
    ASSUME IInv, NEW w \in Workers, Displace(w) \/ Install(w) \/ Restore(w)
    PROVE  Standing = {} /\ Standing' = {}
<1> USE DEF IInv, TypeOK, Goto, Held, Reported, Replacing, ReportsAreApart,
            SeenIsPast
<1>1. pc[w] \in Replacing /\ boot' = boot /\ seenBoot' = seenBoot
  BY DEF Displace, Install, Restore
<1>2. \A v \in Workers : pc[v] \in Reported => seenBoot[v] < boot
  BY <1>1
<1>3. Standing = {}
  BY <1>2, RebootsAreCounted DEF Standing
<1>4. \A v \in Workers : pc'[v] \in Reported => pc[v] \in Reported
  BY DEF Displace, Install, Restore
<1>5. Standing' = {}
  BY <1>1, <1>2, <1>4, RebootsAreCounted DEF Standing
<1> QED
  BY <1>3, <1>5

\* A worker that ends with a report does so while the view is there.
LEMMA ReportingStep ==
    ASSUME IInv, NEW w \in Workers, AlreadyPresent(w) \/ Sweep(w)
    PROVE  /\ Valid(dest)' = Valid(dest)
           /\ \/ Standing' = Standing
              \/ Valid(dest) /\ Standing' = Standing \cup {w}
<1> USE DEF IInv, TypeOK, Goto, Held, Reported
<1>1. Valid(dest)' = Valid(dest)
  BY DEF AlreadyPresent, Sweep
<1>2. CASE AlreadyPresent(w)
  <2>1. Valid(dest)
    BY <1>2 DEF AlreadyPresent
  <2>2. \A v \in Workers :
            (pc'[v] \in Reported /\ seenBoot'[v] = boot')
                <=> (v = w \/ (pc[v] \in Reported /\ seenBoot[v] = boot))
    BY <1>2 DEF AlreadyPresent
  <2>3. Standing' = Standing \cup {w}
    BY <2>2 DEF Standing
  <2> QED
    BY <1>1, <2>1, <2>3
<1>3. CASE Sweep(w) /\ pc[w] = "succeeding" /\ seenBoot[w] = boot
  <2>1. Valid(dest)
    BY <1>3 DEF InstalledStaysValid
  <2>2. \A v \in Workers :
            (pc'[v] \in Reported /\ seenBoot'[v] = boot')
                <=> (v = w \/ (pc[v] \in Reported /\ seenBoot[v] = boot))
    BY <1>3 DEF Sweep
  <2>3. Standing' = Standing \cup {w}
    BY <2>2 DEF Standing
  <2> QED
    BY <1>1, <2>1, <2>3
<1>4. CASE Sweep(w) /\ ~(pc[w] = "succeeding" /\ seenBoot[w] = boot)
  <2>1. \A v \in Workers :
            (pc'[v] \in Reported /\ seenBoot'[v] = boot')
                <=> (pc[v] \in Reported /\ seenBoot[v] = boot)
    BY <1>4 DEF Sweep
  <2> QED
    BY <1>1, <2>1 DEF Standing
<1> QED
  BY <1>2, <1>3, <1>4

\* Every step maps to a step of the abstract view or leaves it as it is.
LEMMA StepView ==
    IInv /\ [Next]_vars => [View!ViewNext]_<<Valid(dest), Standing>>
<1> SUFFICES ASSUME IInv, [Next]_vars
             PROVE  [View!ViewNext]_<<Valid(dest), Standing>>
  OBVIOUS
<1> USE DEF View!ViewNext, View!Appear, View!Withdraw, View!Report,
            View!Reboot
<1>0. Valid(dest) \in BOOLEAN /\ Valid(dest)' \in BOOLEAN
  BY DEF Valid, IInv, TypeOK, Dirs
<1>1. ASSUME NEW w \in Workers,
             \/ RouteRefused(w) \/ Lock(w) \/ Prune(w) \/ PruneRefuses(w)
             \/ NotPresent(w) \/ NoSpace(w) \/ Stage(w)
             \/ FillFromCanonical(w) \/ FillFromPeer(w) \/ FillFails(w)
             \/ Validate(w) \/ InstallFails(w) \/ DropPrevious(w) \/ Check(w)
             \/ Kill(w)
      PROVE  UNCHANGED <<Valid(dest), Standing>>
  BY <1>1, QuietStep
<1>2. ASSUME NEW w \in Workers, Displace(w) \/ Install(w) \/ Restore(w)
      PROVE  [View!ViewNext]_<<Valid(dest), Standing>>
  BY <1>0, <1>2, ReplacingStep
<1>3. ASSUME NEW w \in Workers, AlreadyPresent(w) \/ Sweep(w)
      PROVE  [View!ViewNext]_<<Valid(dest), Standing>>
  BY <1>3, ReportingStep
<1>4. CASE Engine
  <2>1. Standing' = Standing
    BY <1>4 DEF Engine, Standing
  <2>2. Valid(dest) => Valid(dest)'
    BY <1>4, EngineOnlyAdds DEF IInv
  <2> QED
    BY <1>0, <2>1, <2>2
<1>5. CASE Reboot
  <2>1. Valid(dest)' = FALSE
    BY <1>5 DEF Reboot, Valid, NoDir
  <2>2. Standing' = {}
    BY <1>5, RebootsAreCounted
       DEF Reboot, Standing, IInv, TypeOK, SeenIsPast
  <2> QED
    BY <2>1, <2>2
<1>6. CASE UNCHANGED vars
  BY <1>6 DEF vars, Standing, Valid
<1> QED
  BY <1>1, <1>2, <1>3, <1>4, <1>5, <1>6 DEF Next, Step

\* Workers, engines and reboots implement the abstract view.
THEOREM InstallRefines == Spec => ImplementsView
<1>1. Init => View!ViewInit
  <2> SUFFICES ASSUME Init PROVE View!ViewInit
    OBVIOUS
  <2>1. Valid(dest) \in BOOLEAN
    BY InitInv DEF Valid, IInv, TypeOK, Dirs
  <2>2. Standing = {}
    BY DEF Init, Standing, Reported
  <2> QED
    BY <2>1, <2>2 DEF View!ViewInit
<1> QED
  BY <1>1, StepView, Invariance, PTL
     DEF Spec, ImplementsView, View!ViewSpec, View!viewVars
=============================================================================
