---------------------------- MODULE HydrateProofs ----------------------------
(***************************************************************************)
(* Proofs about Hydrate, for any hydrations, plans, places and reboots:    *)
(* rows stand for views that are there until a hydration for another kind  *)
(* comes to their place, a hydration that is ready stays recorded, and     *)
(* errors of peers fall back.                                              *)
(***************************************************************************)
EXTENDS Hydrate, SequenceTheorems, TLAPS

(***************************************************************************)
(* The inductive invariant.  What a worker reported is told until its node *)
(* reboots, what is told is there, and every row says in which boot it was *)
(* made; the rows of a hydration are those of the targets it has behind    *)
(* it.                                                                     *)
(***************************************************************************)

AllRows == rows \cup UNION {got[h] : h \in Hydrations}

ToldIsThere == \A p \in Places : told[p] \subseteq view[p]
\* Some hydration has come to this target.
ReachedTarget(t) ==
    \E h \in Hydrations : \E i \in DOMAIN Plan[h] :
        Plan[h][i] = t /\ Reached(h, i)
OrphansAreReached == \A t \in orphans : ReachedTarget(t)
RowsArePast == \A r \in AllRows : r.boot <= boot[NodeOf[r.place]]
ToldRowsStand ==
    \A r \in AllRows :
        /\ r.told
        /\ r.boot = boot[NodeOf[r.place]]
        /\ ~Rivalled(r)
        => r.kind \in told[r.place]

\* The row of a target in a set of rows.
RowFor(h, i, set) ==
    \E r \in set : /\ r.mat = MatOf[h]
                   /\ r.place = Plan[h][i].place
                   /\ r.kind = Plan[h][i].kind
GotIsPlanned ==
    \A h \in Hydrations : \A r \in got[h] :
        /\ r.mat = MatOf[h]
        /\ \E i \in DOMAIN Plan[h] : /\ r.place = Plan[h][i].place
                                     /\ r.kind = Plan[h][i].kind
GotSoFar ==
    \A h \in Hydrations : \A i \in DOMAIN Plan[h] :
        i < idx[h] => RowFor(h, i, got[h])
AskedFirst ==
    \A h \in Hydrations : pc[h] \in {"lookup", "status"} => idx[h] = 1
RecordIsLast ==
    \A h \in Hydrations : pc[h] = "record" => idx[h] = Len(Plan[h]) + 1

IInv ==
    /\ TypeOK
    /\ ToldIsThere
    /\ OrphansAreReached
    /\ RowsArePast
    /\ ToldRowsStand
    /\ GotIsPlanned
    /\ GotSoFar
    /\ AskedFirst
    /\ RecordIsLast
    /\ ReadyIsRecorded

\* Plans are sequences of targets and not empty.
LEMMA PlanLength ==
    \A h \in Hydrations :
        /\ Plan[h] \in Seq(Targets)
        /\ Len(Plan[h]) \in Nat /\ Len(Plan[h]) > 0
        /\ DOMAIN Plan[h] = 1..Len(Plan[h])
        /\ \A i \in DOMAIN Plan[h] : Plan[h][i] \in Targets
<1> SUFFICES ASSUME NEW h \in Hydrations
             PROVE  /\ Plan[h] \in Seq(Targets)
                    /\ Len(Plan[h]) \in Nat /\ Len(Plan[h]) > 0
                    /\ DOMAIN Plan[h] = 1..Len(Plan[h])
                    /\ \A i \in DOMAIN Plan[h] : Plan[h][i] \in Targets
  OBVIOUS
<1>1. Plan[h] \in Seq(Targets) /\ Plan[h] # <<>>
  BY PlanType
<1>2. Len(Plan[h]) \in Nat /\ DOMAIN Plan[h] = 1..Len(Plan[h])
  BY <1>1, LenProperties
<1>3. Len(Plan[h]) > 0
  BY <1>1, EmptySeq
<1>4. \A i \in 1..Len(Plan[h]) : Plan[h][i] \in Targets
  BY <1>1, ElementOfSeq
<1> QED
  BY <1>1, <1>2, <1>3, <1>4

\* A hydration at a target is at one of its plan.
LEMMA AtTargetType ==
    ASSUME TypeOK, NEW h \in Hydrations, pc[h] \in AtTarget
    PROVE  /\ idx[h] \in DOMAIN Plan[h]
           /\ At(h) \in Targets /\ At(h) \in Planned
           /\ At(h).place \in Places /\ At(h).kind \in Kinds
<1>3. idx[h] \in DOMAIN Plan[h] /\ At(h) \in Targets
  BY PlanLength DEF At, TypeOK
<1>4. At(h) \in Planned
  BY <1>3 DEF Planned, At
<1>5. At(h).place \in Places /\ At(h).kind \in Kinds
  BY <1>3 DEF Targets
<1> QED
  BY <1>3, <1>4, <1>5

\* What is planned is a target.
LEMMA PlannedAreTargets == Planned \subseteq Targets
<1>1. ASSUME NEW h \in Hydrations, NEW i \in DOMAIN Plan[h]
      PROVE  Plan[h][i] \in Targets
  BY PlanLength
<1>2. ASSUME NEW r \in Known
      PROVE  [place |-> r.place, kind |-> r.kind] \in Targets
  BY KnownIsPast DEF Rows, Targets
<1> QED
  BY <1>1, <1>2 DEF Planned

\* A row that is gathered is one.
LEMMA ObservedType ==
    ASSUME TypeOK, NEW h \in Hydrations, pc[h] \in AtTarget,
           NEW b \in BOOLEAN
    PROVE  /\ Observed(h, b) \in Rows
           /\ Observed(h, b).mat = MatOf[h]
           /\ Observed(h, b).place = At(h).place
           /\ Observed(h, b).kind = At(h).kind
           /\ Observed(h, b).boot = boot[NodeOf[At(h).place]]
           /\ Observed(h, b).told = b
BY AtTargetType, PlacesAreOnNodes, MatType, RebootsAreCounted
   DEF Observed, Rows, TypeOK

\* The invariant holds at the start.
LEMMA InitInv == Init => IInv
<1> SUFFICES ASSUME Init PROVE IInv
  OBVIOUS
<1> USE DEF Init
<1>1. \A h \in Hydrations :
          /\ Len(Plan[h]) \in Nat /\ Len(Plan[h]) > 0
          /\ DOMAIN Plan[h] = 1..Len(Plan[h])
  BY PlanLength
<1>2. TypeOK
  BY <1>1, KnownIsPast, RebootsAreCounted DEF TypeOK, Running, AtTarget
<1>3. AllRows = Known
  BY DEF AllRows
<1>4. RowsArePast /\ ToldRowsStand
  BY <1>3, KnownIsPast, PlacesAreOnNodes DEF RowsArePast, ToldRowsStand, Rows
<1>5. GotSoFar
  BY <1>1 DEF GotSoFar
<1> QED
  BY <1>2, <1>4, <1>5
     DEF IInv, ToldIsThere, OrphansAreReached, GotIsPlanned, AskedFirst,
         RecordIsLast, ReadyIsRecorded

\* Whatever a worker is at is a target that some hydration has come to.
LEMMA WorkedAreReached ==
    ASSUME TypeOK, OrphansAreReached, NEW t \in Worked
    PROVE  t \in Targets /\ ReachedTarget(t)
<1>1. CASE t \in orphans
  BY <1>1 DEF OrphansAreReached, TypeOK
<1>2. ASSUME NEW h \in Hydrations, pc[h] \in Calling, t = At(h)
      PROVE  t \in Targets /\ ReachedTarget(t)
  BY <1>2, AtTargetType DEF AtTarget, Calling, At, Reached, ReachedTarget
<1> QED
  BY <1>1, <1>2 DEF Worked

\* Every step preserves the types.
LEMMA StepType == IInv /\ [Next]_vars => TypeOK'
<1> SUFFICES ASSUME IInv, [Next]_vars PROVE TypeOK'
  OBVIOUS
<1> USE DEF IInv, TypeOK, Goto, Running, AtTarget, Calling, PeerPhase, Terminal
<1>1. ASSUME NEW h \in Hydrations, Lookup(h) PROVE TypeOK'
  <2>1. \A i \in DOMAIN Plan[h] : NodeOf[Plan[h][i].place] \in Nodes
    BY PlanLength, PlacesAreOnNodes DEF Targets
  <2> QED
    BY <1>1, <2>1 DEF Lookup
<1>2. ASSUME NEW h \in Hydrations, AskNode(h) PROVE TypeOK'
  <2>1. PICK n \in todo[h] :
            /\ todo' = [todo EXCEPT ![h] = @ \ {n}]
            /\ Goto(h, "status",
                    IF todo[h] = {n} THEN "inspect" ELSE "status")
    BY <1>2 DEF AskNode
  <2>2. todo' \in [Hydrations -> SUBSET Nodes]
    BY <2>1
  <2>3. pc' \in [Hydrations -> Running \cup Terminal]
    BY <2>1
  <2>4. pc'[h] \in AtTarget => idx[h] <= Len(Plan[h])
    BY <2>1, PlanLength DEF AskedFirst
  <2> QED
    BY <1>2, <2>1, <2>2, <2>3, <2>4 DEF AskNode
<1>3. ASSUME NEW h \in Hydrations, FindPresent(h) PROVE TypeOK'
  <2>1. pc[h] \in AtTarget
    BY <1>3 DEF FindPresent
  <2>2. Observed(h, FALSE) \in Rows
    BY <2>1, ObservedType
  <2>3. At(h) \in Targets /\ idx[h] \in 1..Len(Plan[h])
        /\ Len(Plan[h]) \in Nat
    BY <2>1, AtTargetType, PlanLength
  <2>4. /\ got' = [got EXCEPT ![h] = @ \cup {Observed(h, FALSE)}]
        /\ idx' = [idx EXCEPT ![h] = @ + 1]
        /\ pc' = [pc EXCEPT ![h] = IF idx[h] = Len(Plan[h]) THEN "record"
                                   ELSE "inspect"]
    BY <1>3 DEF FindPresent, Gather
  <2>5. got' \in [Hydrations -> SUBSET Rows]
    BY <2>2, <2>4
  <2>6. /\ pc' \in [Hydrations -> Running \cup Terminal]
        /\ idx' \in [Hydrations -> Nat]
    BY <2>3, <2>4
  <2>7. /\ view' \in [Places -> SUBSET Kinds]
        /\ told' \in [Places -> SUBSET Kinds]
    BY <1>3, <2>3 DEF FindPresent, Reports, Targets
  <2>8. /\ from' \in [Hydrations -> Rows \cup {None}]
        /\ \A g \in Hydrations : pc'[g] = "peer" => from'[g] # None
    BY <1>3, <2>4 DEF FindPresent
  <2>9. ASSUME NEW g \in Hydrations
        PROVE  /\ idx'[g] \in 1..Len(Plan[g]) + 1
               /\ pc'[g] \in AtTarget => idx'[g] <= Len(Plan[g])
    BY <2>3, <2>4, PlanLength
  <2> QED
    BY <1>3, <2>5, <2>6, <2>7, <2>8, <2>9 DEF FindPresent
<1>4. ASSUME NEW h \in Hydrations, ReadCandidates(h) PROVE TypeOK'
  BY <1>4 DEF ReadCandidates, Candidates
<1>5. ASSUME NEW h \in Hydrations, SourceValid(h) PROVE TypeOK'
  <2>1. PICK r \in cands[h] :
            /\ from' = [from EXCEPT ![h] = r]
            /\ cands' = [cands EXCEPT ![h] = @ \ {r}]
    BY <1>5 DEF SourceValid
  <2>2. r \in Rows /\ r # None
    BY NoneIsNotARow
  <2> QED
    BY <1>5, <2>1, <2>2 DEF SourceValid
<1>6. ASSUME NEW h \in Hydrations, SourceRefused(h) PROVE TypeOK'
  BY <1>6 DEF SourceRefused
<1>7. ASSUME NEW h \in Hydrations, PeerAnswers(h) PROVE TypeOK'
  <2>1. pc[h] \in AtTarget
    BY <1>7 DEF PeerAnswers
  <2>2. Observed(h, TRUE) \in Rows
    BY <2>1, ObservedType
  <2>3. At(h) \in Targets /\ idx[h] \in 1..Len(Plan[h])
        /\ Len(Plan[h]) \in Nat
    BY <2>1, AtTargetType, PlanLength
  <2>4. /\ got' = [got EXCEPT ![h] = @ \cup {Observed(h, TRUE)}]
        /\ idx' = [idx EXCEPT ![h] = @ + 1]
        /\ pc' = [pc EXCEPT ![h] = IF idx[h] = Len(Plan[h]) THEN "record"
                                   ELSE "inspect"]
    BY <1>7 DEF PeerAnswers, Gather
  <2>5. got' \in [Hydrations -> SUBSET Rows]
    BY <2>2, <2>4
  <2>6. /\ pc' \in [Hydrations -> Running \cup Terminal]
        /\ idx' \in [Hydrations -> Nat]
    BY <2>3, <2>4
  <2>7. /\ view' \in [Places -> SUBSET Kinds]
        /\ told' \in [Places -> SUBSET Kinds]
    BY <1>7, <2>3 DEF PeerAnswers, Reports, Targets
  <2>8. /\ from' \in [Hydrations -> Rows \cup {None}]
        /\ \A g \in Hydrations : pc'[g] = "peer" => from'[g] # None
    BY <1>7, <2>4 DEF PeerAnswers
  <2>9. ASSUME NEW g \in Hydrations
        PROVE  /\ idx'[g] \in 1..Len(Plan[g]) + 1
               /\ pc'[g] \in AtTarget => idx'[g] <= Len(Plan[g])
    BY <2>3, <2>4, PlanLength
  <2> QED
    BY <1>7, <2>5, <2>6, <2>7, <2>8, <2>9 DEF PeerAnswers
<1>8. ASSUME NEW h \in Hydrations, PeerFails(h) PROVE TypeOK'
  BY <1>8, AtTargetType DEF PeerFails, EndedOrLeft
<1>9. ASSUME NEW h \in Hydrations, MaterializeAnswers(h) PROVE TypeOK'
  <2>1. pc[h] \in AtTarget
    BY <1>9 DEF MaterializeAnswers
  <2>2. Observed(h, TRUE) \in Rows
    BY <2>1, ObservedType
  <2>3. At(h) \in Targets /\ idx[h] \in 1..Len(Plan[h])
        /\ Len(Plan[h]) \in Nat
    BY <2>1, AtTargetType, PlanLength
  <2>4. /\ got' = [got EXCEPT ![h] = @ \cup {Observed(h, TRUE)}]
        /\ idx' = [idx EXCEPT ![h] = @ + 1]
        /\ pc' = [pc EXCEPT ![h] = IF idx[h] = Len(Plan[h]) THEN "record"
                                   ELSE "inspect"]
    BY <1>9 DEF MaterializeAnswers, Gather
  <2>5. got' \in [Hydrations -> SUBSET Rows]
    BY <2>2, <2>4
  <2>6. /\ pc' \in [Hydrations -> Running \cup Terminal]
        /\ idx' \in [Hydrations -> Nat]
    BY <2>3, <2>4
  <2>7. /\ view' \in [Places -> SUBSET Kinds]
        /\ told' \in [Places -> SUBSET Kinds]
    BY <1>9, <2>3 DEF MaterializeAnswers, Reports, Targets
  <2>8. /\ from' \in [Hydrations -> Rows \cup {None}]
        /\ \A g \in Hydrations : pc'[g] = "peer" => from'[g] # None
    BY <1>9, <2>4 DEF MaterializeAnswers
  <2>9. ASSUME NEW g \in Hydrations
        PROVE  /\ idx'[g] \in 1..Len(Plan[g]) + 1
               /\ pc'[g] \in AtTarget => idx'[g] <= Len(Plan[g])
    BY <2>3, <2>4, PlanLength
  <2> QED
    BY <1>9, <2>5, <2>6, <2>7, <2>8, <2>9 DEF MaterializeAnswers
<1>10. ASSUME NEW h \in Hydrations, PruneFails(h) PROVE TypeOK'
  BY <1>10, AtTargetType DEF PruneFails, EndedOrLeft
<1>11. ASSUME NEW h \in Hydrations, FillFails(h) PROVE TypeOK'
  BY <1>11, AtTargetType DEF FillFails, EndedOrLeft
<1>12. ASSUME NEW h \in Hydrations, CallTimesOut(h) PROVE TypeOK'
  BY <1>12, AtTargetType DEF CallTimesOut
<1>13. ASSUME NEW h \in Hydrations, Record(h) PROVE TypeOK'
  <2>1. Merge(rows, got[h]) \subseteq Rows
    BY DEF Merge
  <2> QED
    BY <1>13, <2>1 DEF Record
<1>14. ASSUME NEW h \in Hydrations, WorkerInstalls(h) PROVE TypeOK'
  <2>1. pc[h] \in AtTarget
    BY <1>14 DEF WorkerInstalls
  <2>2. At(h).place \in Places /\ At(h).kind \in Kinds
    BY <2>1, AtTargetType
  <2> QED
    BY <1>14, <2>2 DEF WorkerInstalls
<1>15. ASSUME NEW h \in Hydrations, Kill(h) PROVE TypeOK'
  BY <1>15, AtTargetType DEF Kill
<1>16. ASSUME NEW h \in Hydrations,
             \/ LookupMisses(h) \/ RefuseBusy(h) \/ FindUnexpected(h)
             \/ FindIncomplete(h) \/ PeersExhausted(h) \/ ProbeFails(h)
             \/ RecordFails(h)
      PROVE  TypeOK'
  BY <1>16 DEF LookupMisses, RefuseBusy, FindUnexpected, FindIncomplete,
         PeersExhausted, ProbeFails, RecordFails
<1>17. ASSUME NEW t \in Planned, Appear(t) PROVE TypeOK'
  <2>1. t \in Targets
    BY PlannedAreTargets
  <2> QED
    BY <1>17, <2>1 DEF Appear, Targets
<1>18. ASSUME NEW t \in Planned, Withdraw(t) PROVE TypeOK'
  <2>1. t \in Targets
    BY PlannedAreTargets
  <2> QED
    BY <1>18, <2>1 DEF Withdraw, Targets
<1>22. ASSUME NEW t \in Worked, Prune(t) PROVE TypeOK'
  <2>1. PICK k \in view[t.place] \ {t.kind} :
            /\ view' = [view EXCEPT ![t.place] = @ \ {k}]
            /\ told' = [told EXCEPT ![t.place] = @ \ {k}]
    BY <1>22 DEF Prune
  <2>2. /\ view' \in [Places -> SUBSET Kinds]
        /\ told' \in [Places -> SUBSET Kinds]
    BY <2>1
  <2> QED
    BY <1>22, <2>2 DEF Prune
<1>19. CASE ArtifactChanges
  BY <1>19 DEF ArtifactChanges
<1>20. ASSUME NEW n \in Nodes, Reboot(n) PROVE TypeOK'
  BY <1>20, RebootsAreCounted DEF Reboot
<1>21. CASE UNCHANGED vars
  BY <1>21 DEF vars
<1> QED
  BY <1>1, <1>2, <1>3, <1>4, <1>5, <1>6, <1>7, <1>8, <1>9, <1>10, <1>11, <1>12,
     <1>13, <1>14, <1>15, <1>16, <1>17, <1>18, <1>19, <1>20, <1>21, <1>22
     DEF Next, Step

Early == {"lookup", "status", "inspect", "candidates"}
Advances(h) ==
    \/ idx'[h] = idx[h] /\ (pc'[h] \in Early => pc[h] \in Early)
    \/ idx'[h] = idx[h] + 1

\* No hydration goes back to what it does before it calls a worker.
LEMMA StepAdvances ==
    ASSUME TypeOK, [Next]_vars, NEW h \in Hydrations PROVE Advances(h)
<1> USE DEF TypeOK, Goto, Advances, Early
<1>1. ASSUME NEW g \in Hydrations,
             FindPresent(g) \/ PeerAnswers(g) \/ MaterializeAnswers(g)
      PROVE  Advances(h)
  <2>1. /\ idx' = [idx EXCEPT ![g] = @ + 1]
        /\ \E v : pc' = [pc EXCEPT ![g] = v]
    BY <1>1 DEF FindPresent, PeerAnswers, MaterializeAnswers, Gather
  <2> QED
    BY <2>1
<1>2. ASSUME NEW g \in Hydrations,
             \/ Lookup(g) \/ LookupMisses(g) \/ AskNode(g) \/ RefuseBusy(g)
             \/ FindUnexpected(g) \/ FindIncomplete(g) \/ ReadCandidates(g)
             \/ SourceValid(g) \/ SourceRefused(g) \/ PeerFails(g)
             \/ PeersExhausted(g) \/ PruneFails(g) \/ FillFails(g)
             \/ ProbeFails(g) \/ CallTimesOut(g) \/ Record(g)
             \/ RecordFails(g) \/ WorkerInstalls(g) \/ Kill(g)
      PROVE  Advances(h)
  BY <1>2
     DEF Lookup, LookupMisses, AskNode, RefuseBusy, FindUnexpected,
         FindIncomplete, ReadCandidates, SourceValid, SourceRefused, PeerFails,
         PeersExhausted, PruneFails, FillFails, ProbeFails, CallTimesOut,
         Record, RecordFails, WorkerInstalls, Kill,
         Calling
<1>3. CASE \/ \E t \in Planned : Appear(t) \/ Withdraw(t)
           \/ \E t \in Worked : Prune(t)
           \/ ArtifactChanges
           \/ \E n \in Nodes : Reboot(n)
           \/ UNCHANGED vars
  BY <1>3 DEF Appear, Withdraw, Prune, ArtifactChanges, Reboot, vars
<1> QED
  BY <1>1, <1>2, <1>3 DEF Next, Step

\* A target that a hydration has come to stays one.
LEMMA ReachedStays ==
    ASSUME TypeOK, [Next]_vars, NEW h \in Hydrations, NEW i \in DOMAIN Plan[h],
           Reached(h, i)
    PROVE  Reached(h, i)'
<1>1. i \in Nat /\ idx[h] \in Nat
  BY PlanLength DEF TypeOK
<1> QED
  BY <1>1, StepAdvances DEF Advances, Early, Reached

\* A worker left behind was at work before.
LEMMA StepOrphans ==
    IInv /\ [Next]_vars => OrphansAreReached'
<1> SUFFICES ASSUME IInv, [Next]_vars PROVE OrphansAreReached'
  OBVIOUS
<1>1. orphans' \subseteq Worked
  <2> USE DEF Worked, Goto, Calling
  <2>1. ASSUME NEW g \in Hydrations,
               FindPresent(g) \/ PeerAnswers(g) \/ MaterializeAnswers(g)
        PROVE  orphans' \subseteq Worked
    BY <2>1 DEF FindPresent, PeerAnswers, MaterializeAnswers
  <2>2. ASSUME NEW g \in Hydrations,
               \/ Lookup(g) \/ LookupMisses(g) \/ AskNode(g) \/ RefuseBusy(g)
               \/ FindUnexpected(g) \/ FindIncomplete(g) \/ ReadCandidates(g)
               \/ SourceValid(g) \/ SourceRefused(g) \/ PeerFails(g)
               \/ PeersExhausted(g) \/ PruneFails(g) \/ FillFails(g)
               \/ ProbeFails(g) \/ CallTimesOut(g) \/ Record(g)
               \/ RecordFails(g) \/ WorkerInstalls(g) \/ Kill(g)
        PROVE  orphans' \subseteq Worked
    BY <2>2
       DEF Lookup, LookupMisses, AskNode, RefuseBusy, FindUnexpected,
           FindIncomplete, ReadCandidates, SourceValid, SourceRefused,
           PeerFails, PeersExhausted, PruneFails, FillFails, ProbeFails, CallTimesOut,
           Record, RecordFails, WorkerInstalls, Kill,
           EndedOrLeft
  <2>3. CASE \/ \E t \in Planned : Appear(t) \/ Withdraw(t)
             \/ \E t \in Worked : Prune(t)
             \/ ArtifactChanges
             \/ \E n \in Nodes : Reboot(n)
             \/ UNCHANGED vars
    BY <2>3 DEF Appear, Withdraw, Prune, ArtifactChanges, Reboot, vars
  <2> QED
    BY <2>1, <2>2, <2>3 DEF Next, Step
<1>2. ASSUME NEW t \in orphans' PROVE ReachedTarget(t)'
  <2>1. PICK h \in Hydrations : \E i \in DOMAIN Plan[h] :
            Plan[h][i] = t /\ Reached(h, i)
    BY <1>1, <1>2, WorkedAreReached DEF IInv, ReachedTarget
  <2>2. PICK i \in DOMAIN Plan[h] : Plan[h][i] = t /\ Reached(h, i)
    BY <2>1
  <2>3. Reached(h, i)'
    BY <2>2, ReachedStays DEF IInv
  <2> QED
    BY <2>2, <2>3 DEF ReachedTarget
<1> QED
  BY <1>2 DEF OrphansAreReached

\* A rival that has come to a place is not gone again.
LEMMA RivalledStays ==
    ASSUME TypeOK, [Next]_vars, NEW r, Rivalled(r) PROVE Rivalled(r)'
<1>1. PICK h \in Hydrations : \E i \in DOMAIN Plan[h] :
          /\ Plan[h][i].place = r.place /\ Plan[h][i].kind # r.kind
          /\ Reached(h, i)
  BY DEF Rivalled
<1>2. PICK i \in DOMAIN Plan[h] :
          /\ Plan[h][i].place = r.place /\ Plan[h][i].kind # r.kind
          /\ Reached(h, i)
  BY <1>1
<1>3. Reached(h, i)'
  BY <1>2, ReachedStays
<1> QED
  BY <1>2, <1>3 DEF Rivalled

\* What gathering a row changes.
LEMMA GatherEffect ==
    ASSUME TypeOK, NEW h \in Hydrations, pc[h] \in AtTarget,
           NEW b \in BOOLEAN, Gather(h, b)
    PROVE  /\ got'[h] = got[h] \cup {Observed(h, b)}
           /\ idx'[h] = idx[h] + 1
           /\ pc'[h] = IF idx[h] = Len(Plan[h]) THEN "record" ELSE "inspect"
           /\ \A g \in Hydrations \ {h} :
                  got'[g] = got[g] /\ idx'[g] = idx[g] /\ pc'[g] = pc[g]
           /\ UNION {got'[g] : g \in Hydrations} =
                  (UNION {got[g] : g \in Hydrations}) \cup {Observed(h, b)}
<1>1. /\ got'[h] = got[h] \cup {Observed(h, b)}
      /\ idx'[h] = idx[h] + 1
      /\ pc'[h] = IF idx[h] = Len(Plan[h]) THEN "record" ELSE "inspect"
      /\ \A g \in Hydrations \ {h} :
             got'[g] = got[g] /\ idx'[g] = idx[g] /\ pc'[g] = pc[g]
  BY DEF Gather, TypeOK
<1>2. \A g \in Hydrations :
          got'[g] = IF g = h THEN got[g] \cup {Observed(h, b)} ELSE got[g]
  BY <1>1
<1>3. UNION {got'[g] : g \in Hydrations} \subseteq
          (UNION {got[g] : g \in Hydrations}) \cup {Observed(h, b)}
  BY <1>2
<1>4. UNION {got[g] : g \in Hydrations} \subseteq
          UNION {got'[g] : g \in Hydrations}
  BY <1>2
<1>5. Observed(h, b) \in UNION {got'[g] : g \in Hydrations}
  BY <1>1
<1> QED
  BY <1>1, <1>3, <1>4, <1>5

\* Gathering keeps rows and targets in step.
LEMMA GatherGot ==
    ASSUME IInv, NEW h \in Hydrations, pc[h] \in AtTarget,
           NEW b \in BOOLEAN, Gather(h, b)
    PROVE  (GotIsPlanned /\ GotSoFar /\ AskedFirst /\ RecordIsLast)'
<1>0. TypeOK
  BY DEF IInv
<1>1. /\ idx[h] \in DOMAIN Plan[h] /\ idx[h] \in Nat
      /\ Observed(h, b).mat = MatOf[h]
      /\ Observed(h, b).place = Plan[h][idx[h]].place
      /\ Observed(h, b).kind = Plan[h][idx[h]].kind
  BY <1>0, AtTargetType, ObservedType DEF At, TypeOK
<1>2. GotIsPlanned'
  <2> SUFFICES ASSUME NEW g \in Hydrations, NEW r \in got'[g]
               PROVE  /\ r.mat = MatOf[g]
                      /\ \E i \in DOMAIN Plan[g] :
                             /\ r.place = Plan[g][i].place
                             /\ r.kind = Plan[g][i].kind
    BY DEF GotIsPlanned
  <2>1. CASE g = h /\ r = Observed(h, b)
    BY <1>1, <2>1
  <2>2. CASE r \in got[g]
    BY <2>2 DEF IInv, GotIsPlanned
  <2> QED
    BY <1>0, <2>1, <2>2, GatherEffect
<1>3. GotSoFar'
  <2> SUFFICES ASSUME NEW g \in Hydrations, NEW i \in DOMAIN Plan[g],
                      i < idx'[g]
               PROVE  RowFor(g, i, got'[g])
    BY DEF GotSoFar, RowFor
  <2>1. CASE g # h \/ i < idx[h]
    <3>1. i < idx[g] /\ got[g] \subseteq got'[g]
      BY <1>0, <2>1, GatherEffect
    <3>2. RowFor(g, i, got[g])
      BY <3>1 DEF IInv, GotSoFar
    <3> QED
      BY <3>1, <3>2 DEF RowFor
  <2>2. CASE g = h /\ ~(i < idx[h])
    <3>1. i = idx[h]
      BY <1>0, <1>1, <2>2, PlanLength, GatherEffect
    <3>2. Observed(h, b) \in got'[h]
      BY <1>0, GatherEffect
    <3> QED
      BY <1>1, <2>2, <3>1, <3>2 DEF RowFor
  <2> QED
    BY <2>1, <2>2
<1>4. AskedFirst' /\ RecordIsLast'
  BY <1>0, GatherEffect DEF IInv, AskedFirst, RecordIsLast
<1> QED
  BY <1>2, <1>3, <1>4

\* Where no rival has come, only the row's own kind is worked at.
LEMMA OneKind ==
    ASSUME NEW t, ReachedTarget(t), NEW r, ~Rivalled(r), r.place = t.place
    PROVE  r.kind = t.kind
BY DEF ReachedTarget, Rivalled

\* Gathering a row, with a report or from an inspection, keeps rows true.
LEMMA GatherRows ==
    ASSUME IInv, [Next]_vars, NEW h \in Hydrations, pc[h] \in AtTarget,
           NEW b \in BOOLEAN, Gather(h, b),
           rows' = rows, boot' = boot,
           IF b THEN pc[h] \in Calling /\ Reports(At(h)) ELSE told' = told
    PROVE  (RowsArePast /\ ToldRowsStand)'
<1>0. TypeOK
  BY DEF IInv
<1>1. At(h) \in Targets /\ At(h) \in Planned
  BY <1>0, AtTargetType
<1>2. /\ Observed(h, b).place = At(h).place
      /\ Observed(h, b).kind = At(h).kind
      /\ Observed(h, b).boot = boot[NodeOf[At(h).place]]
      /\ Observed(h, b).told = b
  BY <1>0, ObservedType
<1>3. AllRows' = AllRows \cup {Observed(h, b)}
  BY <1>0, GatherEffect DEF AllRows
<1>4. boot[NodeOf[At(h).place]] \in Nat
  BY <1>0, <1>1, PlacesAreOnNodes, RebootsAreCounted DEF Targets, TypeOK
<1>5. RowsArePast'
  BY <1>2, <1>3, <1>4 DEF IInv, RowsArePast
<1>6. ToldRowsStand'
  <2> SUFFICES ASSUME NEW r \in AllRows', r.told,
                      r.boot = boot[NodeOf[r.place]], ~Rivalled(r)
               PROVE  r.kind \in told'[r.place]
    BY <1>0, RivalledStays DEF ToldRowsStand
  <2>1. CASE r.place = At(h).place /\ b
    <3>1. r.kind = At(h).kind
      <4>1. At(h) \in Worked
        BY <2>1 DEF Worked
      <4> QED
        BY <1>0, <2>1, <4>1, WorkedAreReached, OneKind DEF IInv
    <3>2. told'[At(h).place] = {At(h).kind}
      BY <1>0, <1>1, <2>1 DEF Reports, TypeOK, Targets
    <3> QED
      BY <2>1, <3>1, <3>2
  <2>2. CASE ~(r.place = At(h).place /\ b)
    <3>1. r \in AllRows
      BY <1>2, <1>3, <2>2
    <3>2. r.kind \in told[r.place]
      BY <3>1 DEF IInv, ToldRowsStand
    <3>3. CASE b
      <4>1. told' = [told EXCEPT ![At(h).place] = {At(h).kind}]
        BY <3>3 DEF Reports
      <4>2. r.place \in Places /\ r.place # At(h).place
        BY <1>0, <2>2, <3>1, <3>3 DEF AllRows, TypeOK, Rows
      <4> QED
        BY <1>0, <3>2, <4>1, <4>2 DEF TypeOK
    <3>4. CASE ~b
      BY <3>2, <3>4
    <3> QED
      BY <3>3, <3>4
  <2> QED
    BY <2>1, <2>2
<1> QED
  BY <1>5, <1>6

\* What is told is there: a view leaves only before it is reported, or with the
\* report.
LEMMA StepTold == IInv /\ [Next]_vars => ToldIsThere'
<1> SUFFICES ASSUME IInv, [Next]_vars PROVE ToldIsThere'
  OBVIOUS
<1> USE DEF IInv, TypeOK, ToldIsThere
<1>1. ASSUME NEW h \in Hydrations, PeerAnswers(h) PROVE ToldIsThere'
  <2>1. At(h) \in Targets /\ At(h).kind \in view[At(h).place]
    BY <1>1, AtTargetType DEF PeerAnswers, AtTarget, Calling, PeerPhase, Reports
  <2> QED
    BY <1>1, <2>1 DEF PeerAnswers, Reports
<1>2. ASSUME NEW h \in Hydrations, MaterializeAnswers(h) PROVE ToldIsThere'
  <2>1. At(h) \in Targets /\ At(h).kind \in view[At(h).place]
    BY <1>2, AtTargetType
       DEF MaterializeAnswers, AtTarget, Calling, PeerPhase, Reports
  <2> QED
    BY <1>2, <2>1 DEF MaterializeAnswers, Reports
<1>3. ASSUME NEW h \in Hydrations, WorkerInstalls(h) PROVE ToldIsThere'
  BY <1>3 DEF WorkerInstalls
<1>4. ASSUME NEW h \in Hydrations,
             \/ Lookup(h) \/ LookupMisses(h) \/ AskNode(h) \/ RefuseBusy(h)
             \/ FindPresent(h) \/ FindUnexpected(h) \/ FindIncomplete(h)
             \/ ReadCandidates(h) \/ SourceValid(h) \/ SourceRefused(h)
             \/ PeerFails(h) \/ PeersExhausted(h) \/ PruneFails(h)
             \/ FillFails(h) \/ ProbeFails(h) \/ CallTimesOut(h) \/ Record(h)
             \/ RecordFails(h) \/ Kill(h)
      PROVE  ToldIsThere'
  BY <1>4 DEF Lookup, LookupMisses, AskNode, RefuseBusy, FindPresent,
         FindUnexpected, FindIncomplete, ReadCandidates, SourceValid,
         SourceRefused, PeerFails, PeersExhausted, PruneFails, FillFails,
         ProbeFails, CallTimesOut, Record, RecordFails, Kill
<1>5. ASSUME NEW t \in Planned, Appear(t) PROVE ToldIsThere'
  BY <1>5 DEF Appear
<1>6. ASSUME NEW t \in Planned, Withdraw(t) PROVE ToldIsThere'
  BY <1>6 DEF Withdraw
<1>7. ASSUME NEW t \in Worked, Prune(t) PROVE ToldIsThere'
  <2>1. PICK k \in view[t.place] \ {t.kind} :
            /\ view' = [view EXCEPT ![t.place] = @ \ {k}]
            /\ told' = [told EXCEPT ![t.place] = @ \ {k}]
    BY <1>7 DEF Prune
  <2> QED
    BY <2>1
<1>8. CASE ArtifactChanges
  BY <1>8 DEF ArtifactChanges
<1>9. ASSUME NEW n \in Nodes, Reboot(n) PROVE ToldIsThere'
  BY <1>9 DEF Reboot
<1>10. CASE UNCHANGED vars
  BY <1>10 DEF vars
<1> QED
  BY <1>1, <1>2, <1>3, <1>4, <1>5, <1>6, <1>7, <1>8, <1>9, <1>10 DEF Next, Step

\* The rows of a hydration are those of the targets behind it.
LEMMA StepGot ==
    IInv /\ [Next]_vars =>
        (GotIsPlanned /\ GotSoFar /\ AskedFirst /\ RecordIsLast)'
<1> SUFFICES ASSUME IInv, [Next]_vars
             PROVE  (GotIsPlanned /\ GotSoFar /\ AskedFirst /\ RecordIsLast)'
  OBVIOUS
<1> USE DEF Running, AtTarget, Calling, PeerPhase
<1>1. ASSUME NEW h \in Hydrations, AskNode(h)
      PROVE  (GotIsPlanned /\ GotSoFar /\ AskedFirst /\ RecordIsLast)'
  <2>1. idx' = idx /\ got' = got
    BY <1>1 DEF AskNode
  <2>2. \A g \in Hydrations :
            /\ pc'[g] = "record" => pc[g] = "record"
            /\ pc'[g] \in {"lookup", "status"} => pc[g] \in {"lookup", "status"}
    BY <1>1 DEF IInv, TypeOK, Goto, AskNode
  <2>3. AskedFirst' /\ RecordIsLast'
    BY <2>1, <2>2 DEF IInv, AskedFirst, RecordIsLast
  <2>4. GotIsPlanned' /\ GotSoFar'
    BY <2>1 DEF IInv, GotIsPlanned, GotSoFar, RowFor
  <2> QED
    BY <2>3, <2>4
<1>2. ASSUME NEW h \in Hydrations, FindPresent(h)
      PROVE  (GotIsPlanned /\ GotSoFar /\ AskedFirst /\ RecordIsLast)'
  <2>1. pc[h] \in AtTarget /\ Gather(h, FALSE)
    BY <1>2 DEF FindPresent, AtTarget, Calling, PeerPhase
  <2> QED
    BY <2>1, GatherGot
<1>3. ASSUME NEW h \in Hydrations, PeerAnswers(h)
      PROVE  (GotIsPlanned /\ GotSoFar /\ AskedFirst /\ RecordIsLast)'
  <2>1. pc[h] \in AtTarget /\ Gather(h, TRUE)
    BY <1>3 DEF PeerAnswers, AtTarget, Calling, PeerPhase
  <2> QED
    BY <2>1, GatherGot
<1>4. ASSUME NEW h \in Hydrations, MaterializeAnswers(h)
      PROVE  (GotIsPlanned /\ GotSoFar /\ AskedFirst /\ RecordIsLast)'
  <2>1. pc[h] \in AtTarget /\ Gather(h, TRUE)
    BY <1>4 DEF MaterializeAnswers, AtTarget, Calling, PeerPhase
  <2> QED
    BY <2>1, GatherGot
<1>5. ASSUME NEW h \in Hydrations,
             \/ Lookup(h) \/ LookupMisses(h) \/ RefuseBusy(h)
             \/ FindUnexpected(h) \/ FindIncomplete(h) \/ ReadCandidates(h)
             \/ SourceValid(h) \/ SourceRefused(h) \/ PeerFails(h)
             \/ PeersExhausted(h) \/ PruneFails(h) \/ FillFails(h)
             \/ ProbeFails(h) \/ CallTimesOut(h) \/ Record(h)
             \/ RecordFails(h) \/ WorkerInstalls(h) \/ Kill(h)
      PROVE  (GotIsPlanned /\ GotSoFar /\ AskedFirst /\ RecordIsLast)'
  <2>1. idx' = idx /\ got' = got
    BY <1>5
     DEF Lookup, LookupMisses, RefuseBusy, FindUnexpected, FindIncomplete,
         ReadCandidates, SourceValid, SourceRefused, PeerFails, PeersExhausted,
         PruneFails, FillFails, ProbeFails, CallTimesOut, Record, RecordFails,
         WorkerInstalls, Kill
  <2>2. \A g \in Hydrations :
            /\ pc'[g] = "record" => pc[g] = "record"
            /\ pc'[g] \in {"lookup", "status"} => pc[g] \in {"lookup", "status"}
    BY <1>5
     DEF IInv, TypeOK, Goto, Lookup, LookupMisses, RefuseBusy, FindUnexpected,
         FindIncomplete,
         ReadCandidates, SourceValid, SourceRefused, PeerFails, PeersExhausted,
         PruneFails, FillFails, ProbeFails, CallTimesOut, Record, RecordFails,
         WorkerInstalls, Kill
  <2>3. AskedFirst' /\ RecordIsLast'
    BY <2>1, <2>2 DEF IInv, AskedFirst, RecordIsLast
  <2>4. GotIsPlanned' /\ GotSoFar'
    BY <2>1 DEF IInv, GotIsPlanned, GotSoFar, RowFor
  <2> QED
    BY <2>3, <2>4
<1>6. ASSUME NEW t \in Planned, Appear(t)
      PROVE  (GotIsPlanned /\ GotSoFar /\ AskedFirst /\ RecordIsLast)'
  <2>1. pc' = pc /\ idx' = idx /\ got' = got
    BY <1>6 DEF Appear
  <2> QED
    BY <2>1 DEF IInv, AskedFirst, RecordIsLast, GotIsPlanned, GotSoFar, RowFor
<1>7. ASSUME NEW t \in Planned, Withdraw(t)
      PROVE  (GotIsPlanned /\ GotSoFar /\ AskedFirst /\ RecordIsLast)'
  <2>1. pc' = pc /\ idx' = idx /\ got' = got
    BY <1>7 DEF Withdraw
  <2> QED
    BY <2>1 DEF IInv, AskedFirst, RecordIsLast, GotIsPlanned, GotSoFar, RowFor
<1>11. ASSUME NEW t \in Worked, Prune(t)
       PROVE  (GotIsPlanned /\ GotSoFar /\ AskedFirst /\ RecordIsLast)'
  <2>1. pc' = pc /\ idx' = idx /\ got' = got
    BY <1>11 DEF Prune
  <2> QED
    BY <2>1 DEF IInv, AskedFirst, RecordIsLast, GotIsPlanned, GotSoFar, RowFor
<1>8. CASE ArtifactChanges
  <2>1. pc' = pc /\ idx' = idx /\ got' = got
    BY <1>8 DEF ArtifactChanges
  <2> QED
    BY <2>1 DEF IInv, AskedFirst, RecordIsLast, GotIsPlanned, GotSoFar, RowFor
<1>9. ASSUME NEW n \in Nodes, Reboot(n)
      PROVE  (GotIsPlanned /\ GotSoFar /\ AskedFirst /\ RecordIsLast)'
  <2>1. pc' = pc /\ idx' = idx /\ got' = got
    BY <1>9 DEF Reboot
  <2> QED
    BY <2>1 DEF IInv, AskedFirst, RecordIsLast, GotIsPlanned, GotSoFar, RowFor
<1>10. CASE UNCHANGED vars
  <2>1. pc' = pc /\ idx' = idx /\ got' = got
    BY <1>10 DEF vars
  <2> QED
    BY <2>1 DEF IInv, AskedFirst, RecordIsLast, GotIsPlanned, GotSoFar, RowFor
<1> QED
  BY <1>1, <1>2, <1>3, <1>4, <1>5, <1>6, <1>7, <1>8, <1>9, <1>10, <1>11
     DEF Next, Step

\* Rows stay true: where no rival has come, what is told is not taken back.
LEMMA StepRows == IInv /\ [Next]_vars => (RowsArePast /\ ToldRowsStand)'
<1> SUFFICES ASSUME IInv, [Next]_vars PROVE (RowsArePast /\ ToldRowsStand)'
  OBVIOUS
<1> USE DEF IInv, TypeOK, Goto, RowsArePast, ToldRowsStand
<1>0. \A r : ~Rivalled(r)' => ~Rivalled(r)
  BY RivalledStays
<1>1. ASSUME NEW h \in Hydrations, FindPresent(h)
      PROVE  (RowsArePast /\ ToldRowsStand)'
  <2>1. pc[h] \in AtTarget /\ Gather(h, FALSE)
    BY <1>1 DEF FindPresent, AtTarget, Calling, PeerPhase
  <2> QED
    BY <1>1, <2>1, GatherRows DEF FindPresent
<1>2. ASSUME NEW h \in Hydrations, PeerAnswers(h)
      PROVE  (RowsArePast /\ ToldRowsStand)'
  <2>1. pc[h] \in AtTarget /\ pc[h] \in Calling /\ Gather(h, TRUE)
    BY <1>2 DEF PeerAnswers, AtTarget, Calling, PeerPhase
  <2> QED
    BY <1>2, <2>1, GatherRows DEF PeerAnswers
<1>3. ASSUME NEW h \in Hydrations, MaterializeAnswers(h)
      PROVE  (RowsArePast /\ ToldRowsStand)'
  <2>1. pc[h] \in AtTarget /\ pc[h] \in Calling /\ Gather(h, TRUE)
    BY <1>3 DEF MaterializeAnswers, AtTarget, Calling, PeerPhase
  <2> QED
    BY <1>3, <2>1, GatherRows DEF MaterializeAnswers
<1>4. ASSUME NEW h \in Hydrations, Record(h)
      PROVE  (RowsArePast /\ ToldRowsStand)'
  <2>1. AllRows' \subseteq AllRows
    BY <1>4 DEF Record, AllRows, Merge
  <2> QED
    BY <1>0, <1>4, <2>1 DEF Record
<1>5. ASSUME NEW h \in Hydrations, WorkerInstalls(h)
      PROVE  (RowsArePast /\ ToldRowsStand)'
  <2>1. At(h) \in Worked /\ At(h) \in Targets
    BY <1>5, AtTargetType
       DEF WorkerInstalls, AtTarget, Calling, PeerPhase, Worked
  <2>2. At(h).kind \notin told[At(h).place]
    BY <1>5, <2>1 DEF WorkerInstalls, Present, ToldIsThere, Targets
  <2>3. \A r \in AllRows :
            ~Rivalled(r) /\ r.place = At(h).place => r.kind = At(h).kind
    BY <2>1, WorkedAreReached, OneKind
  <2>4. AllRows' = AllRows
    BY <1>5 DEF WorkerInstalls, AllRows
  <2> QED
    BY <1>0, <1>5, <2>2, <2>3, <2>4 DEF WorkerInstalls
<1>6. ASSUME NEW h \in Hydrations,
             \/ Lookup(h) \/ LookupMisses(h) \/ AskNode(h) \/ RefuseBusy(h)
             \/ FindUnexpected(h) \/ FindIncomplete(h) \/ ReadCandidates(h)
             \/ SourceValid(h) \/ SourceRefused(h) \/ PeerFails(h)
             \/ PeersExhausted(h) \/ PruneFails(h) \/ FillFails(h)
             \/ ProbeFails(h) \/ CallTimesOut(h) \/ RecordFails(h) \/ Kill(h)
      PROVE  (RowsArePast /\ ToldRowsStand)'
  <2>1. rows' = rows /\ got' = got /\ told' = told /\ boot' = boot
    BY <1>6 DEF Lookup, LookupMisses, AskNode, RefuseBusy, FindUnexpected,
         FindIncomplete, ReadCandidates, SourceValid, SourceRefused, PeerFails,
         PeersExhausted, PruneFails, FillFails, ProbeFails, CallTimesOut,
         RecordFails, Kill
  <2> QED
    BY <1>0, <2>1 DEF AllRows
<1>7. ASSUME NEW t \in Planned, Appear(t) PROVE (RowsArePast /\ ToldRowsStand)'
  <2>1. AllRows' = AllRows
    BY <1>7 DEF AllRows, Appear
  <2> QED
    BY <1>0, <1>7, <2>1 DEF Appear
<1>8. ASSUME NEW t \in Planned, Withdraw(t)
      PROVE  (RowsArePast /\ ToldRowsStand)'
  <2>1. AllRows' = AllRows
    BY <1>8 DEF AllRows, Withdraw
  <2> QED
    BY <1>0, <1>8, <2>1 DEF Withdraw
<1>12. ASSUME NEW t \in Worked, Prune(t) PROVE (RowsArePast /\ ToldRowsStand)'
  <2>1. PICK k \in view[t.place] \ {t.kind} :
            told' = [told EXCEPT ![t.place] = @ \ {k}]
    BY <1>12 DEF Prune
  <2>2. \A r \in AllRows :
            ~Rivalled(r) /\ r.place = t.place => r.kind = t.kind
    BY WorkedAreReached, OneKind
  <2>3. AllRows' = AllRows /\ boot' = boot
    BY <1>12 DEF Prune, AllRows
  <2>4. \A r \in AllRows : r.place \in Places
    BY DEF AllRows, Rows
  <2> QED
    BY <1>0, <2>1, <2>2, <2>3, <2>4
<1>9. CASE ArtifactChanges
  <2>1. AllRows' = AllRows
    BY <1>9 DEF AllRows, ArtifactChanges
  <2> QED
    BY <1>0, <1>9, <2>1 DEF ArtifactChanges
<1>10. ASSUME NEW n \in Nodes, Reboot(n) PROVE (RowsArePast /\ ToldRowsStand)'
  <2>1. AllRows' = AllRows
    BY <1>10 DEF Reboot, AllRows
  <2>2. \A r \in AllRows : r.place \in Places /\ r.boot \in Nat
    BY RebootsAreCounted DEF AllRows, Rows
  <2>3. /\ boot' = [boot EXCEPT ![n] = @ + 1]
        /\ boot[n] \in Nat
        /\ \A p \in Places : /\ boot[NodeOf[p]] \in Nat
                             /\ NodeOf[p] # n => told'[p] = told[p]
    BY <1>10, PlacesAreOnNodes, RebootsAreCounted DEF Reboot
  <2>4. \A r \in AllRows : /\ NodeOf[r.place] = n => r.boot < boot'[n]
                           /\ NodeOf[r.place] # n =>
                                  boot'[NodeOf[r.place]] = boot[NodeOf[r.place]]
    BY <2>2, <2>3, PlacesAreOnNodes
  <2>5. \A r \in AllRows : r.boot <= boot'[NodeOf[r.place]]
    BY <2>2, <2>3, <2>4
  <2>6. \A r \in AllRows :
            r.boot = boot'[NodeOf[r.place]] => NodeOf[r.place] # n
    BY <2>2, <2>3, <2>4
  <2>7. ToldRowsStand'
    BY <1>0, <2>1, <2>2, <2>3, <2>4, <2>6
  <2> QED
    BY <2>1, <2>5, <2>7
<1>11. CASE UNCHANGED vars
  BY <1>0, <1>11 DEF vars, AllRows
<1> QED
  BY <1>1, <1>2, <1>3, <1>4, <1>5, <1>6, <1>7, <1>8, <1>9, <1>10, <1>11,
     <1>12 DEF Next, Step

\* What was recorded is replaced only by a row of the same target.
LEMMA StepReady == IInv /\ [Next]_vars => ReadyIsRecorded'
<1> SUFFICES ASSUME IInv, [Next]_vars PROVE ReadyIsRecorded'
  OBVIOUS
<1> USE DEF IInv, TypeOK, Goto, ReadyIsRecorded
<1>1. ASSUME NEW h \in Hydrations, Record(h) PROVE ReadyIsRecorded'
  <2>1. rows' = Merge(rows, got[h])
    BY <1>1 DEF Record
  <2> SUFFICES ASSUME NEW g \in Hydrations, pc'[g] = "ready",
                      NEW i \in DOMAIN Plan[g]
               PROVE  RowFor(g, i, rows')
    BY DEF RowFor
  <2>2. CASE g = h
    <3>1. i < idx[h]
      BY <1>1, <2>2, PlanLength DEF Record, RecordIsLast
    <3>2. RowFor(h, i, got[h])
      BY <2>2, <3>1 DEF GotSoFar
    <3> QED
      BY <2>1, <2>2, <3>2 DEF RowFor, Merge
  <2>3. CASE g # h
    <3>1. pc[g] = "ready"
      BY <1>1, <2>3 DEF Record
    <3>2. PICK r \in rows : /\ r.mat = MatOf[g]
                            /\ r.place = Plan[g][i].place
                            /\ r.kind = Plan[g][i].kind
      BY <3>1
    <3>3. CASE \A a \in got[h] : ~SameKey(r, a)
      BY <2>1, <3>2, <3>3 DEF RowFor, Merge
    <3>4. ASSUME NEW a \in got[h], SameKey(r, a) PROVE RowFor(g, i, rows')
      <4>1. PICK j \in DOMAIN Plan[h] : /\ a.place = Plan[h][j].place
                                        /\ a.kind = Plan[h][j].kind
        BY DEF GotIsPlanned
      <4>2. a.mat = MatOf[h] /\ a.mat = MatOf[g] /\ a.place = r.place
        BY <3>2, <3>4 DEF GotIsPlanned, SameKey
      <4>3. Plan[h][j].place = Plan[g][i].place /\ MatOf[h] = MatOf[g]
        BY <3>2, <4>1, <4>2
      <4>4. a.kind = Plan[g][i].kind
        BY <4>1, <4>3, MatsFixKinds
      <4> QED
        BY <2>1, <3>2, <4>2, <4>4 DEF RowFor, Merge
    <3> QED
      BY <3>3, <3>4
  <2> QED
    BY <2>2, <2>3
<1>2. ASSUME NEW h \in Hydrations, FindPresent(h) PROVE ReadyIsRecorded'
  BY <1>2 DEF FindPresent, Gather
<1>3. ASSUME NEW h \in Hydrations, PeerAnswers(h) PROVE ReadyIsRecorded'
  BY <1>3 DEF PeerAnswers, Gather
<1>4. ASSUME NEW h \in Hydrations, MaterializeAnswers(h) PROVE ReadyIsRecorded'
  BY <1>4 DEF MaterializeAnswers, Gather
<1>5. ASSUME NEW h \in Hydrations,
             \/ Lookup(h) \/ LookupMisses(h) \/ AskNode(h) \/ RefuseBusy(h)
             \/ FindUnexpected(h) \/ FindIncomplete(h) \/ ReadCandidates(h)
             \/ SourceValid(h) \/ SourceRefused(h) \/ PeerFails(h)
             \/ PeersExhausted(h) \/ PruneFails(h) \/ FillFails(h)
             \/ ProbeFails(h) \/ CallTimesOut(h) \/ RecordFails(h)
             \/ WorkerInstalls(h) \/ Kill(h)
      PROVE  ReadyIsRecorded'
  BY <1>5 DEF Lookup, LookupMisses, AskNode, RefuseBusy, FindUnexpected,
         FindIncomplete, ReadCandidates, SourceValid, SourceRefused, PeerFails,
         PeersExhausted, PruneFails, FillFails, ProbeFails, CallTimesOut,
         RecordFails, WorkerInstalls, Kill
<1>6. ASSUME NEW t \in Planned, Appear(t) PROVE ReadyIsRecorded'
  BY <1>6 DEF Appear
<1>7. ASSUME NEW t \in Planned, Withdraw(t) PROVE ReadyIsRecorded'
  BY <1>7 DEF Withdraw
<1>11. ASSUME NEW t \in Worked, Prune(t) PROVE ReadyIsRecorded'
  BY <1>11 DEF Prune
<1>8. CASE ArtifactChanges
  BY <1>8 DEF ArtifactChanges
<1>9. ASSUME NEW n \in Nodes, Reboot(n) PROVE ReadyIsRecorded'
  BY <1>9 DEF Reboot
<1>10. CASE UNCHANGED vars
  BY <1>10 DEF vars
<1> QED
  BY <1>1, <1>2, <1>3, <1>4, <1>5, <1>6, <1>7, <1>8, <1>9, <1>10, <1>11
     DEF Next, Step

\* No error of a peer ends a hydration that may fall back.
LEMMA StepPeer ==
    IInv /\ [Next]_vars =>
        \A g \in Fallback : pc[g] \in PeerPhase => pc'[g] # "failed"
<1> SUFFICES ASSUME IInv, [Next]_vars
             PROVE  \A g \in Fallback : pc[g] \in PeerPhase => pc'[g] # "failed"
  OBVIOUS
<1> USE PolicyType
<1> USE DEF IInv, TypeOK, Goto, PeerPhase
<1>1. ASSUME NEW h \in Hydrations, FindPresent(h)
      PROVE  \A g \in Fallback : pc[g] \in PeerPhase => pc'[g] # "failed"
  BY <1>1 DEF FindPresent, Gather
<1>2. ASSUME NEW h \in Hydrations, PeerAnswers(h)
      PROVE  \A g \in Fallback : pc[g] \in PeerPhase => pc'[g] # "failed"
  BY <1>2 DEF PeerAnswers, Gather
<1>3. ASSUME NEW h \in Hydrations, MaterializeAnswers(h)
      PROVE  \A g \in Fallback : pc[g] \in PeerPhase => pc'[g] # "failed"
  BY <1>3 DEF MaterializeAnswers, Gather
<1>4. ASSUME NEW h \in Hydrations,
             \/ Lookup(h) \/ LookupMisses(h) \/ AskNode(h) \/ RefuseBusy(h)
             \/ FindUnexpected(h) \/ FindIncomplete(h) \/ ReadCandidates(h)
             \/ SourceValid(h) \/ SourceRefused(h) \/ PeerFails(h)
             \/ PeersExhausted(h) \/ PruneFails(h) \/ FillFails(h)
             \/ ProbeFails(h) \/ CallTimesOut(h) \/ Record(h)
             \/ RecordFails(h) \/ WorkerInstalls(h) \/ Kill(h)
      PROVE  \A g \in Fallback : pc[g] \in PeerPhase => pc'[g] # "failed"
  BY <1>4 DEF Lookup, LookupMisses, AskNode, RefuseBusy, FindUnexpected,
         FindIncomplete, ReadCandidates, SourceValid, SourceRefused, PeerFails,
         PeersExhausted, PruneFails, FillFails, ProbeFails, CallTimesOut,
         Record, RecordFails, WorkerInstalls, Kill
<1>5. ASSUME NEW t \in Planned, Appear(t)
      PROVE  \A g \in Fallback : pc[g] \in PeerPhase => pc'[g] # "failed"
  BY <1>5 DEF Appear
<1>6. ASSUME NEW t \in Planned, Withdraw(t)
      PROVE  \A g \in Fallback : pc[g] \in PeerPhase => pc'[g] # "failed"
  BY <1>6 DEF Withdraw
<1>10. ASSUME NEW t \in Worked, Prune(t)
       PROVE  \A g \in Fallback : pc[g] \in PeerPhase => pc'[g] # "failed"
  BY <1>10 DEF Prune
<1>7. CASE ArtifactChanges
  BY <1>7 DEF ArtifactChanges
<1>8. ASSUME NEW n \in Nodes, Reboot(n)
      PROVE  \A g \in Fallback : pc[g] \in PeerPhase => pc'[g] # "failed"
  BY <1>8 DEF Reboot
<1>9. CASE UNCHANGED vars
  BY <1>9 DEF vars
<1> QED
  BY <1>1, <1>2, <1>3, <1>4, <1>5, <1>6, <1>7, <1>8, <1>9, <1>10 DEF Next, Step

\* Every step preserves the invariant.
LEMMA StepInv == IInv /\ [Next]_vars => IInv'
<1> SUFFICES ASSUME IInv, [Next]_vars PROVE IInv'
  OBVIOUS
<1> QED
  BY StepType, StepTold, StepOrphans, StepGot, StepRows, StepReady DEF IInv

\* The invariant always holds.
LEMMA Invariance == Spec => []IInv
BY InitInv, StepInv, PTL DEF Spec

\* Every variable keeps its type: a hydration never works at a target past its
\* plan, nor calls a peer worker without a source.
THEOREM TypeCorrect == Spec => []TypeOK
<1>1. IInv => TypeOK
  BY DEF IInv
<1> QED
  BY <1>1, Invariance, PTL

\* Rows that a worker answered for stand until the reboot of their node or until
\* a hydration for another kind comes to their place, for any number of
\* hydrations, retries, kills and workers left behind.
THEOREM RowsAreTrue == Spec => []RowsStand
<1>1. IInv => RowsStand
  <2> SUFFICES ASSUME IInv, NEW r \in AllRows, r.told,
                      r.boot = boot[NodeOf[r.place]], ~Rivalled(r)
               PROVE  r.kind \in view[r.place]
    BY DEF RowsStand, AllRows
  <2>1. r.place \in Places
    BY DEF IInv, TypeOK, AllRows, Rows
  <2>2. r.kind \in told[r.place]
    BY DEF IInv, ToldRowsStand
  <2> QED
    BY <2>1, <2>2 DEF IInv, ToldIsThere
<1> QED
  BY <1>1, Invariance, PTL

\* No record of a hydration makes the registry forget what another recorded.
THEOREM ReadyStaysRecorded == Spec => []ReadyIsRecorded
<1>1. IInv => ReadyIsRecorded
  BY DEF IInv
<1> QED
  BY <1>1, Invariance, PTL

\* With the fallback on, a hydration leaves the peer phase of a target only for
\* the next target or for Disk, unless it times out or is killed.
THEOREM PeerErrorsAreCaught == Spec => PeerErrorsFallBack
<1>1. IInv /\ [Next]_vars =>
          [\A h \in Fallback : pc[h] \in PeerPhase => pc'[h] # "failed"]_vars
  BY StepPeer
<1> QED
  BY <1>1, Invariance, PTL DEF Spec, PeerErrorsFallBack
=============================================================================
