---------------------------- MODULE PrepareProofs ----------------------------
(***************************************************************************)
(* Proofs about Prepare, for any preparations, nodes, targets and bounds:  *)
(* who runs out of space shares the node, a preparation that is done has   *)
(* prepared its nodes, and of the plans that fit the best is taken.        *)
(***************************************************************************)
EXTENDS Prepare, SumsProofs, FiniteSetTheorems, TLAPS

(***************************************************************************)
(* The inductive invariant.  A plan fits what was seen of its nodes and    *)
(* stays what it is; what a preparation has looked up or filled in so far  *)
(* is there, unless its node has rebooted or another plan that is firm     *)
(* wants another target there.                                             *)
(***************************************************************************)

Discovering == {"status", "probe", "weigh", "choose"}
Firm(p) == pc[p] \notin Discovering \cup {"assign"}

\* Another firm plan wants another target at the node of p's target t.
Sharing(p, t) ==
    \E q \in Preparations \ {p} : Firm(q) /\ best[q] # None /\
        \E s \in Targets \ {t} : best[q][s] = best[p][t]

\* The view of t, and the weights, are where p's plan has them.
SameBoot(p, t) == boot[best[p][t]] = snap[p][best[p][t]].boot
ViewStands(p, t) ==
    SameBoot(p, t) => Sharing(p, t) \/ Cached(best[p][t], t)
WeightsStand(p, t) == SameBoot(p, t) => weights[best[p][t]]

\* The plan.
NoPlanYet(p) == pc[p] \in Discovering => best[p] = None
PlanFits(p) ==
    best[p] # None /\ pc[p] \in {"assign"} \cup Planned => Fits(p, best[p])
PlansAreApart(p) ==
    /\ pc[p] = "assign" =>
           \A a \in todo[p] : \A s, t \in Targets : s # t => a[s] # a[t]
    /\ best[p] # None =>
           \A s, t \in Targets : s # t => best[p][s] # best[p][t]
BootsArePast(p) == \A n \in Nodes : snap[p][n].boot <= boot[n]
PhasesFollow(p) ==
    /\ pc[p] \in Discovering \cup {"assign", "resolve", "lookup", "look",
                                   "promote", "hydrate"} => phase[p] = "kv"
    /\ pc[p] \in {"record", "inspect", "done"} => phase[p] = "weights"

\* Who passed the check of its space has the path to itself.
FillerIsAlone(p) ==
    pc[p] = "fill" =>
        /\ ~Here(p) /\ OthersView(p) = None
        /\ \A q \in Preparations \ {p} : pc[q] = "fill" => ~SamePath(p, q)

\* What the lookup saw, what workers brought before this target, and all.
SeenStands(p) == pc[p] = "look" => \A t \in seen[p] : ViewStands(p, t)
ViewsSoFar(p) ==
    pc[p] \in InWorker /\ phase[p] = "kv" =>
        \A t \in Targets : t < tgt[p] => ViewStands(p, t)
ViewsAllBrought(p) ==
    /\ pc[p] \in {"record", "ask", "inspect", "done"} \cup InWorker
    /\ phase[p] = "weights" /\ ~prefill[p]
ViewsAllStand(p) ==
    ViewsAllBrought(p) => \A t \in Targets : ViewStands(p, t)
WeightsSoFar(p) ==
    pc[p] \in InWorker /\ phase[p] = "weights" =>
        \A t \in Targets : t < tgt[p] => WeightsStand(p, t)
WeightsAllBrought(p) == pc[p] = "inspect" \/ (pc[p] = "done" /\ WeightsEnabled)
WeightsAllStand(p) ==
    WeightsAllBrought(p) => \A t \in Targets : WeightsStand(p, t)

IInv ==
    /\ TypeOK
    /\ \A p \in Preparations :
           /\ NoPlanYet(p)
           /\ PlanFits(p)
           /\ PlansAreApart(p)
           /\ BootsArePast(p)
           /\ PhasesFollow(p)
           /\ FillerIsAlone(p)
           /\ SeenStands(p)
           /\ ViewsSoFar(p)
           /\ ViewsAllStand(p)
           /\ WeightsSoFar(p)
           /\ WeightsAllStand(p)

-----------------------------------------------------------------------------
\* What a step may do to the views and the weights of nodes.
BringsView(p) == (Fill(p) \/ LeftFills(p)) /\ phase[p] = "kv"
BringsWeights(p) == (Fill(p) \/ LeftFills(p)) /\ phase[p] # "kv"
ViewsCome ==
    \A n \in Nodes, i \in Paths :
        \/ at'[n][i] \in {at[n][i], None}
        \/ \E p \in Preparations : /\ BringsView(p)
                                   /\ n = Place(p) /\ i = PathOf[tgt[p]]
                                   /\ at'[n][i] = tgt[p]
WeightsCome ==
    \A n \in Nodes :
        weights'[n] =>
            \/ weights[n]
            \/ \E p \in Preparations : BringsWeights(p) /\ n = Place(p)
ViewsGo ==
    \A n \in Nodes, t \in Targets :
        Cached(n, t) =>
            \/ Cached(n, t)'
            \/ boot'[n] = boot[n] + 1
            \/ \E p \in Preparations :
                   /\ CheckSpace(p) /\ phase[p] = "kv"
                   /\ n = Place(p) /\ tgt[p] # t
WeightsGo ==
    \A n \in Nodes :
        weights[n] => weights'[n] \/ boot'[n] = boot[n] + 1

\* What a step may do to a preparation that fills, or that has its plan.
FillersStay(p) ==
    pc'[p] = "fill" =>
        \/ CheckSpace(p)
        \/ pc[p] = "fill" /\ phase'[p] = phase[p] /\ tgt'[p] = tgt[p]
           /\ best'[p] = best[p]
FirmStays(p) ==
    Firm(p) => /\ Firm(p)' /\ best'[p] = best[p]
               /\ snap'[p] = snap[p] \/ pc'[p] \in {"failed", "left"}

\* How a preparation comes to where the invariant speaks of it.
Brought(p) ==
    IF phase[p] = "kv" THEN at'[Place(p)][PathOf[tgt[p]]] = tgt[p]
                       ELSE weights'[Place(p)]
LookingSince(p) ==
    pc'[p] = "look" =>
        \/ pc[p] = "lookup" /\ seen'[p] = {}
        \/ pc[p] = "look" /\ seen'[p] = seen[p]
        \/ /\ pc[p] = "look" /\ seen'[p] = seen[p] \cup {tgt[p]}
           /\ tgt[p] \in Targets /\ Cached(Place(p), tgt[p]) /\ UNCHANGED at
WorkingSince(p) ==
    pc'[p] \in InWorker =>
        \/ pc[p] = "ask" /\ tgt'[p] = 1
        \/ /\ pc[p] \in InWorker /\ phase'[p] = phase[p]
           /\ tgt'[p] = tgt[p] \/ (tgt'[p] = tgt[p] + 1 /\ Brought(p))
ViewsBroughtSince(p) ==
    ViewsAllBrought(p)' =>
        \/ ViewsAllBrought(p)
        \/ pc[p] = "look" /\ seen[p] = Targets
        \/ pc[p] \in InWorker /\ phase[p] = "kv" /\ tgt[p] = N /\ Brought(p)
WeightsBroughtSince(p) ==
    WeightsAllBrought(p)' =>
        \/ WeightsAllBrought(p)
        \/ /\ pc[p] \in InWorker /\ phase[p] = "weights" /\ tgt[p] = N
           /\ Brought(p)

\* How a worker comes to find too little memory.
ShortOnce(p) ==
    pc[p] # "no_space" /\ pc'[p] = "no_space" =>
        \/ /\ pc[p] = "check" /\ ~Here(p)
           /\ FreeAfterPruning(p) < Size(p) + Reserve(p)
        \/ pc[p] = "fill" /\ free[Place(p)] < Size(p)

-----------------------------------------------------------------------------
\* Targets are numbered from 1 to N.
LEMMA TargetFacts ==
    /\ N \in Nat /\ N > 0 /\ 1 \in Targets
    /\ \A t \in Targets : t \in Nat /\ t <= N /\ (t < N => t + 1 \in Targets)
BY TargetAssumption DEF Targets

\* The candidate that a preparation is at is a node.
LEMMA CandidateType ==
    ASSUME TypeOK, NEW p \in Preparations,
           pc[p] \in {"status", "probe", "weigh"}
    PROVE  /\ Candidate(p) \in Nodes
           /\ Len(Candidates[p]) \in Nat
           /\ cand[p] \in 1..Len(Candidates[p])
<1>1. Candidates[p] \in Seq(Nodes) /\ cand[p] \in 1..Len(Candidates[p])
  BY NodeAssumption DEF TypeOK
<1> QED
  BY <1>1 DEF Candidate

\* A worker is called for a target of the plan, on its node.
LEMMA PlaceType ==
    ASSUME TypeOK, NEW p \in Preparations,
           pc[p] \in {"ask", "inspect", "left"} \cup InWorker
    PROVE  /\ tgt[p] \in Targets /\ best[p] \in [Targets -> Nodes]
           /\ Place(p) \in Nodes /\ Place(p) = best[p][tgt[p]]
           /\ PathOf[tgt[p]] \in Paths
           /\ Size(p) \in Nat /\ Reserve(p) \in Nat
           /\ OthersView(p) \in Targets \cup {None}
           /\ FreeAfterPruning(p) \in Nat
<1>1. tgt[p] \in Targets /\ best[p] \in [Targets -> Nodes]
  BY DEF TypeOK, InWorker, Planned
<1>2. /\ Place(p) \in Nodes /\ Place(p) = best[p][tgt[p]]
      /\ PathOf[tgt[p]] \in Paths
  BY <1>1, TargetAssumption DEF Place
<1>3. Size(p) \in Nat /\ Reserve(p) \in Nat
  BY <1>1, TargetAssumption, ByteAssumption DEF Size, Reserve
<1>4. OthersView(p) \in Targets \cup {None}
  BY <1>2 DEF OthersView, TypeOK
<1>5. FreeAfterPruning(p) \in Nat
  BY <1>2, <1>4, TargetAssumption DEF FreeAfterPruning, TypeOK
<1> QED
  BY <1>1, <1>2, <1>3, <1>4, <1>5

\* The invariant holds at the start.
LEMMA InitInv == Init => IInv
<1> SUFFICES ASSUME Init PROVE IInv
  OBVIOUS
<1> USE DEF Init
<1>1. \A p \in Preparations :
          Candidates[p] # <<>> => 1 \in 1..Len(Candidates[p])
  BY NodeAssumption
<1>2. TypeOK
  BY <1>1, InitAssumption, TargetAssumption
     DEF TypeOK, Running, Remote, InWorker, Planned, Seen, Unseen, Targets
<1> QED
  BY <1>2
     DEF IInv, NoPlanYet, PlanFits, PlansAreApart, BootsArePast, PhasesFollow,
         FillerIsAlone, SeenStands, ViewsSoFar, ViewsAllStand, WeightsSoFar,
         WeightsAllStand, ViewsAllBrought, WeightsAllBrought, Discovering,
         Planned, InWorker, Unseen

\* What one preparation does leaves what others know and do alone.
LEMMA Frame ==
    ASSUME NEW p \in Preparations, Step(p) \/ Kill(p) \/ LeftFills(p),
           NEW q \in Preparations \ {p}, TypeOK
    PROVE  /\ pc'[q] = pc[q] /\ phase'[q] = phase[q]
           /\ cand'[q] = cand[q] /\ tgt'[q] = tgt[q]
           /\ snap'[q] = snap[q] /\ todo'[q] = todo[q] /\ best'[q] = best[q]
           /\ seen'[q] = seen[q] /\ hit'[q] = hit[q]
           /\ promoted'[q] = promoted[q] /\ prefill'[q] = prefill[q]
<1> DEFINE Same ==
        /\ pc'[q] = pc[q] /\ phase'[q] = phase[q]
        /\ cand'[q] = cand[q] /\ tgt'[q] = tgt[q]
        /\ snap'[q] = snap[q] /\ todo'[q] = todo[q] /\ best'[q] = best[q]
        /\ seen'[q] = seen[q] /\ hit'[q] = hit[q]
        /\ promoted'[q] = promoted[q] /\ prefill'[q] = prefill[q]
<1> USE DEF TypeOK, Goto, progress, planning, looking
<1>1. CASE AskStatus(p)
  BY <1>1 DEF AskStatus
<1>2. CASE ProbeCache(p)
  BY <1>2 DEF ProbeCache
<1>3. CASE ProbeWeights(p)
  BY <1>3 DEF ProbeWeights
<1>4. CASE Choose(p)
  BY <1>4 DEF Choose
<1>5. CASE TooFewNodes(p)
  BY <1>5 DEF TooFewNodes
<1>6. CASE Consider(p)
  BY <1>6 DEF Consider
<1>7. CASE Decide(p)
  BY <1>7 DEF Decide
<1>8. CASE Resolve(p)
  BY <1>8 DEF Resolve
<1>9. CASE OpenLookup(p)
  BY <1>9 DEF OpenLookup
<1>10. CASE FindInvalid(p)
  BY <1>10 DEF FindInvalid
<1>11. CASE Look(p)
  BY <1>11 DEF Look
<1>12. CASE AnswerHit(p)
  BY <1>12 DEF AnswerHit, AnswerTo
<1>13. CASE AnswerPromotable(p)
  BY <1>13 DEF AnswerPromotable, AnswerTo
<1>14. CASE AnswerPrefill(p)
  BY <1>14 DEF AnswerPrefill, AnswerTo
<1>15. CASE PublishAnswers(p)
  BY <1>15 DEF PublishAnswers
<1>16. CASE BeginHydration(p)
  BY <1>16 DEF BeginHydration
<1>17. CASE AskIdle(p)
  BY <1>17 DEF AskIdle, NextTarget
<1>18. CASE FindPresent(p)
  BY <1>18 DEF FindPresent, Advance, NextTarget
<1>19. CASE CheckSpace(p)
  BY <1>19 DEF CheckSpace, Prune
<1>20. CASE Fill(p)
  BY <1>20 DEF Fill, Advance, Bring, NextTarget
<1>21. CASE FillRunsOut(p)
  BY <1>21 DEF FillRunsOut
<1>22. CASE RecordRows(p)
  BY <1>22 DEF RecordRows
<1>23. CASE InspectWeights(p)
  BY <1>23 DEF InspectWeights, NextTarget
<1>24. CASE CallFails(p)
  BY <1>24 DEF CallFails, Stops
<1>25. CASE Kill(p)
  BY <1>25 DEF Kill, Stops
<1>26. CASE LeftFills(p)
  BY <1>26 DEF LeftFills, Bring
<1> QED
  BY <1>1, <1>2, <1>3, <1>4, <1>5, <1>6, <1>7, <1>8, <1>9, <1>10, <1>11, <1>12,
     <1>13, <1>14, <1>15, <1>16, <1>17, <1>18, <1>19, <1>20, <1>21, <1>22,
     <1>23, <1>24, <1>25, <1>26
     DEF Step

\* Engines and other commands leave preparations, views and boots alone.
OutsideStep ==
    \/ \E n \in Unsteady : EngineRuns(n) \/ EngineEnds(n)
    \/ StoreChanges
    \/ UNCHANGED vars

\* They change no more than the engines, the free memory and Disk.
LEMMA OutsideRests ==
    ASSUME OutsideStep
    PROVE  UNCHANGED <<pc, phase, cand, tgt, snap, todo, best, seen, hit,
                       promoted, prefill, lock, at, weights, boot>>
BY DEF OutsideStep, EngineRuns, EngineEnds, StoreChanges, vars, progress,
       planning, looking, memory, outside

\* What preparations do leaves the boots and the engines alone.
LEMMA OutsideFrame ==
    ASSUME NEW p \in Preparations, Step(p) \/ Kill(p) \/ LeftFills(p)
    PROVE  UNCHANGED <<busy, boot, upsets>>
BY DEF Step, outside, AskStatus, ProbeCache, ProbeWeights, Choose, TooFewNodes,
       Consider, Decide, Resolve, OpenLookup, FindInvalid, Look, AnswerHit,
       AnswerPromotable, AnswerPrefill, PublishAnswers, BeginHydration,
       AskIdle, FindPresent, CheckSpace, Fill, FillRunsOut, RecordRows,
       InspectWeights, CallFails, Kill, LeftFills, AnswerTo, Stops

\* Every step leads to a place there is.
LEMMA StepPc ==
    TypeOK /\ [Next]_vars =>
        pc' \in [Preparations -> Running \cup Terminal]
<1> SUFFICES ASSUME TypeOK, [Next]_vars
             PROVE  pc' \in [Preparations -> Running \cup Terminal]
  OBVIOUS
<1> USE DEF TypeOK, Goto, Running, Remote, Terminal, InWorker
<1>1. ASSUME NEW p \in Preparations, AskStatus(p)
      PROVE  pc' \in [Preparations -> Running \cup Terminal]
  BY <1>1 DEF AskStatus
<1>2. ASSUME NEW p \in Preparations, ProbeCache(p)
      PROVE  pc' \in [Preparations -> Running \cup Terminal]
  BY <1>2 DEF ProbeCache
<1>3. ASSUME NEW p \in Preparations, ProbeWeights(p)
      PROVE  pc' \in [Preparations -> Running \cup Terminal]
  BY <1>3 DEF ProbeWeights
<1>4. ASSUME NEW p \in Preparations, Choose(p)
      PROVE  pc' \in [Preparations -> Running \cup Terminal]
  BY <1>4 DEF Choose
<1>5. ASSUME NEW p \in Preparations, TooFewNodes(p)
      PROVE  pc' \in [Preparations -> Running \cup Terminal]
  BY <1>5 DEF TooFewNodes
<1>6. ASSUME NEW p \in Preparations, Decide(p)
      PROVE  pc' \in [Preparations -> Running \cup Terminal]
  BY <1>6 DEF Decide
<1>7. ASSUME NEW p \in Preparations, Resolve(p)
      PROVE  pc' \in [Preparations -> Running \cup Terminal]
  BY <1>7 DEF Resolve
<1>8. ASSUME NEW p \in Preparations, OpenLookup(p)
      PROVE  pc' \in [Preparations -> Running \cup Terminal]
  BY <1>8 DEF OpenLookup
<1>9. ASSUME NEW p \in Preparations, FindInvalid(p)
      PROVE  pc' \in [Preparations -> Running \cup Terminal]
  BY <1>9 DEF FindInvalid, AfterKv
<1>10. ASSUME NEW p \in Preparations, Look(p)
      PROVE  pc' \in [Preparations -> Running \cup Terminal]
  BY <1>10 DEF Look
<1>11. ASSUME NEW p \in Preparations, AnswerHit(p)
      PROVE  pc' \in [Preparations -> Running \cup Terminal]
  BY <1>11 DEF AnswerHit, AnswerTo, AfterKv
<1>12. ASSUME NEW p \in Preparations, AnswerPromotable(p)
      PROVE  pc' \in [Preparations -> Running \cup Terminal]
  BY <1>12 DEF AnswerPromotable, AnswerTo
<1>13. ASSUME NEW p \in Preparations, AnswerPrefill(p)
      PROVE  pc' \in [Preparations -> Running \cup Terminal]
  BY <1>13 DEF AnswerPrefill, AnswerTo, AfterKv
<1>14. ASSUME NEW p \in Preparations, PublishAnswers(p)
      PROVE  pc' \in [Preparations -> Running \cup Terminal]
  BY <1>14 DEF PublishAnswers
<1>15. ASSUME NEW p \in Preparations, BeginHydration(p)
      PROVE  pc' \in [Preparations -> Running \cup Terminal]
  BY <1>15 DEF BeginHydration
<1>16. ASSUME NEW p \in Preparations, AskIdle(p)
      PROVE  pc' \in [Preparations -> Running \cup Terminal]
  BY <1>16 DEF AskIdle
<1>17. ASSUME NEW p \in Preparations, FindPresent(p)
      PROVE  pc' \in [Preparations -> Running \cup Terminal]
  BY <1>17 DEF FindPresent, Advance
<1>18. ASSUME NEW p \in Preparations, CheckSpace(p)
      PROVE  pc' \in [Preparations -> Running \cup Terminal]
  BY <1>18 DEF CheckSpace, Prune
<1>19. ASSUME NEW p \in Preparations, Fill(p)
      PROVE  pc' \in [Preparations -> Running \cup Terminal]
  BY <1>19 DEF Fill, Advance, Bring
<1>20. ASSUME NEW p \in Preparations, FillRunsOut(p)
      PROVE  pc' \in [Preparations -> Running \cup Terminal]
  BY <1>20 DEF FillRunsOut
<1>21. ASSUME NEW p \in Preparations, RecordRows(p)
      PROVE  pc' \in [Preparations -> Running \cup Terminal]
  BY <1>21 DEF RecordRows, AfterKv
<1>22. ASSUME NEW p \in Preparations, InspectWeights(p)
      PROVE  pc' \in [Preparations -> Running \cup Terminal]
  BY <1>22 DEF InspectWeights
<1>23. ASSUME NEW p \in Preparations, CallFails(p)
      PROVE  pc' \in [Preparations -> Running \cup Terminal]
  BY <1>23 DEF CallFails, Stops
<1>24. ASSUME NEW p \in Preparations, Kill(p)
      PROVE  pc' \in [Preparations -> Running \cup Terminal]
  BY <1>24 DEF Kill, Stops
<1>25. ASSUME NEW p \in Preparations, LeftFills(p)
      PROVE  pc' \in [Preparations -> Running \cup Terminal]
  BY <1>25 DEF LeftFills, Bring
<1>26. ASSUME NEW p \in Preparations,
             \/ Consider(p)
      PROVE  pc' \in [Preparations -> Running \cup Terminal]
  BY <1>26 DEF Consider, progress, planning, looking, memory, outside
<1>27. ASSUME NEW n \in Unsteady, Reboot(n)
      PROVE  pc' \in [Preparations -> Running \cup Terminal]
  BY <1>27 DEF Reboot, progress, planning, looking, memory, outside
<1>28. CASE OutsideStep
  BY <1>28, OutsideRests
<1> QED
  BY <1>1, <1>2, <1>3, <1>4, <1>5, <1>6, <1>7, <1>8, <1>9, <1>10, <1>11, <1>12,
     <1>13, <1>14, <1>15, <1>16, <1>17, <1>18, <1>19, <1>20, <1>21, <1>22,
     <1>23, <1>24, <1>25, <1>26, <1>27, <1>28
     DEF Next, Step, OutsideStep

\* Every step keeps the type of the phase.
LEMMA StepPhase ==
    TypeOK /\ [Next]_vars =>
        phase' \in [Preparations -> {"kv", "weights"}]
<1> SUFFICES ASSUME TypeOK, [Next]_vars
             PROVE  phase' \in [Preparations -> {"kv", "weights"}]
  OBVIOUS
<1> USE DEF TypeOK
<1>1. ASSUME NEW p \in Preparations, FindInvalid(p)
      PROVE  phase' \in [Preparations -> {"kv", "weights"}]
  BY <1>1 DEF FindInvalid, Goto
<1>2. ASSUME NEW p \in Preparations, AnswerHit(p)
      PROVE  phase' \in [Preparations -> {"kv", "weights"}]
  BY <1>2 DEF AnswerHit, AnswerTo, Goto
<1>3. ASSUME NEW p \in Preparations, AnswerPrefill(p)
      PROVE  phase' \in [Preparations -> {"kv", "weights"}]
  BY <1>3 DEF AnswerPrefill, AnswerTo, Goto
<1>4. ASSUME NEW p \in Preparations, FindPresent(p)
      PROVE  phase' \in [Preparations -> {"kv", "weights"}]
  BY <1>4 DEF FindPresent, Advance, Goto
<1>5. ASSUME NEW p \in Preparations, Fill(p)
      PROVE  phase' \in [Preparations -> {"kv", "weights"}]
  BY <1>5 DEF Fill, Advance, Bring, Goto
<1>6. ASSUME NEW p \in Preparations,
             \/ AskStatus(p) \/ ProbeCache(p) \/ ProbeWeights(p) \/ Choose(p)
             \/ TooFewNodes(p) \/ Consider(p) \/ Decide(p) \/ Resolve(p)
             \/ OpenLookup(p) \/ Look(p) \/ AnswerPromotable(p)
             \/ PublishAnswers(p) \/ BeginHydration(p) \/ AskIdle(p)
             \/ CheckSpace(p) \/ FillRunsOut(p) \/ RecordRows(p)
             \/ InspectWeights(p) \/ CallFails(p) \/ Kill(p) \/ LeftFills(p)
      PROVE  phase' \in [Preparations -> {"kv", "weights"}]
  BY <1>6
     DEF AskStatus, ProbeCache, ProbeWeights, Choose, TooFewNodes, Consider,
         Decide, Resolve, OpenLookup, Look, AnswerPromotable, PublishAnswers,
         BeginHydration, AskIdle, CheckSpace, FillRunsOut, RecordRows,
         InspectWeights, CallFails, Kill, LeftFills, AnswerTo, Prune, Stops,
         Bring, progress, planning, looking, memory, outside
<1>7. ASSUME NEW n \in Unsteady, Reboot(n)
      PROVE  phase' \in [Preparations -> {"kv", "weights"}]
  BY <1>7 DEF Reboot, progress, planning, looking, memory, outside
<1>8. CASE OutsideStep
  BY <1>8, OutsideRests
<1> QED
  BY <1>1, <1>2, <1>3, <1>4, <1>5, <1>6, <1>7, <1>8 DEF Next, Step, OutsideStep

\* What is known of a node can be replaced.
LEMMA SnapUpdate ==
    ASSUME NEW S, NEW f \in [Preparations -> [Nodes -> S]],
           NEW p \in Preparations, NEW n \in Nodes, NEW r \in S
    PROVE  [f EXCEPT ![p] = [f[p] EXCEPT ![n] = r]]
               \in [Preparations -> [Nodes -> S]]
<1>1. [f[p] EXCEPT ![n] = r] \in [Nodes -> S]
  OBVIOUS
<1> QED
  BY <1>1

\* Every step keeps the type of what is known of the nodes.
LEMMA StepSnap ==
    TypeOK /\ [Next]_vars =>
        snap' \in [Preparations -> [Nodes -> Seen]]
<1> SUFFICES ASSUME TypeOK, [Next]_vars
             PROVE  snap' \in [Preparations -> [Nodes -> Seen]]
  OBVIOUS
<1>a. snap \in [Preparations -> [Nodes -> Seen]]
  BY DEF TypeOK
<1>1. ASSUME NEW p \in Preparations, AskStatus(p)
      PROVE  snap' \in [Preparations -> [Nodes -> Seen]]
  <2>1. /\ Candidate(p) \in Nodes /\ free[Candidate(p)] \in Nat
        /\ boot[Candidate(p)] \in Nat
        /\ snap \in [Preparations -> [Nodes -> Seen]]
        /\ snap[p][Candidate(p)] \in Seen
    BY <1>1, <1>a, CandidateType DEF AskStatus, Goto, TypeOK
  <2> DEFINE r == [idle |-> TRUE, free |-> free[Candidate(p)],
                    cached |-> {}, weights |-> FALSE,
                    boot |-> boot[Candidate(p)]]
  <2>2. r \in Seen
    BY <2>1 DEF Seen
  <2>3. \/ UNCHANGED snap
        \/ snap' = [snap EXCEPT
                        ![p] = [snap[p] EXCEPT ![Candidate(p)] = r]]
    BY <1>1, <1>a, <2>1 DEF AskStatus
  <2> HIDE DEF r
  <2>4. [snap EXCEPT ![p] = [snap[p] EXCEPT ![Candidate(p)] = r]]
            \in [Preparations -> [Nodes -> Seen]]
    BY <2>1, <2>2, SnapUpdate
  <2> QED
    BY <2>1, <2>3, <2>4
<1>2. ASSUME NEW p \in Preparations, ProbeCache(p)
      PROVE  snap' \in [Preparations -> [Nodes -> Seen]]
  <2>1. /\ Candidate(p) \in Nodes /\ tgt[p] \in Targets
        /\ snap \in [Preparations -> [Nodes -> Seen]]
        /\ snap[p][Candidate(p)] \in Seen
    BY <1>2, <1>a, CandidateType DEF ProbeCache, Goto, TypeOK
  <2> DEFINE r == [snap[p][Candidate(p)] EXCEPT !.cached = @ \cup {tgt[p]}]
  <2>2. r \in Seen
    BY <2>1 DEF Seen
  <2>3. \/ UNCHANGED snap
        \/ snap' = [snap EXCEPT
                        ![p] = [snap[p] EXCEPT ![Candidate(p)] = r]]
    BY <1>2, <1>a, <2>1 DEF ProbeCache
  <2> HIDE DEF r
  <2>4. [snap EXCEPT ![p] = [snap[p] EXCEPT ![Candidate(p)] = r]]
            \in [Preparations -> [Nodes -> Seen]]
    BY <2>1, <2>2, SnapUpdate
  <2> QED
    BY <2>1, <2>3, <2>4
<1>3. ASSUME NEW p \in Preparations, ProbeWeights(p)
      PROVE  snap' \in [Preparations -> [Nodes -> Seen]]
  <2>1. /\ Candidate(p) \in Nodes /\ p \in Preparations
        /\ snap \in [Preparations -> [Nodes -> Seen]]
        /\ snap[p][Candidate(p)] \in Seen
    BY <1>3, <1>a, CandidateType DEF ProbeWeights, Goto, TypeOK
  <2> DEFINE r == [snap[p][Candidate(p)] EXCEPT !.weights = TRUE]
  <2>2. r \in Seen
    BY <2>1 DEF Seen
  <2>3. \/ UNCHANGED snap
        \/ snap' = [snap EXCEPT
                        ![p] = [snap[p] EXCEPT ![Candidate(p)] = r]]
    BY <1>3, <1>a, <2>1 DEF ProbeWeights
  <2> HIDE DEF r
  <2>4. [snap EXCEPT ![p] = [snap[p] EXCEPT ![Candidate(p)] = r]]
            \in [Preparations -> [Nodes -> Seen]]
    BY <2>1, <2>2, SnapUpdate
  <2> QED
    BY <2>1, <2>3, <2>4
<1>4. ASSUME NEW p \in Preparations, CallFails(p)
      PROVE  snap' \in [Preparations -> [Nodes -> Seen]]
  BY <1>4, <1>a DEF CallFails, Stops, Unseen, Seen
<1>5. ASSUME NEW p \in Preparations, Kill(p)
      PROVE  snap' \in [Preparations -> [Nodes -> Seen]]
  BY <1>5, <1>a DEF Kill, Stops, Unseen, Seen
<1>6. ASSUME NEW p \in Preparations,
             \/ Choose(p) \/ TooFewNodes(p) \/ Consider(p) \/ Decide(p)
             \/ Resolve(p) \/ OpenLookup(p) \/ FindInvalid(p) \/ Look(p)
             \/ AnswerHit(p) \/ AnswerPromotable(p) \/ AnswerPrefill(p)
             \/ PublishAnswers(p) \/ BeginHydration(p) \/ AskIdle(p)
             \/ FindPresent(p) \/ CheckSpace(p) \/ Fill(p) \/ FillRunsOut(p)
             \/ RecordRows(p) \/ InspectWeights(p) \/ LeftFills(p)
      PROVE  snap' \in [Preparations -> [Nodes -> Seen]]
  BY <1>6, <1>a
     DEF Choose, TooFewNodes, Consider, Decide, Resolve, OpenLookup,
         FindInvalid, Look, AnswerHit, AnswerPromotable, AnswerPrefill,
         PublishAnswers, BeginHydration, AskIdle, FindPresent, CheckSpace,
         Fill, FillRunsOut, RecordRows, InspectWeights, LeftFills, AnswerTo,
         Advance, Prune, Bring, progress, planning, looking, memory, outside
<1>7. ASSUME NEW n \in Unsteady, Reboot(n)
      PROVE  snap' \in [Preparations -> [Nodes -> Seen]]
  BY <1>7, <1>a DEF Reboot, progress, planning, looking, memory, outside
<1>8. CASE OutsideStep
  BY <1>8, <1>a, OutsideRests
<1> QED
  BY <1>1, <1>2, <1>3, <1>4, <1>5, <1>6, <1>7, <1>8 DEF Next, Step, OutsideStep

\* Where a preparation is, it has a candidate, a target and a plan.
Points(q) ==
    /\ pc[q] \in {"status", "probe", "weigh"} =>
           cand[q] \in 1..Len(Candidates[q])
    /\ pc[q] \in {"status", "probe", "hydrate", "record", "ask",
                  "inspect", "left"} \cup InWorker =>
           tgt[q] \in Targets
    /\ pc[q] = "look" => tgt[q] \in 1..N + 1
    /\ pc[q] \in Planned \cup {"done", "left"} => best[q] # None

\* Every step keeps them.
LEMMA StepPoints ==
    TypeOK /\ [Next]_vars => \A q \in Preparations : Points(q)'
<1> SUFFICES ASSUME TypeOK, [Next]_vars, NEW q \in Preparations
             PROVE  Points(q)'
  OBVIOUS
<1> USE DEF Goto, InWorker, Planned, Points
<1>a. /\ Points(q) /\ pc \in [Preparations -> Running \cup Terminal]
      /\ best \in [Preparations -> [Targets -> Nodes] \cup {None}]
      /\ todo \in [Preparations -> SUBSET [Targets -> Nodes]]
      /\ cand \in [Preparations -> Nat] /\ tgt \in [Preparations -> Nat]
  BY DEF TypeOK
<1>1. ASSUME NEW p \in Preparations \ {q},
             Step(p) \/ Kill(p) \/ LeftFills(p)
      PROVE  Points(q)'
  BY <1>1, <1>a, TargetFacts, Frame
<1>2. CASE AskStatus(q)
  <2>1. /\ Len(Candidates[q]) \in Nat
        /\ cand[q] \in 1..Len(Candidates[q])
    BY <1>2, CandidateType DEF AskStatus
  <2> QED
    BY <1>2, <1>a, TargetFacts, <2>1 DEF AskStatus
<1>3. CASE ProbeCache(q)
  <2>1. /\ Len(Candidates[q]) \in Nat
        /\ cand[q] \in 1..Len(Candidates[q])
    BY <1>3, CandidateType DEF ProbeCache
  <2> QED
    BY <1>3, <1>a, TargetFacts, <2>1 DEF ProbeCache
<1>4. CASE ProbeWeights(q)
  <2>1. /\ Len(Candidates[q]) \in Nat
        /\ cand[q] \in 1..Len(Candidates[q])
    BY <1>4, CandidateType DEF ProbeWeights
  <2> QED
    BY <1>4, <1>a, TargetFacts, <2>1 DEF ProbeWeights
<1>5. CASE Choose(q)
  BY <1>5, <1>a, TargetFacts DEF Choose
<1>6. CASE TooFewNodes(q)
  BY <1>6, <1>a, TargetFacts DEF TooFewNodes, planning
<1>7. CASE Consider(q)
  BY <1>7, <1>a, TargetFacts, NoneAssumption DEF Consider, progress
<1>8. CASE Decide(q)
  BY <1>8, <1>a, TargetFacts DEF Decide, planning
<1>9. CASE Resolve(q)
  BY <1>9, <1>a, TargetFacts DEF Resolve, planning
<1>10. CASE OpenLookup(q)
  BY <1>10, <1>a, TargetFacts DEF OpenLookup, planning
<1>11. CASE FindInvalid(q)
  BY <1>11, <1>a, TargetFacts DEF FindInvalid, planning, AfterKv
<1>12. CASE Look(q)
  BY <1>12, <1>a, TargetFacts DEF Look, planning
<1>13. CASE AnswerHit(q)
  BY <1>13, <1>a, TargetFacts DEF AnswerHit, AnswerTo, planning, AfterKv
<1>14. CASE AnswerPromotable(q)
  BY <1>14, <1>a, TargetFacts DEF AnswerPromotable, AnswerTo, planning
<1>15. CASE AnswerPrefill(q)
  BY <1>15, <1>a, TargetFacts DEF AnswerPrefill, AnswerTo, planning, AfterKv
<1>16. CASE PublishAnswers(q)
  BY <1>16, <1>a, TargetFacts DEF PublishAnswers, planning
<1>17. CASE BeginHydration(q)
  BY <1>17, <1>a, TargetFacts DEF BeginHydration, planning
<1>18. CASE AskIdle(q)
  BY <1>18, <1>a, TargetFacts DEF AskIdle, planning, NextTarget
<1>19. CASE FindPresent(q)
  BY <1>19, <1>a, TargetFacts DEF FindPresent, Advance, planning, NextTarget
<1>20. CASE CheckSpace(q)
  BY <1>20, <1>a, TargetFacts DEF CheckSpace, Prune, planning
<1>21. CASE Fill(q)
  BY <1>21, <1>a, TargetFacts DEF Fill, Advance, Bring, planning, NextTarget
<1>22. CASE FillRunsOut(q)
  BY <1>22, <1>a, TargetFacts DEF FillRunsOut, planning
<1>23. CASE RecordRows(q)
  BY <1>23, <1>a, TargetFacts DEF RecordRows, planning, AfterKv
<1>24. CASE InspectWeights(q)
  BY <1>24, <1>a, TargetFacts DEF InspectWeights, planning, NextTarget
<1>25. CASE CallFails(q)
  BY <1>25, <1>a, TargetFacts DEF CallFails, Stops
<1>26. CASE Kill(q)
  BY <1>26, <1>a, TargetFacts DEF Kill, Stops
<1>27. CASE LeftFills(q)
  BY <1>27, <1>a, TargetFacts DEF LeftFills, Bring, planning
<1>28. ASSUME NEW n \in Unsteady, Reboot(n)
      PROVE  Points(q)'
  BY <1>28, <1>a, TargetFacts
     DEF Reboot, progress, planning, looking, memory, outside
<1>29. CASE OutsideStep
  BY <1>29, <1>a, TargetFacts, OutsideRests
<1> QED
  BY <1>1, <1>2, <1>3, <1>4, <1>5, <1>6, <1>7, <1>8, <1>9, <1>10, <1>11, <1>12,
     <1>13, <1>14, <1>15, <1>16, <1>17, <1>18, <1>19, <1>20, <1>21, <1>22,
     <1>23, <1>24, <1>25, <1>26, <1>27, <1>28, <1>29
     DEF Next, Step, OutsideStep

\* Every step keeps the types of the counters.
LEMMA StepPointerTypes ==
    TypeOK /\ [Next]_vars =>
        /\ cand' \in [Preparations -> Nat]
        /\ tgt' \in [Preparations -> Nat]
<1> SUFFICES ASSUME TypeOK, [Next]_vars
             PROVE  /\ cand' \in [Preparations -> Nat]
        /\ tgt' \in [Preparations -> Nat]
  OBVIOUS
<1>a. cand \in [Preparations -> Nat] /\ tgt \in [Preparations -> Nat]
  BY DEF TypeOK
<1>1. ASSUME NEW p \in Preparations, AskStatus(p)
      PROVE  /\ cand' \in [Preparations -> Nat]
        /\ tgt' \in [Preparations -> Nat]
  BY <1>1, <1>a DEF AskStatus
<1>2. ASSUME NEW p \in Preparations, ProbeCache(p)
      PROVE  /\ cand' \in [Preparations -> Nat]
        /\ tgt' \in [Preparations -> Nat]
  BY <1>2, <1>a DEF ProbeCache
<1>3. ASSUME NEW p \in Preparations, ProbeWeights(p)
      PROVE  /\ cand' \in [Preparations -> Nat]
        /\ tgt' \in [Preparations -> Nat]
  BY <1>3, <1>a DEF ProbeWeights
<1>4. ASSUME NEW p \in Preparations, OpenLookup(p)
      PROVE  /\ cand' \in [Preparations -> Nat]
        /\ tgt' \in [Preparations -> Nat]
  BY <1>4, <1>a DEF OpenLookup
<1>5. ASSUME NEW p \in Preparations, FindInvalid(p)
      PROVE  /\ cand' \in [Preparations -> Nat]
        /\ tgt' \in [Preparations -> Nat]
  BY <1>5, <1>a DEF FindInvalid
<1>6. ASSUME NEW p \in Preparations, Look(p)
      PROVE  /\ cand' \in [Preparations -> Nat]
        /\ tgt' \in [Preparations -> Nat]
  BY <1>6, <1>a DEF Look
<1>7. ASSUME NEW p \in Preparations, AnswerHit(p)
      PROVE  /\ cand' \in [Preparations -> Nat]
        /\ tgt' \in [Preparations -> Nat]
  BY <1>7, <1>a DEF AnswerHit, AnswerTo
<1>8. ASSUME NEW p \in Preparations, AnswerPromotable(p)
      PROVE  /\ cand' \in [Preparations -> Nat]
        /\ tgt' \in [Preparations -> Nat]
  BY <1>8, <1>a DEF AnswerPromotable, AnswerTo
<1>9. ASSUME NEW p \in Preparations, AnswerPrefill(p)
      PROVE  /\ cand' \in [Preparations -> Nat]
        /\ tgt' \in [Preparations -> Nat]
  BY <1>9, <1>a DEF AnswerPrefill, AnswerTo
<1>10. ASSUME NEW p \in Preparations, AskIdle(p)
      PROVE  /\ cand' \in [Preparations -> Nat]
        /\ tgt' \in [Preparations -> Nat]
  BY <1>10, <1>a DEF AskIdle, NextTarget
<1>11. ASSUME NEW p \in Preparations, FindPresent(p)
      PROVE  /\ cand' \in [Preparations -> Nat]
        /\ tgt' \in [Preparations -> Nat]
  BY <1>11, <1>a DEF FindPresent, Advance, NextTarget
<1>12. ASSUME NEW p \in Preparations, Fill(p)
      PROVE  /\ cand' \in [Preparations -> Nat]
        /\ tgt' \in [Preparations -> Nat]
  BY <1>12, <1>a DEF Fill, Advance, Bring, NextTarget
<1>13. ASSUME NEW p \in Preparations, InspectWeights(p)
      PROVE  /\ cand' \in [Preparations -> Nat]
        /\ tgt' \in [Preparations -> Nat]
  BY <1>13, <1>a DEF InspectWeights, NextTarget
<1>14. ASSUME NEW p \in Preparations, CallFails(p)
      PROVE  /\ cand' \in [Preparations -> Nat]
        /\ tgt' \in [Preparations -> Nat]
  BY <1>14, <1>a DEF CallFails, Stops
<1>15. ASSUME NEW p \in Preparations, Kill(p)
      PROVE  /\ cand' \in [Preparations -> Nat]
        /\ tgt' \in [Preparations -> Nat]
  BY <1>15, <1>a DEF Kill, Stops
<1>16. ASSUME NEW p \in Preparations,
             \/ Choose(p) \/ TooFewNodes(p) \/ Consider(p) \/ Decide(p)
             \/ Resolve(p) \/ PublishAnswers(p) \/ BeginHydration(p)
             \/ CheckSpace(p) \/ FillRunsOut(p) \/ RecordRows(p)
             \/ LeftFills(p)
      PROVE  /\ cand' \in [Preparations -> Nat]
        /\ tgt' \in [Preparations -> Nat]
  BY <1>16, <1>a
     DEF Choose, TooFewNodes, Consider, Decide, Resolve, PublishAnswers,
         BeginHydration, CheckSpace, FillRunsOut, RecordRows, LeftFills, Prune,
         Bring, progress, planning, looking, memory, outside
<1>17. ASSUME NEW n \in Unsteady, Reboot(n)
      PROVE  /\ cand' \in [Preparations -> Nat]
        /\ tgt' \in [Preparations -> Nat]
  BY <1>17, <1>a DEF Reboot, progress, planning, looking, memory, outside
<1>18. CASE OutsideStep
  BY <1>18, <1>a, OutsideRests
<1> QED
  BY <1>1, <1>2, <1>3, <1>4, <1>5, <1>6, <1>7, <1>8, <1>9, <1>10, <1>11, <1>12,
     <1>13, <1>14, <1>15, <1>16, <1>17, <1>18
     DEF Next, Step, OutsideStep

\* Every step keeps the types of assignments.
LEMMA StepPlans ==
    TypeOK /\ [Next]_vars =>
        /\ todo' \in [Preparations -> SUBSET [Targets -> Nodes]]
        /\ best' \in [Preparations -> [Targets -> Nodes] \cup {None}]
<1> SUFFICES ASSUME TypeOK, [Next]_vars
             PROVE  /\ todo' \in [Preparations -> SUBSET [Targets -> Nodes]]
        /\ best' \in [Preparations -> [Targets -> Nodes] \cup {None}]
  OBVIOUS
<1>a. /\ todo \in [Preparations -> SUBSET [Targets -> Nodes]]
      /\ best \in [Preparations -> [Targets -> Nodes] \cup {None}]
  BY DEF TypeOK
<1>1. ASSUME NEW p \in Preparations, Choose(p)
      PROVE  /\ todo' \in [Preparations -> SUBSET [Targets -> Nodes]]
        /\ best' \in [Preparations -> [Targets -> Nodes] \cup {None}]
  <2>1. Assignments(p) \subseteq [Targets -> Nodes]
    BY DEF Assignments, Eligible
  <2> QED
    BY <1>1, <1>a, <2>1 DEF Choose
<1>2. ASSUME NEW p \in Preparations, Consider(p)
      PROVE  /\ todo' \in [Preparations -> SUBSET [Targets -> Nodes]]
        /\ best' \in [Preparations -> [Targets -> Nodes] \cup {None}]
  BY <1>2, <1>a DEF Consider
<1>3. ASSUME NEW p \in Preparations, CallFails(p)
      PROVE  /\ todo' \in [Preparations -> SUBSET [Targets -> Nodes]]
        /\ best' \in [Preparations -> [Targets -> Nodes] \cup {None}]
  BY <1>3, <1>a DEF CallFails, Stops
<1>4. ASSUME NEW p \in Preparations, Kill(p)
      PROVE  /\ todo' \in [Preparations -> SUBSET [Targets -> Nodes]]
        /\ best' \in [Preparations -> [Targets -> Nodes] \cup {None}]
  BY <1>4, <1>a DEF Kill, Stops
<1>5. ASSUME NEW p \in Preparations,
             \/ AskStatus(p) \/ ProbeCache(p) \/ ProbeWeights(p)
             \/ TooFewNodes(p) \/ Decide(p) \/ Resolve(p) \/ OpenLookup(p)
             \/ FindInvalid(p) \/ Look(p) \/ AnswerHit(p)
             \/ AnswerPromotable(p) \/ AnswerPrefill(p) \/ PublishAnswers(p)
             \/ BeginHydration(p) \/ AskIdle(p) \/ FindPresent(p)
             \/ CheckSpace(p) \/ Fill(p) \/ FillRunsOut(p) \/ RecordRows(p)
             \/ InspectWeights(p) \/ LeftFills(p)
      PROVE  /\ todo' \in [Preparations -> SUBSET [Targets -> Nodes]]
        /\ best' \in [Preparations -> [Targets -> Nodes] \cup {None}]
  BY <1>5, <1>a
     DEF AskStatus, ProbeCache, ProbeWeights, TooFewNodes, Decide, Resolve,
         OpenLookup, FindInvalid, Look, AnswerHit, AnswerPromotable,
         AnswerPrefill, PublishAnswers, BeginHydration, AskIdle, FindPresent,
         CheckSpace, Fill, FillRunsOut, RecordRows, InspectWeights, LeftFills,
         AnswerTo, Advance, Prune, Bring, progress, planning, looking, memory,
         outside
<1>6. ASSUME NEW n \in Unsteady, Reboot(n)
      PROVE  /\ todo' \in [Preparations -> SUBSET [Targets -> Nodes]]
        /\ best' \in [Preparations -> [Targets -> Nodes] \cup {None}]
  BY <1>6, <1>a DEF Reboot, progress, planning, looking, memory, outside
<1>7. CASE OutsideStep
  BY <1>7, <1>a, OutsideRests
<1> QED
  BY <1>1, <1>2, <1>3, <1>4, <1>5, <1>6, <1>7 DEF Next, Step, OutsideStep

\* Every step keeps the types of what a lookup knows.
LEMMA StepLooking ==
    TypeOK /\ [Next]_vars =>
        /\ seen' \in [Preparations -> SUBSET Targets]
        /\ hit' \in [Preparations -> BOOLEAN]
        /\ promoted' \in [Preparations -> BOOLEAN]
        /\ prefill' \in [Preparations -> BOOLEAN]
        /\ lock' \in Preparations \cup {None}
        /\ disk' \in {"unregistered", "missing", "complete", "invalid"}
<1> SUFFICES ASSUME TypeOK, [Next]_vars
             PROVE  /\ seen' \in [Preparations -> SUBSET Targets]
        /\ hit' \in [Preparations -> BOOLEAN]
        /\ promoted' \in [Preparations -> BOOLEAN]
        /\ prefill' \in [Preparations -> BOOLEAN]
        /\ lock' \in Preparations \cup {None}
        /\ disk' \in {"unregistered", "missing", "complete", "invalid"}
  OBVIOUS
<1>a. /\ seen \in [Preparations -> SUBSET Targets]
      /\ hit \in [Preparations -> BOOLEAN]
      /\ promoted \in [Preparations -> BOOLEAN]
      /\ prefill \in [Preparations -> BOOLEAN]
      /\ lock \in Preparations \cup {None}
      /\ disk \in {"unregistered", "missing", "complete", "invalid"}
  BY DEF TypeOK
<1>1. ASSUME NEW p \in Preparations, OpenLookup(p)
      PROVE  /\ seen' \in [Preparations -> SUBSET Targets]
        /\ hit' \in [Preparations -> BOOLEAN]
        /\ promoted' \in [Preparations -> BOOLEAN]
        /\ prefill' \in [Preparations -> BOOLEAN]
        /\ lock' \in Preparations \cup {None}
        /\ disk' \in {"unregistered", "missing", "complete", "invalid"}
  BY <1>1, <1>a DEF OpenLookup
<1>2. ASSUME NEW p \in Preparations, FindInvalid(p)
      PROVE  /\ seen' \in [Preparations -> SUBSET Targets]
        /\ hit' \in [Preparations -> BOOLEAN]
        /\ promoted' \in [Preparations -> BOOLEAN]
        /\ prefill' \in [Preparations -> BOOLEAN]
        /\ lock' \in Preparations \cup {None}
        /\ disk' \in {"unregistered", "missing", "complete", "invalid"}
  BY <1>2, <1>a DEF FindInvalid
<1>3. ASSUME NEW p \in Preparations, Look(p)
      PROVE  /\ seen' \in [Preparations -> SUBSET Targets]
        /\ hit' \in [Preparations -> BOOLEAN]
        /\ promoted' \in [Preparations -> BOOLEAN]
        /\ prefill' \in [Preparations -> BOOLEAN]
        /\ lock' \in Preparations \cup {None}
        /\ disk' \in {"unregistered", "missing", "complete", "invalid"}
  <2>1. tgt[p] \in Targets
    BY <1>3, <1>a, TargetFacts DEF Look, Goto, TypeOK, Targets
  <2> QED
    BY <1>3, <1>a, <2>1 DEF Look
<1>4. ASSUME NEW p \in Preparations, AnswerHit(p)
      PROVE  /\ seen' \in [Preparations -> SUBSET Targets]
        /\ hit' \in [Preparations -> BOOLEAN]
        /\ promoted' \in [Preparations -> BOOLEAN]
        /\ prefill' \in [Preparations -> BOOLEAN]
        /\ lock' \in Preparations \cup {None}
        /\ disk' \in {"unregistered", "missing", "complete", "invalid"}
  BY <1>4, <1>a DEF AnswerHit, AnswerTo
<1>5. ASSUME NEW p \in Preparations, AnswerPromotable(p)
      PROVE  /\ seen' \in [Preparations -> SUBSET Targets]
        /\ hit' \in [Preparations -> BOOLEAN]
        /\ promoted' \in [Preparations -> BOOLEAN]
        /\ prefill' \in [Preparations -> BOOLEAN]
        /\ lock' \in Preparations \cup {None}
        /\ disk' \in {"unregistered", "missing", "complete", "invalid"}
  BY <1>5, <1>a DEF AnswerPromotable, AnswerTo
<1>6. ASSUME NEW p \in Preparations, AnswerPrefill(p)
      PROVE  /\ seen' \in [Preparations -> SUBSET Targets]
        /\ hit' \in [Preparations -> BOOLEAN]
        /\ promoted' \in [Preparations -> BOOLEAN]
        /\ prefill' \in [Preparations -> BOOLEAN]
        /\ lock' \in Preparations \cup {None}
        /\ disk' \in {"unregistered", "missing", "complete", "invalid"}
  BY <1>6, <1>a DEF AnswerPrefill, AnswerTo
<1>7. ASSUME NEW p \in Preparations, PublishAnswers(p)
      PROVE  /\ seen' \in [Preparations -> SUBSET Targets]
        /\ hit' \in [Preparations -> BOOLEAN]
        /\ promoted' \in [Preparations -> BOOLEAN]
        /\ prefill' \in [Preparations -> BOOLEAN]
        /\ lock' \in Preparations \cup {None}
        /\ disk' \in {"unregistered", "missing", "complete", "invalid"}
  BY <1>7, <1>a DEF PublishAnswers
<1>8. ASSUME NEW p \in Preparations, CallFails(p)
      PROVE  /\ seen' \in [Preparations -> SUBSET Targets]
        /\ hit' \in [Preparations -> BOOLEAN]
        /\ promoted' \in [Preparations -> BOOLEAN]
        /\ prefill' \in [Preparations -> BOOLEAN]
        /\ lock' \in Preparations \cup {None}
        /\ disk' \in {"unregistered", "missing", "complete", "invalid"}
  BY <1>8, <1>a DEF CallFails, Stops
<1>9. ASSUME NEW p \in Preparations, Kill(p)
      PROVE  /\ seen' \in [Preparations -> SUBSET Targets]
        /\ hit' \in [Preparations -> BOOLEAN]
        /\ promoted' \in [Preparations -> BOOLEAN]
        /\ prefill' \in [Preparations -> BOOLEAN]
        /\ lock' \in Preparations \cup {None}
        /\ disk' \in {"unregistered", "missing", "complete", "invalid"}
  BY <1>9, <1>a DEF Kill, Stops
<1>10. ASSUME NEW p \in Preparations,
             \/ AskStatus(p) \/ ProbeCache(p) \/ ProbeWeights(p) \/ Choose(p)
             \/ TooFewNodes(p) \/ Consider(p) \/ Decide(p) \/ Resolve(p)
             \/ BeginHydration(p) \/ AskIdle(p) \/ FindPresent(p)
             \/ CheckSpace(p) \/ Fill(p) \/ FillRunsOut(p) \/ RecordRows(p)
             \/ InspectWeights(p) \/ LeftFills(p)
      PROVE  /\ seen' \in [Preparations -> SUBSET Targets]
        /\ hit' \in [Preparations -> BOOLEAN]
        /\ promoted' \in [Preparations -> BOOLEAN]
        /\ prefill' \in [Preparations -> BOOLEAN]
        /\ lock' \in Preparations \cup {None}
        /\ disk' \in {"unregistered", "missing", "complete", "invalid"}
  BY <1>10, <1>a
     DEF AskStatus, ProbeCache, ProbeWeights, Choose, TooFewNodes, Consider,
         Decide, Resolve, BeginHydration, AskIdle, FindPresent, CheckSpace,
         Fill, FillRunsOut, RecordRows, InspectWeights, LeftFills, Advance,
         Prune, Bring, progress, planning, looking, memory, outside
<1>11. ASSUME NEW n \in Unsteady, EngineRuns(n)
      PROVE  /\ seen' \in [Preparations -> SUBSET Targets]
        /\ hit' \in [Preparations -> BOOLEAN]
        /\ promoted' \in [Preparations -> BOOLEAN]
        /\ prefill' \in [Preparations -> BOOLEAN]
        /\ lock' \in Preparations \cup {None}
        /\ disk' \in {"unregistered", "missing", "complete", "invalid"}
  BY <1>11, <1>a DEF EngineRuns, progress, planning, looking, memory, outside
<1>12. ASSUME NEW n \in Unsteady, EngineEnds(n)
      PROVE  /\ seen' \in [Preparations -> SUBSET Targets]
        /\ hit' \in [Preparations -> BOOLEAN]
        /\ promoted' \in [Preparations -> BOOLEAN]
        /\ prefill' \in [Preparations -> BOOLEAN]
        /\ lock' \in Preparations \cup {None}
        /\ disk' \in {"unregistered", "missing", "complete", "invalid"}
  BY <1>12, <1>a DEF EngineEnds, progress, planning, looking, memory, outside
<1>13. ASSUME NEW n \in Unsteady, Reboot(n)
      PROVE  /\ seen' \in [Preparations -> SUBSET Targets]
        /\ hit' \in [Preparations -> BOOLEAN]
        /\ promoted' \in [Preparations -> BOOLEAN]
        /\ prefill' \in [Preparations -> BOOLEAN]
        /\ lock' \in Preparations \cup {None}
        /\ disk' \in {"unregistered", "missing", "complete", "invalid"}
  BY <1>13, <1>a DEF Reboot, progress, planning, looking, memory, outside
<1>14. CASE StoreChanges
  BY <1>14, <1>a DEF StoreChanges, progress, planning, looking, memory, outside
<1>15. CASE UNCHANGED vars
  BY <1>15, <1>a DEF vars, progress, planning, looking, memory, outside
<1> QED
  BY <1>1, <1>2, <1>3, <1>4, <1>5, <1>6, <1>7, <1>8, <1>9, <1>10, <1>11, <1>12,
     <1>13, <1>14, <1>15
     DEF Next, Step

\* Every step keeps the types of the memory.
LEMMA StepMemory ==
    TypeOK /\ [Next]_vars =>
        /\ at' \in [Nodes -> [Paths -> Targets \cup {None}]]
        /\ weights' \in [Nodes -> BOOLEAN]
        /\ free' \in [Nodes -> Nat]
<1> SUFFICES ASSUME TypeOK, [Next]_vars
             PROVE  /\ at' \in [Nodes -> [Paths -> Targets \cup {None}]]
        /\ weights' \in [Nodes -> BOOLEAN]
        /\ free' \in [Nodes -> Nat]
  OBVIOUS
<1>a. /\ at \in [Nodes -> [Paths -> Targets \cup {None}]]
      /\ weights \in [Nodes -> BOOLEAN]
      /\ free \in [Nodes -> Nat]
  BY DEF TypeOK
<1>1. ASSUME NEW p \in Preparations, CheckSpace(p)
      PROVE  /\ at' \in [Nodes -> [Paths -> Targets \cup {None}]]
        /\ weights' \in [Nodes -> BOOLEAN]
        /\ free' \in [Nodes -> Nat]
  <2>1. /\ tgt[p] \in Targets /\ Place(p) \in Nodes
        /\ PathOf[tgt[p]] \in Paths /\ Size(p) \in Nat
        /\ FreeAfterPruning(p) \in Nat
    BY <1>1, <1>a, PlaceType DEF CheckSpace, Prune, Goto, InWorker
  <2>2. at[Place(p)] \in [Paths -> Targets \cup {None}]
        /\ free[Place(p)] \in Nat
    BY <1>a, <2>1
  <2> QED
    BY <1>1, <1>a, <2>1, <2>2 DEF CheckSpace, Prune
<1>2. ASSUME NEW p \in Preparations, Fill(p)
      PROVE  /\ at' \in [Nodes -> [Paths -> Targets \cup {None}]]
        /\ weights' \in [Nodes -> BOOLEAN]
        /\ free' \in [Nodes -> Nat]
  <2>1. /\ tgt[p] \in Targets /\ Place(p) \in Nodes
        /\ PathOf[tgt[p]] \in Paths /\ Size(p) \in Nat
    BY <1>2, <1>a, PlaceType DEF Fill, Advance, Goto, InWorker
  <2>2. at[Place(p)] \in [Paths -> Targets \cup {None}]
        /\ free[Place(p)] \in Nat
    BY <1>a, <2>1
  <2>3. Bring(p)
    BY <1>2, <1>a DEF Fill
  <2>4. free' \in [Nodes -> Nat]
    BY <1>a, <2>1, <2>2, <2>3 DEF Bring
  <2>5. /\ at' \in [Nodes -> [Paths -> Targets \cup {None}]]
        /\ weights' \in [Nodes -> BOOLEAN]
    <3>1. CASE phase[p] = "kv"
      <4>1. [at[Place(p)] EXCEPT ![PathOf[tgt[p]]] = tgt[p]]
                \in [Paths -> Targets \cup {None}]
        BY <2>1, <2>2
      <4>2. at' = [at EXCEPT ![Place(p)] =
                       [at[Place(p)] EXCEPT ![PathOf[tgt[p]]] = tgt[p]]]
            /\ UNCHANGED weights
        BY <3>1, <2>3 DEF Bring
      <4> QED
        BY <1>a, <4>1, <4>2
    <3>2. CASE phase[p] # "kv"
      BY <1>a, <3>2, <2>3 DEF Bring
    <3> QED
      BY <3>1, <3>2
  <2> QED
    BY <2>4, <2>5
<1>3. ASSUME NEW p \in Preparations, LeftFills(p)
      PROVE  /\ at' \in [Nodes -> [Paths -> Targets \cup {None}]]
        /\ weights' \in [Nodes -> BOOLEAN]
        /\ free' \in [Nodes -> Nat]
  <2>1. /\ tgt[p] \in Targets /\ Place(p) \in Nodes
        /\ PathOf[tgt[p]] \in Paths /\ Size(p) \in Nat
    BY <1>3, <1>a, PlaceType DEF LeftFills, Bring, Goto, InWorker
  <2>2. at[Place(p)] \in [Paths -> Targets \cup {None}]
        /\ free[Place(p)] \in Nat
    BY <1>a, <2>1
  <2>3. Bring(p)
    BY <1>3, <1>a DEF LeftFills
  <2>4. free' \in [Nodes -> Nat]
    BY <1>a, <2>1, <2>2, <2>3 DEF Bring
  <2>5. /\ at' \in [Nodes -> [Paths -> Targets \cup {None}]]
        /\ weights' \in [Nodes -> BOOLEAN]
    <3>1. CASE phase[p] = "kv"
      <4>1. [at[Place(p)] EXCEPT ![PathOf[tgt[p]]] = tgt[p]]
                \in [Paths -> Targets \cup {None}]
        BY <2>1, <2>2
      <4>2. at' = [at EXCEPT ![Place(p)] =
                       [at[Place(p)] EXCEPT ![PathOf[tgt[p]]] = tgt[p]]]
            /\ UNCHANGED weights
        BY <3>1, <2>3 DEF Bring
      <4> QED
        BY <1>a, <4>1, <4>2
    <3>2. CASE phase[p] # "kv"
      BY <1>a, <3>2, <2>3 DEF Bring
    <3> QED
      BY <3>1, <3>2
  <2> QED
    BY <2>4, <2>5
<1>4. ASSUME NEW p \in Preparations,
             \/ AskStatus(p) \/ ProbeCache(p) \/ ProbeWeights(p) \/ Choose(p)
             \/ TooFewNodes(p) \/ Consider(p) \/ Decide(p) \/ Resolve(p)
             \/ OpenLookup(p) \/ FindInvalid(p) \/ Look(p) \/ AnswerHit(p)
             \/ AnswerPromotable(p) \/ AnswerPrefill(p) \/ PublishAnswers(p)
             \/ BeginHydration(p) \/ AskIdle(p) \/ FindPresent(p)
             \/ FillRunsOut(p) \/ RecordRows(p) \/ InspectWeights(p)
             \/ CallFails(p) \/ Kill(p)
      PROVE  /\ at' \in [Nodes -> [Paths -> Targets \cup {None}]]
        /\ weights' \in [Nodes -> BOOLEAN]
        /\ free' \in [Nodes -> Nat]
  BY <1>4, <1>a
     DEF AskStatus, ProbeCache, ProbeWeights, Choose, TooFewNodes, Consider,
         Decide, Resolve, OpenLookup, FindInvalid, Look, AnswerHit,
         AnswerPromotable, AnswerPrefill, PublishAnswers, BeginHydration,
         AskIdle, FindPresent, FillRunsOut, RecordRows, InspectWeights,
         CallFails, Kill, AnswerTo, Advance, Stops, progress, planning,
         looking, memory, outside
<1>5. ASSUME NEW n \in Unsteady, EngineRuns(n)
      PROVE  /\ at' \in [Nodes -> [Paths -> Targets \cup {None}]]
        /\ weights' \in [Nodes -> BOOLEAN]
        /\ free' \in [Nodes -> Nat]
  BY <1>5, <1>a, InitAssumption, ByteAssumption DEF EngineRuns
<1>6. ASSUME NEW n \in Unsteady, EngineEnds(n)
      PROVE  /\ at' \in [Nodes -> [Paths -> Targets \cup {None}]]
        /\ weights' \in [Nodes -> BOOLEAN]
        /\ free' \in [Nodes -> Nat]
  BY <1>6, <1>a DEF EngineEnds, progress, planning, looking, memory, outside
<1>7. ASSUME NEW n \in Unsteady, Reboot(n)
      PROVE  /\ at' \in [Nodes -> [Paths -> Targets \cup {None}]]
        /\ weights' \in [Nodes -> BOOLEAN]
        /\ free' \in [Nodes -> Nat]
  BY <1>7, <1>a, InitAssumption DEF Reboot
<1>8. CASE StoreChanges
  BY <1>8, <1>a DEF StoreChanges, progress, planning, looking, memory, outside
<1>9. CASE UNCHANGED vars
  BY <1>9, <1>a DEF vars, progress, planning, looking, memory, outside
<1> QED
  BY <1>1, <1>2, <1>3, <1>4, <1>5, <1>6, <1>7, <1>8, <1>9 DEF Next, Step

\* Every step keeps the types of what is outside.
LEMMA StepOutside ==
    TypeOK /\ [Next]_vars =>
        /\ busy' \in [Nodes -> BOOLEAN]
        /\ boot' \in [Nodes -> Nat]
        /\ upsets' \in 0..MaxUpsets
<1> SUFFICES ASSUME TypeOK, [Next]_vars
             PROVE  /\ busy' \in [Nodes -> BOOLEAN]
        /\ boot' \in [Nodes -> Nat]
        /\ upsets' \in 0..MaxUpsets
  OBVIOUS
<1> USE DEF Upset
<1>a. /\ busy \in [Nodes -> BOOLEAN]
      /\ boot \in [Nodes -> Nat]
      /\ upsets \in 0..MaxUpsets /\ MaxUpsets \in Nat
      /\ Unsteady \subseteq Nodes
  BY InitAssumption DEF TypeOK
<1>1. ASSUME NEW p \in Preparations,
             \/ AskStatus(p) \/ ProbeCache(p) \/ ProbeWeights(p) \/ Choose(p)
             \/ TooFewNodes(p) \/ Consider(p) \/ Decide(p) \/ Resolve(p)
             \/ OpenLookup(p) \/ FindInvalid(p) \/ Look(p) \/ AnswerHit(p)
             \/ AnswerPromotable(p) \/ AnswerPrefill(p) \/ PublishAnswers(p)
             \/ BeginHydration(p) \/ AskIdle(p) \/ FindPresent(p)
             \/ CheckSpace(p) \/ Fill(p) \/ FillRunsOut(p) \/ RecordRows(p)
             \/ InspectWeights(p) \/ CallFails(p) \/ Kill(p) \/ LeftFills(p)
      PROVE  /\ busy' \in [Nodes -> BOOLEAN]
        /\ boot' \in [Nodes -> Nat]
        /\ upsets' \in 0..MaxUpsets
  BY <1>1, <1>a
     DEF AskStatus, ProbeCache, ProbeWeights, Choose, TooFewNodes, Consider,
         Decide, Resolve, OpenLookup, FindInvalid, Look, AnswerHit,
         AnswerPromotable, AnswerPrefill, PublishAnswers, BeginHydration,
         AskIdle, FindPresent, CheckSpace, Fill, FillRunsOut, RecordRows,
         InspectWeights, CallFails, Kill, LeftFills, AnswerTo, Advance, Prune,
         Bring, Stops, progress, planning, looking, memory, outside
<1>2. ASSUME NEW n \in Unsteady, EngineRuns(n)
      PROVE  /\ busy' \in [Nodes -> BOOLEAN]
        /\ boot' \in [Nodes -> Nat]
        /\ upsets' \in 0..MaxUpsets
  BY <1>2, <1>a DEF EngineRuns, progress, planning, looking, memory, outside
<1>3. ASSUME NEW n \in Unsteady, EngineEnds(n)
      PROVE  /\ busy' \in [Nodes -> BOOLEAN]
        /\ boot' \in [Nodes -> Nat]
        /\ upsets' \in 0..MaxUpsets
  BY <1>3, <1>a DEF EngineEnds, progress, planning, looking, memory, outside
<1>4. ASSUME NEW n \in Unsteady, Reboot(n)
      PROVE  /\ busy' \in [Nodes -> BOOLEAN]
        /\ boot' \in [Nodes -> Nat]
        /\ upsets' \in 0..MaxUpsets
  BY <1>4, <1>a DEF Reboot, progress, planning, looking, memory, outside
<1>5. CASE StoreChanges
  BY <1>5, <1>a DEF StoreChanges, progress, planning, looking, memory, outside
<1>6. CASE UNCHANGED vars
  BY <1>6, <1>a DEF vars, progress, planning, looking, memory, outside
<1> QED
  BY <1>1, <1>2, <1>3, <1>4, <1>5, <1>6 DEF Next, Step

\* Every step keeps the types.
LEMMA StepType == TypeOK /\ [Next]_vars => TypeOK'
<1> SUFFICES ASSUME TypeOK, [Next]_vars PROVE TypeOK'
  OBVIOUS
<1>1. \A q \in Preparations : Points(q)'
  BY StepPoints
<1> QED
  BY <1>1, StepPc, StepPhase, StepPointerTypes, StepSnap, StepPlans,
     StepLooking, StepMemory, StepOutside
     DEF TypeOK, Points

\* There is no plan before the search.
LEMMA StepNoPlanYet ==
    IInv /\ [Next]_vars => \A q \in Preparations : NoPlanYet(q)'
<1> SUFFICES ASSUME IInv, [Next]_vars, NEW q \in Preparations
             PROVE  NoPlanYet(q)'
  OBVIOUS
<1> USE DEF Goto, NoPlanYet, Discovering
<1>t. TypeOK
  BY DEF IInv
<1>a. /\ pc \in [Preparations -> Running \cup Terminal]
      /\ best \in [Preparations -> [Targets -> Nodes] \cup {None}]
      /\ NoPlanYet(q)
  BY DEF IInv, TypeOK
<1>1. ASSUME NEW p \in Preparations \ {q},
             Step(p) \/ Kill(p) \/ LeftFills(p)
      PROVE  NoPlanYet(q)'
  BY <1>1, <1>a, <1>t, Frame
<1>2. CASE AskStatus(q)
  BY <1>2, <1>a, <1>t DEF AskStatus
<1>3. CASE ProbeCache(q)
  BY <1>3, <1>a, <1>t DEF ProbeCache
<1>4. CASE ProbeWeights(q)
  BY <1>4, <1>a, <1>t DEF ProbeWeights
<1>5. CASE Choose(q)
  BY <1>5, <1>a, <1>t DEF Choose
<1>6. CASE TooFewNodes(q)
  BY <1>6, <1>a, <1>t DEF TooFewNodes, planning
<1>7. CASE Consider(q)
  BY <1>7, <1>a, <1>t DEF Consider, progress
<1>8. CASE Decide(q)
  BY <1>8, <1>a, <1>t DEF Decide, planning
<1>9. CASE Resolve(q)
  BY <1>9, <1>a, <1>t DEF Resolve, planning
<1>10. CASE OpenLookup(q)
  BY <1>10, <1>a, <1>t DEF OpenLookup, planning
<1>11. CASE FindInvalid(q)
  BY <1>11, <1>a, <1>t DEF FindInvalid, planning, AfterKv
<1>12. CASE Look(q)
  BY <1>12, <1>a, <1>t DEF Look, planning
<1>13. CASE AnswerHit(q)
  BY <1>13, <1>a, <1>t DEF AnswerHit, AnswerTo, planning, AfterKv
<1>14. CASE AnswerPromotable(q)
  BY <1>14, <1>a, <1>t DEF AnswerPromotable, AnswerTo, planning
<1>15. CASE AnswerPrefill(q)
  BY <1>15, <1>a, <1>t DEF AnswerPrefill, AnswerTo, planning, AfterKv
<1>16. CASE PublishAnswers(q)
  BY <1>16, <1>a, <1>t DEF PublishAnswers, planning
<1>17. CASE BeginHydration(q)
  BY <1>17, <1>a, <1>t DEF BeginHydration, planning
<1>18. CASE AskIdle(q)
  BY <1>18, <1>a, <1>t DEF AskIdle, planning
<1>19. CASE FindPresent(q)
  BY <1>19, <1>a, <1>t DEF FindPresent, Advance, planning
<1>20. CASE CheckSpace(q)
  BY <1>20, <1>a, <1>t DEF CheckSpace, Prune, planning
<1>21. CASE Fill(q)
  BY <1>21, <1>a, <1>t DEF Fill, Advance, Bring, planning
<1>22. CASE FillRunsOut(q)
  BY <1>22, <1>a, <1>t DEF FillRunsOut, planning
<1>23. CASE RecordRows(q)
  BY <1>23, <1>a, <1>t DEF RecordRows, planning, AfterKv
<1>24. CASE InspectWeights(q)
  BY <1>24, <1>a, <1>t DEF InspectWeights, planning
<1>25. CASE CallFails(q)
  BY <1>25, <1>a, <1>t DEF CallFails, Stops
<1>26. CASE Kill(q)
  BY <1>26, <1>a, <1>t DEF Kill, Stops
<1>27. CASE LeftFills(q)
  BY <1>27, <1>a, <1>t DEF LeftFills, Bring, planning
<1>28. ASSUME NEW n \in Unsteady, Reboot(n)
      PROVE  NoPlanYet(q)'
  BY <1>28, <1>a, <1>t DEF Reboot, progress, planning, looking, memory, outside
<1>29. CASE OutsideStep
  BY <1>29, <1>a, <1>t, OutsideRests
<1> QED
  BY <1>1, <1>2, <1>3, <1>4, <1>5, <1>6, <1>7, <1>8, <1>9, <1>10, <1>11, <1>12,
     <1>13, <1>14, <1>15, <1>16, <1>17, <1>18, <1>19, <1>20, <1>21, <1>22,
     <1>23, <1>24, <1>25, <1>26, <1>27, <1>28, <1>29
     DEF Next, Step, OutsideStep

\* A plan fits what was seen of its nodes.
LEMMA StepPlanFits ==
    IInv /\ [Next]_vars => \A q \in Preparations : PlanFits(q)'
<1> SUFFICES ASSUME IInv, [Next]_vars, NEW q \in Preparations
             PROVE  PlanFits(q)'
  OBVIOUS
<1> USE DEF Goto, PlanFits, Discovering, Planned, InWorker, NoPlanYet, Fits,
            Needed
<1>t. TypeOK
  BY DEF IInv
<1>a. /\ pc \in [Preparations -> Running \cup Terminal]
      /\ best \in [Preparations -> [Targets -> Nodes] \cup {None}]
      /\ PlanFits(q) /\ NoPlanYet(q)
  BY DEF IInv, TypeOK
<1>1. ASSUME NEW p \in Preparations \ {q},
             Step(p) \/ Kill(p) \/ LeftFills(p)
      PROVE  PlanFits(q)'
  BY <1>1, <1>a, <1>t, Frame
<1>2. CASE AskStatus(q)
  BY <1>2, <1>a, <1>t DEF AskStatus
<1>3. CASE ProbeCache(q)
  BY <1>3, <1>a, <1>t DEF ProbeCache
<1>4. CASE ProbeWeights(q)
  BY <1>4, <1>a, <1>t DEF ProbeWeights
<1>5. CASE Choose(q)
  BY <1>5, <1>a, <1>t DEF Choose
<1>6. CASE TooFewNodes(q)
  BY <1>6, <1>a, <1>t DEF TooFewNodes, planning
<1>7. CASE Consider(q)
  BY <1>7, <1>a, <1>t DEF Consider, progress, Takes
<1>8. CASE Decide(q)
  BY <1>8, <1>a, <1>t DEF Decide, planning
<1>9. CASE Resolve(q)
  BY <1>9, <1>a, <1>t DEF Resolve, planning
<1>10. CASE OpenLookup(q)
  BY <1>10, <1>a, <1>t DEF OpenLookup, planning
<1>11. CASE FindInvalid(q)
  BY <1>11, <1>a, <1>t DEF FindInvalid, planning, AfterKv
<1>12. CASE Look(q)
  BY <1>12, <1>a, <1>t DEF Look, planning
<1>13. CASE AnswerHit(q)
  BY <1>13, <1>a, <1>t DEF AnswerHit, AnswerTo, planning, AfterKv
<1>14. CASE AnswerPromotable(q)
  BY <1>14, <1>a, <1>t DEF AnswerPromotable, AnswerTo, planning
<1>15. CASE AnswerPrefill(q)
  BY <1>15, <1>a, <1>t DEF AnswerPrefill, AnswerTo, planning, AfterKv
<1>16. CASE PublishAnswers(q)
  BY <1>16, <1>a, <1>t DEF PublishAnswers, planning
<1>17. CASE BeginHydration(q)
  BY <1>17, <1>a, <1>t DEF BeginHydration, planning
<1>18. CASE AskIdle(q)
  BY <1>18, <1>a, <1>t DEF AskIdle, planning
<1>19. CASE FindPresent(q)
  BY <1>19, <1>a, <1>t DEF FindPresent, Advance, planning
<1>20. CASE CheckSpace(q)
  BY <1>20, <1>a, <1>t DEF CheckSpace, Prune, planning
<1>21. CASE Fill(q)
  BY <1>21, <1>a, <1>t DEF Fill, Advance, Bring, planning
<1>22. CASE FillRunsOut(q)
  BY <1>22, <1>a, <1>t DEF FillRunsOut, planning
<1>23. CASE RecordRows(q)
  BY <1>23, <1>a, <1>t DEF RecordRows, planning, AfterKv
<1>24. CASE InspectWeights(q)
  BY <1>24, <1>a, <1>t DEF InspectWeights, planning
<1>25. CASE CallFails(q)
  BY <1>25, <1>a, <1>t DEF CallFails, Stops
<1>26. CASE Kill(q)
  BY <1>26, <1>a, <1>t DEF Kill, Stops
<1>27. CASE LeftFills(q)
  BY <1>27, <1>a, <1>t DEF LeftFills, Bring, planning
<1>28. ASSUME NEW n \in Unsteady, Reboot(n)
      PROVE  PlanFits(q)'
  BY <1>28, <1>a, <1>t DEF Reboot, progress, planning, looking, memory, outside
<1>29. CASE OutsideStep
  BY <1>29, <1>a, <1>t, OutsideRests
<1> QED
  BY <1>1, <1>2, <1>3, <1>4, <1>5, <1>6, <1>7, <1>8, <1>9, <1>10, <1>11, <1>12,
     <1>13, <1>14, <1>15, <1>16, <1>17, <1>18, <1>19, <1>20, <1>21, <1>22,
     <1>23, <1>24, <1>25, <1>26, <1>27, <1>28, <1>29
     DEF Next, Step, OutsideStep

\* The targets of a plan are on different nodes.
LEMMA StepPlansAreApart ==
    IInv /\ [Next]_vars => \A q \in Preparations : PlansAreApart(q)'
<1> SUFFICES ASSUME IInv, [Next]_vars, NEW q \in Preparations
             PROVE  PlansAreApart(q)'
  OBVIOUS
<1> USE DEF Goto, PlansAreApart
<1>t. TypeOK
  BY DEF IInv
<1>a. /\ pc \in [Preparations -> Running \cup Terminal]
      /\ best \in [Preparations -> [Targets -> Nodes] \cup {None}]
      /\ todo \in [Preparations -> SUBSET [Targets -> Nodes]]
      /\ PlansAreApart(q)
  BY NoneAssumption DEF IInv, TypeOK
<1>1. ASSUME NEW p \in Preparations \ {q},
             Step(p) \/ Kill(p) \/ LeftFills(p)
      PROVE  PlansAreApart(q)'
  BY <1>1, <1>a, <1>t, Frame
<1>2. CASE AskStatus(q)
  BY <1>2, <1>a, <1>t DEF AskStatus
<1>3. CASE ProbeCache(q)
  BY <1>3, <1>a, <1>t DEF ProbeCache
<1>4. CASE ProbeWeights(q)
  BY <1>4, <1>a, <1>t DEF ProbeWeights
<1>5. CASE Choose(q)
  BY <1>5, <1>a, <1>t DEF Choose, Assignments
<1>6. CASE TooFewNodes(q)
  BY <1>6, <1>a, <1>t DEF TooFewNodes, planning
<1>7. CASE Consider(q)
  BY <1>7, <1>a, <1>t DEF Consider, progress
<1>8. CASE Decide(q)
  BY <1>8, <1>a, <1>t DEF Decide, planning
<1>9. CASE Resolve(q)
  BY <1>9, <1>a, <1>t DEF Resolve, planning
<1>10. CASE OpenLookup(q)
  BY <1>10, <1>a, <1>t DEF OpenLookup, planning
<1>11. CASE FindInvalid(q)
  BY <1>11, <1>a, <1>t DEF FindInvalid, planning, AfterKv
<1>12. CASE Look(q)
  BY <1>12, <1>a, <1>t DEF Look, planning
<1>13. CASE AnswerHit(q)
  BY <1>13, <1>a, <1>t DEF AnswerHit, AnswerTo, planning, AfterKv
<1>14. CASE AnswerPromotable(q)
  BY <1>14, <1>a, <1>t DEF AnswerPromotable, AnswerTo, planning
<1>15. CASE AnswerPrefill(q)
  BY <1>15, <1>a, <1>t DEF AnswerPrefill, AnswerTo, planning, AfterKv
<1>16. CASE PublishAnswers(q)
  BY <1>16, <1>a, <1>t DEF PublishAnswers, planning
<1>17. CASE BeginHydration(q)
  BY <1>17, <1>a, <1>t DEF BeginHydration, planning
<1>18. CASE AskIdle(q)
  BY <1>18, <1>a, <1>t DEF AskIdle, planning
<1>19. CASE FindPresent(q)
  BY <1>19, <1>a, <1>t DEF FindPresent, Advance, planning
<1>20. CASE CheckSpace(q)
  BY <1>20, <1>a, <1>t DEF CheckSpace, Prune, planning
<1>21. CASE Fill(q)
  BY <1>21, <1>a, <1>t DEF Fill, Advance, Bring, planning
<1>22. CASE FillRunsOut(q)
  BY <1>22, <1>a, <1>t DEF FillRunsOut, planning
<1>23. CASE RecordRows(q)
  BY <1>23, <1>a, <1>t DEF RecordRows, planning, AfterKv
<1>24. CASE InspectWeights(q)
  BY <1>24, <1>a, <1>t DEF InspectWeights, planning
<1>25. CASE CallFails(q)
  BY <1>25, <1>a, <1>t DEF CallFails, Stops
<1>26. CASE Kill(q)
  BY <1>26, <1>a, <1>t DEF Kill, Stops
<1>27. CASE LeftFills(q)
  BY <1>27, <1>a, <1>t DEF LeftFills, Bring, planning
<1>28. ASSUME NEW n \in Unsteady, Reboot(n)
      PROVE  PlansAreApart(q)'
  BY <1>28, <1>a, <1>t DEF Reboot, progress, planning, looking, memory, outside
<1>29. CASE OutsideStep
  BY <1>29, <1>a, <1>t, OutsideRests
<1> QED
  BY <1>1, <1>2, <1>3, <1>4, <1>5, <1>6, <1>7, <1>8, <1>9, <1>10, <1>11, <1>12,
     <1>13, <1>14, <1>15, <1>16, <1>17, <1>18, <1>19, <1>20, <1>21, <1>22,
     <1>23, <1>24, <1>25, <1>26, <1>27, <1>28, <1>29
     DEF Next, Step, OutsideStep

\* What was seen of a node was seen in this boot or an earlier one.
LEMMA StepBootsArePast ==
    IInv /\ [Next]_vars => \A q \in Preparations : BootsArePast(q)'
<1> SUFFICES ASSUME IInv, [Next]_vars, NEW q \in Preparations
             PROVE  BootsArePast(q)'
  OBVIOUS
<1> USE DEF Goto, BootsArePast
<1>t. TypeOK
  BY DEF IInv
<1>a. /\ snap \in [Preparations -> [Nodes -> Seen]]
      /\ boot \in [Nodes -> Nat]
      /\ \A n \in Nodes : snap[q][n].boot <= boot[n]
      /\ Unsteady \subseteq Nodes
  BY InitAssumption DEF IInv, TypeOK
<1>b. ASSUME UNCHANGED boot, snap'[q] = snap[q] PROVE BootsArePast(q)'
  BY <1>a, <1>b
<1>1. ASSUME NEW p \in Preparations \ {q},
             Step(p) \/ Kill(p) \/ LeftFills(p)
      PROVE  BootsArePast(q)'
  BY <1>1, <1>b, <1>t, Frame, OutsideFrame
<1>2. CASE AskStatus(q)
  <2>1. Candidate(q) \in Nodes /\ UNCHANGED boot
    BY <1>2, <1>t, CandidateType DEF AskStatus, outside
  <2>2. snap[q] \in [Nodes -> Seen] /\ snap[q][Candidate(q)] \in Seen
    BY <1>a, <2>1
  <2>3. CASE UNCHANGED snap
    BY <1>a, <2>1, <2>3
  <2>4. CASE snap' # snap
    <3> DEFINE r == [idle |-> TRUE, free |-> free[Candidate(q)],
                      cached |-> {}, weights |-> FALSE,
                      boot |-> boot[Candidate(q)]]
    <3>1. snap' = [snap EXCEPT
                       ![q] = [snap[q] EXCEPT ![Candidate(q)] = r]]
      BY <1>2, <2>1, <2>4, <2>2 DEF AskStatus
    <3>2. r.boot <= boot[Candidate(q)]
      BY <1>a, <2>1, <2>2 DEF Seen
    <3> HIDE DEF r
    <3>3. snap'[q] = [snap[q] EXCEPT ![Candidate(q)] = r]
      BY <1>a, <3>1
    <3> QED
      BY <1>a, <2>1, <2>2, <3>2, <3>3
  <2> QED
    BY <2>3, <2>4
<1>3. CASE ProbeCache(q)
  <2>1. Candidate(q) \in Nodes /\ UNCHANGED boot
    BY <1>3, <1>t, CandidateType DEF ProbeCache, outside
  <2>2. snap[q] \in [Nodes -> Seen] /\ snap[q][Candidate(q)] \in Seen
    BY <1>a, <2>1
  <2>3. CASE UNCHANGED snap
    BY <1>a, <2>1, <2>3
  <2>4. CASE snap' # snap
    <3> DEFINE r == [snap[q][Candidate(q)] EXCEPT !.cached = @ \cup {tgt[q]}]
    <3>1. snap' = [snap EXCEPT
                       ![q] = [snap[q] EXCEPT ![Candidate(q)] = r]]
      BY <1>3, <2>1, <2>4, <2>2 DEF ProbeCache
    <3>2. r.boot <= boot[Candidate(q)]
      BY <1>a, <2>1, <2>2 DEF Seen
    <3> HIDE DEF r
    <3>3. snap'[q] = [snap[q] EXCEPT ![Candidate(q)] = r]
      BY <1>a, <3>1
    <3> QED
      BY <1>a, <2>1, <2>2, <3>2, <3>3
  <2> QED
    BY <2>3, <2>4
<1>4. CASE ProbeWeights(q)
  <2>1. Candidate(q) \in Nodes /\ UNCHANGED boot
    BY <1>4, <1>t, CandidateType DEF ProbeWeights, outside
  <2>2. snap[q] \in [Nodes -> Seen] /\ snap[q][Candidate(q)] \in Seen
    BY <1>a, <2>1
  <2>3. CASE UNCHANGED snap
    BY <1>a, <2>1, <2>3
  <2>4. CASE snap' # snap
    <3> DEFINE r == [snap[q][Candidate(q)] EXCEPT !.weights = TRUE]
    <3>1. snap' = [snap EXCEPT
                       ![q] = [snap[q] EXCEPT ![Candidate(q)] = r]]
      BY <1>4, <2>1, <2>4, <2>2 DEF ProbeWeights
    <3>2. r.boot <= boot[Candidate(q)]
      BY <1>a, <2>1, <2>2 DEF Seen
    <3> HIDE DEF r
    <3>3. snap'[q] = [snap[q] EXCEPT ![Candidate(q)] = r]
      BY <1>a, <3>1
    <3> QED
      BY <1>a, <2>1, <2>2, <3>2, <3>3
  <2> QED
    BY <2>3, <2>4
<1>5. CASE CallFails(q)
  <2>1. /\ snap'[q] = [n \in Nodes |-> Unseen] /\ UNCHANGED boot
    BY <1>5, <1>a DEF CallFails, Stops, outside
  <2> QED
    BY <1>a, <2>1 DEF Unseen
<1>6. CASE Kill(q)
  <2>1. /\ snap'[q] = [n \in Nodes |-> Unseen] /\ UNCHANGED boot
    BY <1>6, <1>a DEF Kill, Stops, outside
  <2> QED
    BY <1>a, <2>1 DEF Unseen
<1>7. CASE \/ Choose(q) \/ TooFewNodes(q) \/ Consider(q) \/ Decide(q)
         \/ Resolve(q) \/ OpenLookup(q) \/ FindInvalid(q) \/ Look(q)
         \/ AnswerHit(q) \/ AnswerPromotable(q) \/ AnswerPrefill(q)
         \/ PublishAnswers(q) \/ BeginHydration(q) \/ AskIdle(q)
         \/ FindPresent(q) \/ CheckSpace(q) \/ Fill(q) \/ FillRunsOut(q)
         \/ RecordRows(q) \/ InspectWeights(q) \/ LeftFills(q)
  BY <1>7, <1>a, <1>b, <1>t
     DEF Choose, TooFewNodes, Consider, Decide, Resolve, OpenLookup,
         FindInvalid, Look, AnswerHit, AnswerPromotable, AnswerPrefill,
         PublishAnswers, BeginHydration, AskIdle, FindPresent, CheckSpace,
         Fill, FillRunsOut, RecordRows, InspectWeights, LeftFills, AnswerTo,
         Advance, Prune, Bring, progress, planning, looking, memory, outside
<1>8. ASSUME NEW n \in Unsteady, Reboot(n)
      PROVE  BootsArePast(q)'
  <2>1. n \in Nodes /\ snap' = snap
        /\ boot' = [boot EXCEPT ![n] = boot[n] + 1]
    BY <1>8, <1>a DEF Reboot, planning
  <2>2. \A m \in Nodes : boot[m] <= boot'[m]
    BY <1>a, <2>1
  <2>3. \A m \in Nodes : snap[q][m].boot \in Nat /\ boot'[m] \in Nat
    BY <1>a, <2>1 DEF Seen
  <2> QED
    BY <1>a, <2>1, <2>2, <2>3
<1>9. CASE OutsideStep
  BY <1>9, <1>a, <1>b, <1>t, OutsideRests
<1> QED
  BY <1>1, <1>2, <1>3, <1>4, <1>5, <1>6, <1>7, <1>8, <1>9
     DEF Next, Step, OutsideStep

\* Views come first and weights last.
LEMMA StepPhasesFollow ==
    IInv /\ [Next]_vars => \A q \in Preparations : PhasesFollow(q)'
<1> SUFFICES ASSUME IInv, [Next]_vars, NEW q \in Preparations
             PROVE  PhasesFollow(q)'
  OBVIOUS
<1> USE DEF Goto, PhasesFollow, Discovering, InWorker
<1>t. TypeOK
  BY DEF IInv
<1>a. /\ pc \in [Preparations -> Running \cup Terminal]
      /\ best \in [Preparations -> [Targets -> Nodes] \cup {None}]
      /\ phase \in [Preparations -> {"kv", "weights"}]
      /\ PhasesFollow(q)
  BY DEF IInv, TypeOK
<1>1. ASSUME NEW p \in Preparations \ {q},
             Step(p) \/ Kill(p) \/ LeftFills(p)
      PROVE  PhasesFollow(q)'
  BY <1>1, <1>a, <1>t, Frame
<1>2. CASE AskStatus(q)
  BY <1>2, <1>a, <1>t DEF AskStatus
<1>3. CASE ProbeCache(q)
  BY <1>3, <1>a, <1>t DEF ProbeCache
<1>4. CASE ProbeWeights(q)
  BY <1>4, <1>a, <1>t DEF ProbeWeights
<1>5. CASE Choose(q)
  BY <1>5, <1>a, <1>t DEF Choose
<1>6. CASE TooFewNodes(q)
  BY <1>6, <1>a, <1>t DEF TooFewNodes
<1>7. CASE Decide(q)
  BY <1>7, <1>a, <1>t DEF Decide
<1>8. CASE Resolve(q)
  BY <1>8, <1>a, <1>t DEF Resolve
<1>9. CASE OpenLookup(q)
  BY <1>9, <1>a, <1>t DEF OpenLookup
<1>10. CASE FindInvalid(q)
  BY <1>10, <1>a, <1>t DEF FindInvalid, AfterKv
<1>11. CASE Look(q)
  BY <1>11, <1>a, <1>t DEF Look
<1>12. CASE AnswerHit(q)
  BY <1>12, <1>a, <1>t DEF AnswerHit, AnswerTo, AfterKv
<1>13. CASE AnswerPromotable(q)
  BY <1>13, <1>a, <1>t DEF AnswerPromotable, AnswerTo
<1>14. CASE AnswerPrefill(q)
  BY <1>14, <1>a, <1>t DEF AnswerPrefill, AnswerTo, AfterKv
<1>15. CASE PublishAnswers(q)
  BY <1>15, <1>a, <1>t DEF PublishAnswers
<1>16. CASE BeginHydration(q)
  BY <1>16, <1>a, <1>t DEF BeginHydration
<1>17. CASE AskIdle(q)
  BY <1>17, <1>a, <1>t DEF AskIdle
<1>18. CASE FindPresent(q)
  BY <1>18, <1>a, <1>t DEF FindPresent, Advance
<1>19. CASE CheckSpace(q)
  BY <1>19, <1>a, <1>t DEF CheckSpace, Prune
<1>20. CASE Fill(q)
  BY <1>20, <1>a, <1>t DEF Fill, Advance, Bring
<1>21. CASE FillRunsOut(q)
  BY <1>21, <1>a, <1>t DEF FillRunsOut
<1>22. CASE RecordRows(q)
  BY <1>22, <1>a, <1>t DEF RecordRows, AfterKv
<1>23. CASE InspectWeights(q)
  BY <1>23, <1>a, <1>t DEF InspectWeights
<1>24. CASE CallFails(q)
  BY <1>24, <1>a, <1>t DEF CallFails, Stops
<1>25. CASE Kill(q)
  BY <1>25, <1>a, <1>t DEF Kill, Stops
<1>26. CASE LeftFills(q)
  BY <1>26, <1>a, <1>t DEF LeftFills, Bring
<1>27. CASE \/ Consider(q)
  BY <1>27, <1>a, <1>t
     DEF Consider, progress, planning, looking, memory, outside
<1>28. ASSUME NEW n \in Unsteady, Reboot(n)
      PROVE  PhasesFollow(q)'
  BY <1>28, <1>a, <1>t DEF Reboot, progress, planning, looking, memory, outside
<1>29. CASE OutsideStep
  BY <1>29, <1>a, <1>t, OutsideRests
<1> QED
  BY <1>1, <1>2, <1>3, <1>4, <1>5, <1>6, <1>7, <1>8, <1>9, <1>10, <1>11, <1>12,
     <1>13, <1>14, <1>15, <1>16, <1>17, <1>18, <1>19, <1>20, <1>21, <1>22,
     <1>23, <1>24, <1>25, <1>26, <1>27, <1>28, <1>29
     DEF Next, Step, OutsideStep

\* A view comes only from a worker, to its path.
LEMMA StepViewsCome ==
    IInv /\ [Next]_vars =>
        ViewsCome
<1> SUFFICES ASSUME IInv, [Next]_vars
             PROVE  ViewsCome
  OBVIOUS
<1> USE DEF ViewsCome
<1>t. TypeOK
  BY DEF IInv
<1>a. /\ at \in [Nodes -> [Paths -> Targets \cup {None}]]
      /\ weights \in [Nodes -> BOOLEAN]
      /\ boot \in [Nodes -> Nat] /\ Unsteady \subseteq Nodes
  BY <1>t, InitAssumption DEF TypeOK
<1>1. ASSUME NEW p \in Preparations, CheckSpace(p)
      PROVE  ViewsCome
  <2>1. /\ tgt[p] \in Targets /\ Place(p) \in Nodes
        /\ PathOf[tgt[p]] \in Paths
    BY <1>1, <1>a, <1>t, PlaceType DEF CheckSpace, Goto, InWorker
  <2> QED
    BY <1>1, <1>a, <1>t, <2>1 DEF CheckSpace, Prune
<1>2. ASSUME NEW p \in Preparations, Fill(p)
      PROVE  ViewsCome
  <2>1. /\ tgt[p] \in Targets /\ Place(p) \in Nodes
        /\ PathOf[tgt[p]] \in Paths
    BY <1>2, <1>a, <1>t, PlaceType DEF Fill, Advance, Goto, InWorker
  <2>2. CASE phase[p] = "kv"
    <3>1. at' = [at EXCEPT ![Place(p)][PathOf[tgt[p]]] = tgt[p]]
      BY <1>2, <1>a, <1>t, <2>2 DEF Fill, Bring
    <3>2. BringsView(p)
      BY <1>2, <1>a, <1>t, <2>2 DEF BringsView
    <3> QED
      BY <1>a, <2>1, <3>1, <3>2
  <2>3. CASE phase[p] # "kv"
    BY <1>2, <1>a, <1>t, <2>3 DEF Fill, Bring
  <2> QED
    BY <2>2, <2>3
<1>3. ASSUME NEW p \in Preparations, LeftFills(p)
      PROVE  ViewsCome
  <2>1. /\ tgt[p] \in Targets /\ Place(p) \in Nodes
        /\ PathOf[tgt[p]] \in Paths
    BY <1>3, <1>a, <1>t, PlaceType DEF LeftFills, Goto, InWorker
  <2>2. CASE phase[p] = "kv"
    <3>1. at' = [at EXCEPT ![Place(p)][PathOf[tgt[p]]] = tgt[p]]
      BY <1>3, <1>a, <1>t, <2>2 DEF LeftFills, Bring
    <3>2. BringsView(p)
      BY <1>3, <1>a, <1>t, <2>2 DEF BringsView
    <3> QED
      BY <1>a, <2>1, <3>1, <3>2
  <2>3. CASE phase[p] # "kv"
    BY <1>3, <1>a, <1>t, <2>3 DEF LeftFills, Bring
  <2> QED
    BY <2>2, <2>3
<1>4. ASSUME NEW p \in Preparations,
             \/ AskStatus(p) \/ ProbeCache(p) \/ ProbeWeights(p) \/ Choose(p)
             \/ TooFewNodes(p) \/ Consider(p) \/ Decide(p) \/ Resolve(p)
             \/ OpenLookup(p) \/ FindInvalid(p) \/ Look(p) \/ AnswerHit(p)
             \/ AnswerPromotable(p) \/ AnswerPrefill(p) \/ PublishAnswers(p)
             \/ BeginHydration(p) \/ AskIdle(p) \/ FindPresent(p)
             \/ FillRunsOut(p) \/ RecordRows(p) \/ InspectWeights(p)
             \/ CallFails(p) \/ Kill(p)
      PROVE  ViewsCome
  BY <1>4, <1>a, <1>t
     DEF AskStatus, ProbeCache, ProbeWeights, Choose, TooFewNodes, Consider,
         Decide, Resolve, OpenLookup, FindInvalid, Look, AnswerHit,
         AnswerPromotable, AnswerPrefill, PublishAnswers, BeginHydration,
         AskIdle, FindPresent, FillRunsOut, RecordRows, InspectWeights,
         CallFails, Kill, AnswerTo, Advance, Stops, progress, planning,
         looking, memory, outside
<1>5. ASSUME NEW n \in Unsteady, Reboot(n)
      PROVE  ViewsCome
  BY <1>5, <1>a, <1>t DEF Reboot, progress, planning, looking, memory, outside
<1>6. CASE OutsideStep
  BY <1>6, <1>a, <1>t, OutsideRests
<1> QED
  BY <1>1, <1>2, <1>3, <1>4, <1>5, <1>6 DEF Next, Step, OutsideStep

\* Weights come only from a worker.
LEMMA StepWeightsCome ==
    IInv /\ [Next]_vars =>
        WeightsCome
<1> SUFFICES ASSUME IInv, [Next]_vars
             PROVE  WeightsCome
  OBVIOUS
<1> USE DEF WeightsCome
<1>t. TypeOK
  BY DEF IInv
<1>a. /\ at \in [Nodes -> [Paths -> Targets \cup {None}]]
      /\ weights \in [Nodes -> BOOLEAN]
      /\ boot \in [Nodes -> Nat] /\ Unsteady \subseteq Nodes
  BY <1>t, InitAssumption DEF TypeOK
<1>1. ASSUME NEW p \in Preparations, Fill(p)
      PROVE  WeightsCome
  <2>1. /\ tgt[p] \in Targets /\ Place(p) \in Nodes
        /\ PathOf[tgt[p]] \in Paths
    BY <1>1, <1>a, <1>t, PlaceType DEF Fill, Advance, Goto, InWorker
  <2> QED
    BY <1>1, <1>a, <1>t, <2>1 DEF Fill, Bring, BringsWeights
<1>2. ASSUME NEW p \in Preparations, LeftFills(p)
      PROVE  WeightsCome
  <2>1. /\ tgt[p] \in Targets /\ Place(p) \in Nodes
        /\ PathOf[tgt[p]] \in Paths
    BY <1>2, <1>a, <1>t, PlaceType DEF LeftFills, Goto, InWorker
  <2> QED
    BY <1>2, <1>a, <1>t, <2>1 DEF LeftFills, Bring, BringsWeights
<1>3. ASSUME NEW p \in Preparations,
             \/ AskStatus(p) \/ ProbeCache(p) \/ ProbeWeights(p) \/ Choose(p)
             \/ TooFewNodes(p) \/ Consider(p) \/ Decide(p) \/ Resolve(p)
             \/ OpenLookup(p) \/ FindInvalid(p) \/ Look(p) \/ AnswerHit(p)
             \/ AnswerPromotable(p) \/ AnswerPrefill(p) \/ PublishAnswers(p)
             \/ BeginHydration(p) \/ AskIdle(p) \/ FindPresent(p)
             \/ CheckSpace(p) \/ FillRunsOut(p) \/ RecordRows(p)
             \/ InspectWeights(p) \/ CallFails(p) \/ Kill(p)
      PROVE  WeightsCome
  BY <1>3, <1>a, <1>t
     DEF AskStatus, ProbeCache, ProbeWeights, Choose, TooFewNodes, Consider,
         Decide, Resolve, OpenLookup, FindInvalid, Look, AnswerHit,
         AnswerPromotable, AnswerPrefill, PublishAnswers, BeginHydration,
         AskIdle, FindPresent, CheckSpace, FillRunsOut, RecordRows,
         InspectWeights, CallFails, Kill, AnswerTo, Advance, Prune, Stops,
         progress, planning, looking, memory, outside
<1>4. ASSUME NEW n \in Unsteady, Reboot(n)
      PROVE  WeightsCome
  BY <1>4, <1>a, <1>t DEF Reboot, progress, planning, looking, memory, outside
<1>5. CASE OutsideStep
  BY <1>5, <1>a, <1>t, OutsideRests
<1> QED
  BY <1>1, <1>2, <1>3, <1>4, <1>5 DEF Next, Step, OutsideStep

\* A preparation fills because it did, or has just checked the space.
LEMMA StepFillers ==
    IInv /\ [Next]_vars => \A q \in Preparations : FillersStay(q)
<1> SUFFICES ASSUME IInv, [Next]_vars, NEW q \in Preparations
             PROVE  FillersStay(q)
  OBVIOUS
<1> USE DEF Goto, InWorker, FillersStay
<1>t. TypeOK
  BY DEF IInv
<1>a. /\ pc \in [Preparations -> Running \cup Terminal]
      /\ best \in [Preparations -> [Targets -> Nodes] \cup {None}]
      /\ TRUE
  BY DEF IInv, TypeOK
<1>1. ASSUME NEW p \in Preparations \ {q},
             Step(p) \/ Kill(p) \/ LeftFills(p)
      PROVE  FillersStay(q)
  BY <1>1, <1>a, <1>t, Frame
<1>2. CASE AskStatus(q)
  BY <1>2, <1>a, <1>t DEF AskStatus
<1>3. CASE ProbeCache(q)
  BY <1>3, <1>a, <1>t DEF ProbeCache
<1>4. CASE ProbeWeights(q)
  BY <1>4, <1>a, <1>t DEF ProbeWeights
<1>5. CASE Choose(q)
  BY <1>5, <1>a, <1>t DEF Choose
<1>6. CASE TooFewNodes(q)
  BY <1>6, <1>a, <1>t DEF TooFewNodes, planning
<1>7. CASE Consider(q)
  BY <1>7, <1>a, <1>t DEF Consider, progress
<1>8. CASE Decide(q)
  BY <1>8, <1>a, <1>t DEF Decide, planning
<1>9. CASE Resolve(q)
  BY <1>9, <1>a, <1>t DEF Resolve, planning
<1>10. CASE OpenLookup(q)
  BY <1>10, <1>a, <1>t DEF OpenLookup, planning
<1>11. CASE FindInvalid(q)
  BY <1>11, <1>a, <1>t DEF FindInvalid, planning, AfterKv
<1>12. CASE Look(q)
  BY <1>12, <1>a, <1>t DEF Look, planning
<1>13. CASE AnswerHit(q)
  BY <1>13, <1>a, <1>t DEF AnswerHit, AnswerTo, planning, AfterKv
<1>14. CASE AnswerPromotable(q)
  BY <1>14, <1>a, <1>t DEF AnswerPromotable, AnswerTo, planning
<1>15. CASE AnswerPrefill(q)
  BY <1>15, <1>a, <1>t DEF AnswerPrefill, AnswerTo, planning, AfterKv
<1>16. CASE PublishAnswers(q)
  BY <1>16, <1>a, <1>t DEF PublishAnswers, planning
<1>17. CASE BeginHydration(q)
  BY <1>17, <1>a, <1>t DEF BeginHydration, planning
<1>18. CASE AskIdle(q)
  BY <1>18, <1>a, <1>t DEF AskIdle, planning
<1>19. CASE FindPresent(q)
  BY <1>19, <1>a, <1>t DEF FindPresent, Advance, planning
<1>20. CASE CheckSpace(q)
  BY <1>20, <1>a, <1>t DEF CheckSpace, Prune, planning
<1>21. CASE Fill(q)
  BY <1>21, <1>a, <1>t DEF Fill, Advance, Bring, planning
<1>22. CASE FillRunsOut(q)
  BY <1>22, <1>a, <1>t DEF FillRunsOut, planning
<1>23. CASE RecordRows(q)
  BY <1>23, <1>a, <1>t DEF RecordRows, planning, AfterKv
<1>24. CASE InspectWeights(q)
  BY <1>24, <1>a, <1>t DEF InspectWeights, planning
<1>25. CASE CallFails(q)
  BY <1>25, <1>a, <1>t DEF CallFails, Stops
<1>26. CASE Kill(q)
  BY <1>26, <1>a, <1>t DEF Kill, Stops
<1>27. CASE LeftFills(q)
  BY <1>27, <1>a, <1>t DEF LeftFills, Bring, planning
<1>28. ASSUME NEW n \in Unsteady, Reboot(n)
      PROVE  FillersStay(q)
  BY <1>28, <1>a, <1>t DEF Reboot, progress, planning, looking, memory, outside
<1>29. CASE OutsideStep
  BY <1>29, <1>a, <1>t, OutsideRests
<1> QED
  BY <1>1, <1>2, <1>3, <1>4, <1>5, <1>6, <1>7, <1>8, <1>9, <1>10, <1>11, <1>12,
     <1>13, <1>14, <1>15, <1>16, <1>17, <1>18, <1>19, <1>20, <1>21, <1>22,
     <1>23, <1>24, <1>25, <1>26, <1>27, <1>28, <1>29
     DEF Next, Step, OutsideStep

\* A view goes with a reboot, or for another target.
LEMMA StepViewsGo ==
    IInv /\ [Next]_vars =>
        ViewsGo
<1> SUFFICES ASSUME IInv, [Next]_vars
             PROVE  ViewsGo
  OBVIOUS
<1> USE DEF ViewsGo
<1>t. TypeOK
  BY DEF IInv
<1>a. /\ at \in [Nodes -> [Paths -> Targets \cup {None}]]
      /\ weights \in [Nodes -> BOOLEAN]
      /\ boot \in [Nodes -> Nat] /\ Unsteady \subseteq Nodes
  BY <1>t, InitAssumption DEF TypeOK
<1>f. \A p \in Preparations : FillerIsAlone(p)
  BY DEF IInv
<1>s. ASSUME UNCHANGED at PROVE ViewsGo
  BY <1>s DEF Cached
<1>1. ASSUME NEW p \in Preparations, CheckSpace(p)
      PROVE  ViewsGo
  <2>1. /\ tgt[p] \in Targets /\ Place(p) \in Nodes
        /\ PathOf[tgt[p]] \in Paths
    BY <1>1, <1>a, <1>t, <1>s, PlaceType DEF CheckSpace, Goto, InWorker
  <2>2. CASE phase[p] # "kv"
    BY <1>1, <1>a, <1>t, <1>s, <2>2 DEF CheckSpace, Prune, Cached
  <2>3. CASE phase[p] = "kv"
    <3>1. at' = [at EXCEPT ![Place(p)][PathOf[tgt[p]]] = None]
      BY <1>1, <1>a, <1>t, <1>s, <2>3 DEF CheckSpace, Prune
    <3>2. ~Cached(Place(p), tgt[p])
      BY <1>1, <1>a, <1>t, <1>s, <2>3 DEF CheckSpace, Here
    <3>3. ASSUME NEW n \in Nodes, NEW t \in Targets,
                 Cached(n, t), ~Cached(n, t)'
          PROVE  n = Place(p) /\ tgt[p] # t
      BY <1>a, <2>1, <3>1, <3>2, <3>3 DEF Cached
    <3> QED
      BY <1>1, <1>a, <1>t, <1>s, <2>3, <3>3
  <2> QED
    BY <2>2, <2>3
<1>2. ASSUME NEW p \in Preparations, Fill(p)
      PROVE  ViewsGo
  <2>1. /\ tgt[p] \in Targets /\ Place(p) \in Nodes
        /\ PathOf[tgt[p]] \in Paths
    BY <1>2, <1>a, <1>t, <1>s, PlaceType DEF Fill, Advance, Goto, InWorker
  <2>2. CASE phase[p] # "kv"
    BY <1>2, <1>a, <1>t, <1>s, <2>2 DEF Fill, Bring, Cached
  <2>3. CASE phase[p] = "kv"
    <3>1. at' = [at EXCEPT ![Place(p)][PathOf[tgt[p]]] = tgt[p]]
      BY <1>2, <1>a, <1>t, <1>s, <2>3 DEF Fill, Bring
    <3>2. at[Place(p)][PathOf[tgt[p]]] = None
      BY <1>2, <1>a, <1>t, <1>s, <2>3, <1>f
         DEF OthersView, Fill, Goto, FillerIsAlone, Advance
    <3> QED
      BY <1>a, <2>1, <3>1, <3>2, NoneAssumption DEF Cached
  <2> QED
    BY <2>2, <2>3
<1>3. ASSUME NEW p \in Preparations, LeftFills(p)
      PROVE  ViewsGo
  <2>1. /\ tgt[p] \in Targets /\ Place(p) \in Nodes
        /\ PathOf[tgt[p]] \in Paths
    BY <1>3, <1>a, <1>t, <1>s, PlaceType DEF LeftFills, Goto, InWorker
  <2>2. CASE phase[p] # "kv"
    BY <1>3, <1>a, <1>t, <1>s, <2>2 DEF LeftFills, Bring, Cached
  <2>3. CASE phase[p] = "kv"
    <3>1. at' = [at EXCEPT ![Place(p)][PathOf[tgt[p]]] = tgt[p]]
      BY <1>3, <1>a, <1>t, <1>s, <2>3 DEF LeftFills, Bring
    <3>2. at[Place(p)][PathOf[tgt[p]]] = None
      BY <1>3, <1>a, <1>t, <1>s, <2>3 DEF OthersView, LeftFills, Goto
    <3> QED
      BY <1>a, <2>1, <3>1, <3>2, NoneAssumption DEF Cached
  <2> QED
    BY <2>2, <2>3
<1>4. ASSUME NEW p \in Preparations,
             \/ AskStatus(p) \/ ProbeCache(p) \/ ProbeWeights(p) \/ Choose(p)
             \/ TooFewNodes(p) \/ Consider(p) \/ Decide(p) \/ Resolve(p)
             \/ OpenLookup(p) \/ FindInvalid(p) \/ Look(p) \/ AnswerHit(p)
             \/ AnswerPromotable(p) \/ AnswerPrefill(p) \/ PublishAnswers(p)
             \/ BeginHydration(p) \/ AskIdle(p) \/ FindPresent(p)
             \/ FillRunsOut(p) \/ RecordRows(p) \/ InspectWeights(p)
             \/ CallFails(p) \/ Kill(p)
      PROVE  ViewsGo
  BY <1>4, <1>a, <1>t, <1>s
     DEF AskStatus, ProbeCache, ProbeWeights, Choose, TooFewNodes, Consider,
         Decide, Resolve, OpenLookup, FindInvalid, Look, AnswerHit,
         AnswerPromotable, AnswerPrefill, PublishAnswers, BeginHydration,
         AskIdle, FindPresent, FillRunsOut, RecordRows, InspectWeights,
         CallFails, Kill, AnswerTo, Advance, Stops, progress, planning,
         looking, memory, outside
<1>5. ASSUME NEW n \in Unsteady, Reboot(n)
      PROVE  ViewsGo
  <2>1. /\ n \in Nodes /\ boot' = [boot EXCEPT ![n] = boot[n] + 1]
        /\ at' = [at EXCEPT ![n] = [q \in Paths |-> None]]
    BY <1>5, <1>a, <1>t, <1>s DEF Reboot
  <2>2. \A m \in Nodes : boot'[m] = boot[m] + 1 \/ at'[m] = at[m]
    BY <1>a, <2>1
  <2> QED
    BY <2>2 DEF Cached
<1>6. CASE OutsideStep
  BY <1>6, <1>a, <1>t, <1>s, OutsideRests
<1> QED
  BY <1>1, <1>2, <1>3, <1>4, <1>5, <1>6 DEF Next, Step, OutsideStep

\* Weights go only with a reboot.
LEMMA StepWeightsGo ==
    IInv /\ [Next]_vars =>
        WeightsGo
<1> SUFFICES ASSUME IInv, [Next]_vars
             PROVE  WeightsGo
  OBVIOUS
<1> USE DEF WeightsGo
<1>t. TypeOK
  BY DEF IInv
<1>a. /\ at \in [Nodes -> [Paths -> Targets \cup {None}]]
      /\ weights \in [Nodes -> BOOLEAN]
      /\ boot \in [Nodes -> Nat] /\ Unsteady \subseteq Nodes
  BY <1>t, InitAssumption DEF TypeOK
<1>1. ASSUME NEW p \in Preparations, Fill(p)
      PROVE  WeightsGo
  BY <1>1, <1>a, <1>t DEF Fill, Bring
<1>2. ASSUME NEW p \in Preparations, LeftFills(p)
      PROVE  WeightsGo
  BY <1>2, <1>a, <1>t DEF LeftFills, Bring
<1>3. ASSUME NEW p \in Preparations,
             \/ AskStatus(p) \/ ProbeCache(p) \/ ProbeWeights(p) \/ Choose(p)
             \/ TooFewNodes(p) \/ Consider(p) \/ Decide(p) \/ Resolve(p)
             \/ OpenLookup(p) \/ FindInvalid(p) \/ Look(p) \/ AnswerHit(p)
             \/ AnswerPromotable(p) \/ AnswerPrefill(p) \/ PublishAnswers(p)
             \/ BeginHydration(p) \/ AskIdle(p) \/ FindPresent(p)
             \/ CheckSpace(p) \/ FillRunsOut(p) \/ RecordRows(p)
             \/ InspectWeights(p) \/ CallFails(p) \/ Kill(p)
      PROVE  WeightsGo
  BY <1>3, <1>a, <1>t
     DEF AskStatus, ProbeCache, ProbeWeights, Choose, TooFewNodes, Consider,
         Decide, Resolve, OpenLookup, FindInvalid, Look, AnswerHit,
         AnswerPromotable, AnswerPrefill, PublishAnswers, BeginHydration,
         AskIdle, FindPresent, CheckSpace, FillRunsOut, RecordRows,
         InspectWeights, CallFails, Kill, AnswerTo, Advance, Prune, Stops,
         progress, planning, looking, memory, outside
<1>4. ASSUME NEW n \in Unsteady, Reboot(n)
      PROVE  WeightsGo
  <2>1. /\ n \in Nodes /\ boot' = [boot EXCEPT ![n] = boot[n] + 1]
        /\ weights' = [weights EXCEPT ![n] = FALSE]
    BY <1>4, <1>a, <1>t DEF Reboot
  <2> QED
    BY <1>a, <2>1
<1>5. CASE OutsideStep
  BY <1>5, <1>a, <1>t, OutsideRests
<1> QED
  BY <1>1, <1>2, <1>3, <1>4, <1>5 DEF Next, Step, OutsideStep

\* Who is about to fill a path finds it empty, and nobody else is.
LEMMA StepFillerIsAlone ==
    IInv /\ [Next]_vars => \A q \in Preparations : FillerIsAlone(q)'
<1> SUFFICES ASSUME IInv, [Next]_vars, NEW q \in Preparations,
                    pc'[q] = "fill"
             PROVE  FillerIsAlone(q)'
  BY DEF FillerIsAlone
<1>t. TypeOK /\ TypeOK' /\ \A r \in Preparations : FillerIsAlone(r)
  BY StepType DEF IInv
<1>v. /\ at \in [Nodes -> [Paths -> Targets \cup {None}]]
      /\ weights \in [Nodes -> BOOLEAN]
  BY <1>t DEF TypeOK
<1>s. \A r \in Preparations : FillersStay(r)
  BY StepFillers
<1>c. ViewsCome /\ WeightsCome
  BY StepViewsCome, StepWeightsCome
<1>1. ASSUME NEW r \in Preparations, CheckSpace(r)
      PROVE  /\ pc[r] = "check" /\ Turn(r) /\ ~Here(r)
             /\ tgt[r] \in Targets /\ Place(r) \in Nodes
             /\ PathOf[tgt[r]] \in Paths
             /\ UNCHANGED <<phase, tgt, best, weights>>
             /\ phase[r] = "kv" => at'[Place(r)][PathOf[tgt[r]]] = None
  <2>1. pc[r] = "check"
    BY <1>1 DEF CheckSpace, Goto
  <2>2. tgt[r] \in Targets /\ Place(r) \in Nodes /\ PathOf[tgt[r]] \in Paths
    BY <1>t, <2>1, PlaceType DEF InWorker
  <2>3. phase[r] = "kv" =>
            at' = [at EXCEPT ![Place(r)][PathOf[tgt[r]]] = None]
    BY <1>1 DEF CheckSpace, Prune
  <2>4. phase[r] = "kv" => at'[Place(r)][PathOf[tgt[r]]] = None
    BY <1>v, <2>2, <2>3
  <2> QED
    BY <1>1, <2>1, <2>2, <2>4 DEF CheckSpace, planning
<1>2. phase'[q] = phase[q] /\ tgt'[q] = tgt[q] /\ best'[q] = best[q]
  BY <1>s, <1>1 DEF FillersStay
<1>3. ASSUME NEW r \in Preparations \ {q}, pc'[r] = "fill"
      PROVE  ~SamePath(q, r)'
  <2>1. phase'[r] = phase[r] /\ tgt'[r] = tgt[r] /\ best'[r] = best[r]
    BY <1>3, <1>s, <1>1 DEF FillersStay
  <2>2. SamePath(q, r)' = SamePath(q, r)
    BY <1>2, <2>1 DEF SamePath, Place
  <2>3. CASE CheckSpace(q)
    <3>1. pc[r] = "fill"
      BY <1>3, <2>3, <1>1 DEF CheckSpace, Goto
    <3> QED
      BY <1>1, <2>2, <2>3, <3>1 DEF Turn
  <2>4. CASE CheckSpace(r)
    <3>1. pc[q] = "fill"
      BY <1>3, <2>4, <1>1 DEF CheckSpace, Goto
    <3>2. ~SamePath(r, q)
      BY <1>1, <2>4, <3>1 DEF Turn
    <3> QED
      BY <2>2, <3>2 DEF SamePath
  <2>5. CASE ~CheckSpace(q) /\ ~CheckSpace(r)
    <3>1. pc[q] = "fill" /\ pc[r] = "fill"
      BY <1>3, <1>s, <2>5 DEF FillersStay
    <3> QED
      BY <1>t, <2>2, <3>1 DEF FillerIsAlone
  <2> QED
    BY <2>3, <2>4, <2>5
<1>4. ~Here(q)' /\ OthersView(q)' = None
  <2>1. CASE CheckSpace(q)
    <3>1. Place(q)' = Place(q)
      BY <1>2 DEF Place
    <3> QED
      BY <1>1, <1>2, <2>1, <3>1, NoneAssumption DEF Here, OthersView, Cached
  <2>2. CASE ~CheckSpace(q)
    <3>1. pc[q] = "fill" /\ ~Here(q) /\ OthersView(q) = None
      BY <1>s, <1>t, <2>2 DEF FillersStay, FillerIsAlone
    <3>2. /\ tgt[q] \in Targets /\ Place(q) \in Nodes
          /\ PathOf[tgt[q]] \in Paths /\ Place(q)' = Place(q)
      BY <1>t, <1>2, <3>1, PlaceType DEF InWorker, Place
    <3>3. ASSUME NEW p \in Preparations, Fill(p) \/ LeftFills(p)
          PROVE  ~SamePath(p, q)
      <4>1. CASE p = q
        <5>1. pc'[q] # "fill"
          BY <1>t, <3>1, <3>3, <4>1 DEF Fill, LeftFills, Advance, Goto, TypeOK
        <5> QED
          BY <5>1
      <4>2. CASE p # q /\ Fill(p)
        BY <1>t, <3>1, <4>2 DEF Fill, Advance, Goto, FillerIsAlone
      <4>3. CASE p # q /\ LeftFills(p)
        BY <3>1, <4>3 DEF LeftFills, Turn
      <4> QED
        BY <3>3, <4>1, <4>2, <4>3
    <3>4. CASE phase[q] = "kv"
      <4>1. at[Place(q)][PathOf[tgt[q]]] = None
        BY <3>1, <3>4 DEF OthersView
      <4>2. ASSUME NEW p \in Preparations, BringsView(p)
            PROVE  Place(p) # Place(q) \/ PathOf[tgt[p]] # PathOf[tgt[q]]
        BY <3>3, <3>4, <4>2 DEF BringsView, SamePath
      <4>3. at'[Place(q)][PathOf[tgt[q]]] = None
        BY <1>c, <3>2, <4>1, <4>2 DEF ViewsCome
      <4> QED
        BY <1>2, <3>2, <3>4, <4>3, NoneAssumption DEF Here, OthersView, Cached
    <3>5. CASE phase[q] # "kv"
      <4>1. ~weights[Place(q)]
        BY <3>1, <3>5 DEF Here
      <4>2. ASSUME NEW p \in Preparations, BringsWeights(p)
            PROVE  Place(p) # Place(q)
        <5>1. phase[p] = phase[q]
          BY <1>t, <3>5, <4>2 DEF BringsWeights, TypeOK
        <5> QED
          BY <3>3, <3>5, <4>2, <5>1 DEF BringsWeights, SamePath
      <4>3. ~weights'[Place(q)]
        BY <1>c, <3>2, <4>1, <4>2 DEF WeightsCome
      <4> QED
        BY <1>2, <3>2, <3>5, <4>3 DEF Here, OthersView
    <3> QED
      BY <3>4, <3>5
  <2> QED
    BY <2>1, <2>2
<1> QED
  BY <1>3, <1>4 DEF FillerIsAlone

\* A plan that is chosen stays.
LEMMA StepFirm ==
    IInv /\ [Next]_vars => \A q \in Preparations : FirmStays(q)
<1> SUFFICES ASSUME IInv, [Next]_vars, NEW q \in Preparations
             PROVE  FirmStays(q)
  OBVIOUS
<1> USE DEF Goto, FirmStays, Firm, Discovering
<1>t. TypeOK
  BY DEF IInv
<1>a. /\ pc \in [Preparations -> Running \cup Terminal]
      /\ best \in [Preparations -> [Targets -> Nodes] \cup {None}]
      /\ phase \in [Preparations -> {"kv", "weights"}]
         /\ tgt \in [Preparations -> Nat] /\ PhasesFollow(q)
         /\ prefill \in [Preparations -> BOOLEAN]
         /\ seen \in [Preparations -> SUBSET Targets]
  BY DEF IInv, TypeOK
<1>m. /\ at \in [Nodes -> [Paths -> Targets \cup {None}]]
      /\ weights \in [Nodes -> BOOLEAN]
  BY <1>t DEF TypeOK
<1>1. ASSUME NEW p \in Preparations \ {q},
             Step(p) \/ Kill(p) \/ LeftFills(p)
      PROVE  FirmStays(q)
  BY <1>1, <1>a, <1>t, Frame
<1>2. CASE AskStatus(q)
  BY <1>2, <1>a, <1>t DEF AskStatus
<1>3. CASE ProbeCache(q)
  BY <1>3, <1>a, <1>t DEF ProbeCache
<1>4. CASE ProbeWeights(q)
  BY <1>4, <1>a, <1>t DEF ProbeWeights
<1>5. CASE Choose(q)
  BY <1>5, <1>a, <1>t DEF Choose
<1>6. CASE TooFewNodes(q)
  BY <1>6, <1>a, <1>t DEF TooFewNodes, planning
<1>7. CASE Consider(q)
  BY <1>7, <1>a, <1>t DEF Consider, progress
<1>8. CASE Decide(q)
  BY <1>8, <1>a, <1>t DEF Decide, planning
<1>9. CASE Resolve(q)
  BY <1>9, <1>a, <1>t DEF Resolve, planning
<1>10. CASE OpenLookup(q)
  BY <1>10, <1>a, <1>t DEF OpenLookup, planning
<1>11. CASE FindInvalid(q)
  BY <1>11, <1>a, <1>t DEF FindInvalid, planning, AfterKv
<1>12. CASE Look(q)
  BY <1>12, <1>a, <1>t DEF Look, planning
<1>13. CASE AnswerHit(q)
  BY <1>13, <1>a, <1>t DEF AnswerHit, AnswerTo, planning, AfterKv
<1>14. CASE AnswerPromotable(q)
  BY <1>14, <1>a, <1>t DEF AnswerPromotable, AnswerTo, planning
<1>15. CASE AnswerPrefill(q)
  BY <1>15, <1>a, <1>t DEF AnswerPrefill, AnswerTo, planning, AfterKv
<1>16. CASE PublishAnswers(q)
  BY <1>16, <1>a, <1>t DEF PublishAnswers, planning
<1>17. CASE BeginHydration(q)
  BY <1>17, <1>a, <1>t DEF BeginHydration, planning
<1>18. CASE AskIdle(q)
  BY <1>18, <1>a, <1>t DEF AskIdle, planning
<1>19. CASE FindPresent(q)
  BY <1>19, <1>a, <1>t DEF FindPresent, Advance, planning
<1>20. CASE CheckSpace(q)
  BY <1>20, <1>a, <1>t DEF CheckSpace, Prune, planning
<1>21. CASE Fill(q)
  BY <1>21, <1>a, <1>t DEF Fill, Advance, Bring, planning
<1>22. CASE FillRunsOut(q)
  BY <1>22, <1>a, <1>t DEF FillRunsOut, planning
<1>23. CASE RecordRows(q)
  BY <1>23, <1>a, <1>t DEF RecordRows, planning, AfterKv
<1>24. CASE InspectWeights(q)
  BY <1>24, <1>a, <1>t DEF InspectWeights, planning
<1>25. CASE CallFails(q)
  BY <1>25, <1>a, <1>t DEF CallFails, Stops
<1>26. CASE Kill(q)
  BY <1>26, <1>a, <1>t DEF Kill, Stops
<1>27. CASE LeftFills(q)
  BY <1>27, <1>a, <1>t DEF LeftFills, Bring, planning
<1>28. ASSUME NEW n \in Unsteady, Reboot(n)
      PROVE  FirmStays(q)
  BY <1>28, <1>a, <1>t DEF Reboot, progress, planning, looking, memory, outside
<1>29. CASE OutsideStep
  BY <1>29, <1>a, <1>t, OutsideRests
<1> QED
  BY <1>1, <1>2, <1>3, <1>4, <1>5, <1>6, <1>7, <1>8, <1>9, <1>10, <1>11, <1>12,
     <1>13, <1>14, <1>15, <1>16, <1>17, <1>18, <1>19, <1>20, <1>21, <1>22,
     <1>23, <1>24, <1>25, <1>26, <1>27, <1>28, <1>29
     DEF Next, Step, OutsideStep

\* How a preparation comes to look.
LEMMA StepLookingSince ==
    IInv /\ [Next]_vars => \A q \in Preparations : LookingSince(q)
<1> SUFFICES ASSUME IInv, [Next]_vars, NEW q \in Preparations
             PROVE  LookingSince(q)
  OBVIOUS
<1> USE DEF Goto, LookingSince
<1>t. TypeOK
  BY DEF IInv
<1>a. /\ pc \in [Preparations -> Running \cup Terminal]
      /\ best \in [Preparations -> [Targets -> Nodes] \cup {None}]
      /\ phase \in [Preparations -> {"kv", "weights"}]
         /\ tgt \in [Preparations -> Nat] /\ PhasesFollow(q)
         /\ prefill \in [Preparations -> BOOLEAN]
         /\ seen \in [Preparations -> SUBSET Targets]
  BY DEF IInv, TypeOK
<1>m. /\ at \in [Nodes -> [Paths -> Targets \cup {None}]]
      /\ weights \in [Nodes -> BOOLEAN]
  BY <1>t DEF TypeOK
<1>1. ASSUME NEW p \in Preparations \ {q},
             Step(p) \/ Kill(p) \/ LeftFills(p)
      PROVE  LookingSince(q)
  BY <1>1, <1>a, <1>t, Frame
<1>2. CASE AskStatus(q)
  BY <1>2, <1>a, <1>t DEF AskStatus, looking
<1>3. CASE ProbeCache(q)
  BY <1>3, <1>a, <1>t DEF ProbeCache, looking
<1>4. CASE ProbeWeights(q)
  BY <1>4, <1>a, <1>t DEF ProbeWeights, looking
<1>5. CASE Choose(q)
  BY <1>5, <1>a, <1>t DEF Choose, looking
<1>6. CASE TooFewNodes(q)
  BY <1>6, <1>a, <1>t DEF TooFewNodes, looking
<1>7. CASE Decide(q)
  BY <1>7, <1>a, <1>t DEF Decide, looking
<1>8. CASE Resolve(q)
  BY <1>8, <1>a, <1>t DEF Resolve, looking
<1>9. CASE OpenLookup(q)
  BY <1>9, <1>a, <1>t DEF OpenLookup
<1>10. CASE FindInvalid(q)
  BY <1>10, <1>a, <1>t DEF FindInvalid, AfterKv
<1>11. CASE Look(q)
  <2>1. tgt[q] \in Targets /\ UNCHANGED at
    BY <1>11, <1>a, <1>t, TargetFacts DEF Look, TypeOK, Targets, Goto, memory
  <2> QED
    BY <1>11, <1>a, <2>1 DEF Look
<1>12. CASE AnswerHit(q)
  BY <1>12, <1>a, <1>t DEF AnswerHit, AnswerTo, AfterKv
<1>13. CASE AnswerPromotable(q)
  BY <1>13, <1>a, <1>t DEF AnswerPromotable, AnswerTo
<1>14. CASE AnswerPrefill(q)
  BY <1>14, <1>a, <1>t DEF AnswerPrefill, AnswerTo, AfterKv
<1>15. CASE PublishAnswers(q)
  BY <1>15, <1>a, <1>t DEF PublishAnswers
<1>16. CASE BeginHydration(q)
  BY <1>16, <1>a, <1>t DEF BeginHydration, looking
<1>17. CASE AskIdle(q)
  BY <1>17, <1>a, <1>t DEF AskIdle, looking
<1>18. CASE FindPresent(q)
  BY <1>18, <1>a, <1>t DEF FindPresent, Advance, looking
<1>19. CASE CheckSpace(q)
  BY <1>19, <1>a, <1>t DEF CheckSpace, Prune, looking
<1>20. CASE Fill(q)
  BY <1>20, <1>a, <1>t DEF Fill, Advance, Bring, looking
<1>21. CASE FillRunsOut(q)
  BY <1>21, <1>a, <1>t DEF FillRunsOut, looking
<1>22. CASE RecordRows(q)
  BY <1>22, <1>a, <1>t DEF RecordRows, looking, AfterKv
<1>23. CASE InspectWeights(q)
  BY <1>23, <1>a, <1>t DEF InspectWeights, looking
<1>24. CASE CallFails(q)
  BY <1>24, <1>a, <1>t DEF CallFails, Stops
<1>25. CASE Kill(q)
  BY <1>25, <1>a, <1>t DEF Kill, Stops
<1>26. CASE LeftFills(q)
  BY <1>26, <1>a, <1>t DEF LeftFills, Bring, looking
<1>27. CASE \/ Consider(q)
  BY <1>27, <1>a, <1>t
     DEF Consider, progress, planning, looking, memory, outside
<1>28. ASSUME NEW n \in Unsteady, Reboot(n)
      PROVE  LookingSince(q)
  BY <1>28, <1>a, <1>t DEF Reboot, progress, planning, looking, memory, outside
<1>29. CASE OutsideStep
  BY <1>29, <1>a, <1>t, OutsideRests
<1> QED
  BY <1>1, <1>2, <1>3, <1>4, <1>5, <1>6, <1>7, <1>8, <1>9, <1>10, <1>11, <1>12,
     <1>13, <1>14, <1>15, <1>16, <1>17, <1>18, <1>19, <1>20, <1>21, <1>22,
     <1>23, <1>24, <1>25, <1>26, <1>27, <1>28, <1>29
     DEF Next, Step, OutsideStep

\* How a worker comes to be called.
LEMMA StepWorkingSince ==
    IInv /\ [Next]_vars => \A q \in Preparations : WorkingSince(q)
<1> SUFFICES ASSUME IInv, [Next]_vars, NEW q \in Preparations
             PROVE  WorkingSince(q)
  OBVIOUS
<1> USE DEF Goto, WorkingSince, InWorker
<1>t. TypeOK
  BY DEF IInv
<1>a. /\ pc \in [Preparations -> Running \cup Terminal]
      /\ best \in [Preparations -> [Targets -> Nodes] \cup {None}]
      /\ phase \in [Preparations -> {"kv", "weights"}]
         /\ tgt \in [Preparations -> Nat] /\ PhasesFollow(q)
         /\ prefill \in [Preparations -> BOOLEAN]
         /\ seen \in [Preparations -> SUBSET Targets]
  BY DEF IInv, TypeOK
<1>m. /\ at \in [Nodes -> [Paths -> Targets \cup {None}]]
      /\ weights \in [Nodes -> BOOLEAN]
  BY <1>t DEF TypeOK
<1>1. ASSUME NEW p \in Preparations \ {q},
             Step(p) \/ Kill(p) \/ LeftFills(p)
      PROVE  WorkingSince(q)
  BY <1>1, <1>a, <1>t, Frame
<1>2. CASE AskStatus(q)
  BY <1>2, <1>a, <1>t DEF AskStatus
<1>3. CASE ProbeCache(q)
  BY <1>3, <1>a, <1>t DEF ProbeCache
<1>4. CASE ProbeWeights(q)
  BY <1>4, <1>a, <1>t DEF ProbeWeights
<1>5. CASE Choose(q)
  BY <1>5, <1>a, <1>t DEF Choose
<1>6. CASE TooFewNodes(q)
  BY <1>6, <1>a, <1>t DEF TooFewNodes
<1>7. CASE Decide(q)
  BY <1>7, <1>a, <1>t DEF Decide
<1>8. CASE Resolve(q)
  BY <1>8, <1>a, <1>t DEF Resolve
<1>9. CASE OpenLookup(q)
  BY <1>9, <1>a, <1>t DEF OpenLookup
<1>10. CASE FindInvalid(q)
  BY <1>10, <1>a, <1>t DEF FindInvalid, AfterKv
<1>11. CASE Look(q)
  BY <1>11, <1>a, <1>t DEF Look
<1>12. CASE AnswerHit(q)
  BY <1>12, <1>a, <1>t DEF AnswerHit, AnswerTo, AfterKv
<1>13. CASE AnswerPromotable(q)
  BY <1>13, <1>a, <1>t DEF AnswerPromotable, AnswerTo
<1>14. CASE AnswerPrefill(q)
  BY <1>14, <1>a, <1>t DEF AnswerPrefill, AnswerTo, AfterKv
<1>15. CASE PublishAnswers(q)
  BY <1>15, <1>a, <1>t DEF PublishAnswers
<1>16. CASE BeginHydration(q)
  BY <1>16, <1>a, <1>t DEF BeginHydration
<1>17. CASE AskIdle(q)
  BY <1>17, <1>a, <1>t DEF AskIdle, NextTarget
<1>18. CASE FindPresent(q)
  <2>1. tgt[q] \in Targets
    BY <1>18, <1>t, PlaceType DEF FindPresent, Advance, Goto, InWorker
  <2>4. Brought(q)
    BY <1>18, <1>m, <2>1 DEF FindPresent, Here, Cached, Brought, memory
  <2>5. (tgt[q] < N \/ tgt[q] = N) /\ ~(tgt[q] < N /\ tgt[q] = N)
    BY <2>1, TargetFacts DEF Targets
  <2>6. /\ pc[q] \in {"check", "fill"} /\ UNCHANGED prefill
        /\ tgt[q] < N => /\ pc'[q] = "check" /\ phase'[q] = phase[q]
                         /\ tgt'[q] = tgt[q] + 1
        /\ tgt[q] = N => /\ pc'[q] = IF phase[q] = "kv" THEN "record"
                                     ELSE "inspect"
                         /\ phase'[q] = "weights"
    BY <1>18, <1>a, <2>5 DEF FindPresent, Advance, NextTarget, looking
  <2> QED
    BY <1>a, <2>4, <2>5, <2>6
<1>19. CASE CheckSpace(q)
  BY <1>19, <1>a, <1>t DEF CheckSpace, Prune
<1>20. CASE Fill(q)
  <2>1. tgt[q] \in Targets /\ Place(q) \in Nodes /\ PathOf[tgt[q]] \in Paths
    BY <1>20, <1>t, PlaceType DEF Fill, Advance, Goto, InWorker
  <2>2. phase[q] = "kv" =>
            at' = [at EXCEPT ![Place(q)][PathOf[tgt[q]]] = tgt[q]]
    BY <1>20 DEF Fill, Bring
  <2>3. phase[q] # "kv" => weights' = [weights EXCEPT ![Place(q)] = TRUE]
    BY <1>20 DEF Fill, Bring
  <2>4. Brought(q)
    BY <1>m, <2>1, <2>2, <2>3 DEF Brought
  <2>5. (tgt[q] < N \/ tgt[q] = N) /\ ~(tgt[q] < N /\ tgt[q] = N)
    BY <2>1, TargetFacts DEF Targets
  <2>6. /\ pc[q] \in {"check", "fill"} /\ UNCHANGED prefill
        /\ tgt[q] < N => /\ pc'[q] = "check" /\ phase'[q] = phase[q]
                         /\ tgt'[q] = tgt[q] + 1
        /\ tgt[q] = N => /\ pc'[q] = IF phase[q] = "kv" THEN "record"
                                     ELSE "inspect"
                         /\ phase'[q] = "weights"
    BY <1>20, <1>a, <2>5 DEF Fill, Advance, NextTarget, looking
  <2> QED
    BY <1>a, <2>4, <2>5, <2>6
<1>21. CASE FillRunsOut(q)
  BY <1>21, <1>a, <1>t DEF FillRunsOut
<1>22. CASE RecordRows(q)
  BY <1>22, <1>a, <1>t DEF RecordRows, AfterKv
<1>23. CASE InspectWeights(q)
  BY <1>23, <1>a, <1>t DEF InspectWeights, NextTarget
<1>24. CASE CallFails(q)
  BY <1>24, <1>a, <1>t DEF CallFails, Stops
<1>25. CASE Kill(q)
  BY <1>25, <1>a, <1>t DEF Kill, Stops
<1>26. CASE LeftFills(q)
  BY <1>26, <1>a, <1>t DEF LeftFills, Bring
<1>27. CASE \/ Consider(q)
  BY <1>27, <1>a, <1>t
     DEF Consider, progress, planning, looking, memory, outside
<1>28. ASSUME NEW n \in Unsteady, Reboot(n)
      PROVE  WorkingSince(q)
  BY <1>28, <1>a, <1>t DEF Reboot, progress, planning, looking, memory, outside
<1>29. CASE OutsideStep
  BY <1>29, <1>a, <1>t, OutsideRests
<1> QED
  BY <1>1, <1>2, <1>3, <1>4, <1>5, <1>6, <1>7, <1>8, <1>9, <1>10, <1>11, <1>12,
     <1>13, <1>14, <1>15, <1>16, <1>17, <1>18, <1>19, <1>20, <1>21, <1>22,
     <1>23, <1>24, <1>25, <1>26, <1>27, <1>28, <1>29
     DEF Next, Step, OutsideStep

\* How a preparation comes to have all views.
LEMMA StepViewsBrought ==
    IInv /\ [Next]_vars => \A q \in Preparations : ViewsBroughtSince(q)
<1> SUFFICES ASSUME IInv, [Next]_vars, NEW q \in Preparations
             PROVE  ViewsBroughtSince(q)
  OBVIOUS
<1> USE DEF Goto, ViewsBroughtSince, InWorker, ViewsAllBrought, PhasesFollow,
            Discovering
<1>t. TypeOK
  BY DEF IInv
<1>a. /\ pc \in [Preparations -> Running \cup Terminal]
      /\ best \in [Preparations -> [Targets -> Nodes] \cup {None}]
      /\ phase \in [Preparations -> {"kv", "weights"}]
         /\ tgt \in [Preparations -> Nat] /\ PhasesFollow(q)
         /\ prefill \in [Preparations -> BOOLEAN]
         /\ seen \in [Preparations -> SUBSET Targets]
  BY DEF IInv, TypeOK
<1>m. /\ at \in [Nodes -> [Paths -> Targets \cup {None}]]
      /\ weights \in [Nodes -> BOOLEAN]
  BY <1>t DEF TypeOK
<1>1. ASSUME NEW p \in Preparations \ {q},
             Step(p) \/ Kill(p) \/ LeftFills(p)
      PROVE  ViewsBroughtSince(q)
  BY <1>1, <1>a, <1>t, Frame
<1>2. CASE AskStatus(q)
  BY <1>2, <1>a, <1>t DEF AskStatus, looking
<1>3. CASE ProbeCache(q)
  BY <1>3, <1>a, <1>t DEF ProbeCache, looking
<1>4. CASE ProbeWeights(q)
  BY <1>4, <1>a, <1>t DEF ProbeWeights, looking
<1>5. CASE Choose(q)
  BY <1>5, <1>a, <1>t DEF Choose, looking
<1>6. CASE TooFewNodes(q)
  BY <1>6, <1>a, <1>t DEF TooFewNodes, looking
<1>7. CASE Decide(q)
  BY <1>7, <1>a, <1>t DEF Decide, looking
<1>8. CASE Resolve(q)
  BY <1>8, <1>a, <1>t DEF Resolve, looking
<1>9. CASE OpenLookup(q)
  BY <1>9, <1>a, <1>t DEF OpenLookup
<1>10. CASE FindInvalid(q)
  BY <1>10, <1>a, <1>t DEF FindInvalid, AfterKv
<1>11. CASE Look(q)
  BY <1>11, <1>a, <1>t DEF Look
<1>12. CASE AnswerHit(q)
  BY <1>12, <1>a, <1>t DEF AnswerHit, AnswerTo, AfterKv, AllSeen
<1>13. CASE AnswerPromotable(q)
  BY <1>13, <1>a, <1>t DEF AnswerPromotable, AnswerTo
<1>14. CASE AnswerPrefill(q)
  BY <1>14, <1>a, <1>t DEF AnswerPrefill, AnswerTo, AfterKv
<1>15. CASE PublishAnswers(q)
  BY <1>15, <1>a, <1>t DEF PublishAnswers
<1>16. CASE BeginHydration(q)
  BY <1>16, <1>a, <1>t DEF BeginHydration, looking
<1>17. CASE AskIdle(q)
  BY <1>17, <1>a, <1>t DEF AskIdle, looking
<1>18. CASE FindPresent(q)
  <2>1. tgt[q] \in Targets
    BY <1>18, <1>t, PlaceType DEF FindPresent, Advance, Goto, InWorker
  <2>4. Brought(q)
    BY <1>18, <1>m, <2>1 DEF FindPresent, Here, Cached, Brought, memory
  <2>5. (tgt[q] < N \/ tgt[q] = N) /\ ~(tgt[q] < N /\ tgt[q] = N)
    BY <2>1, TargetFacts DEF Targets
  <2>6. /\ pc[q] \in {"check", "fill"} /\ UNCHANGED prefill
        /\ tgt[q] < N => /\ pc'[q] = "check" /\ phase'[q] = phase[q]
                         /\ tgt'[q] = tgt[q] + 1
        /\ tgt[q] = N => /\ pc'[q] = IF phase[q] = "kv" THEN "record"
                                     ELSE "inspect"
                         /\ phase'[q] = "weights"
    BY <1>18, <1>a, <2>5 DEF FindPresent, Advance, NextTarget, looking
  <2> QED
    BY <1>a, <2>4, <2>5, <2>6
<1>19. CASE CheckSpace(q)
  BY <1>19, <1>a, <1>t DEF CheckSpace, Prune, looking
<1>20. CASE Fill(q)
  <2>1. tgt[q] \in Targets /\ Place(q) \in Nodes /\ PathOf[tgt[q]] \in Paths
    BY <1>20, <1>t, PlaceType DEF Fill, Advance, Goto, InWorker
  <2>2. phase[q] = "kv" =>
            at' = [at EXCEPT ![Place(q)][PathOf[tgt[q]]] = tgt[q]]
    BY <1>20 DEF Fill, Bring
  <2>3. phase[q] # "kv" => weights' = [weights EXCEPT ![Place(q)] = TRUE]
    BY <1>20 DEF Fill, Bring
  <2>4. Brought(q)
    BY <1>m, <2>1, <2>2, <2>3 DEF Brought
  <2>5. (tgt[q] < N \/ tgt[q] = N) /\ ~(tgt[q] < N /\ tgt[q] = N)
    BY <2>1, TargetFacts DEF Targets
  <2>6. /\ pc[q] \in {"check", "fill"} /\ UNCHANGED prefill
        /\ tgt[q] < N => /\ pc'[q] = "check" /\ phase'[q] = phase[q]
                         /\ tgt'[q] = tgt[q] + 1
        /\ tgt[q] = N => /\ pc'[q] = IF phase[q] = "kv" THEN "record"
                                     ELSE "inspect"
                         /\ phase'[q] = "weights"
    BY <1>20, <1>a, <2>5 DEF Fill, Advance, NextTarget, looking
  <2> QED
    BY <1>a, <2>4, <2>5, <2>6
<1>21. CASE FillRunsOut(q)
  BY <1>21, <1>a, <1>t DEF FillRunsOut, looking
<1>22. CASE RecordRows(q)
  BY <1>22, <1>a, <1>t DEF RecordRows, looking, AfterKv
<1>23. CASE InspectWeights(q)
  BY <1>23, <1>a, <1>t DEF InspectWeights, looking
<1>24. CASE CallFails(q)
  BY <1>24, <1>a, <1>t DEF CallFails, Stops
<1>25. CASE Kill(q)
  BY <1>25, <1>a, <1>t DEF Kill, Stops
<1>26. CASE LeftFills(q)
  BY <1>26, <1>a, <1>t DEF LeftFills, Bring, looking
<1>27. CASE \/ Consider(q)
  BY <1>27, <1>a, <1>t
     DEF Consider, progress, planning, looking, memory, outside
<1>28. ASSUME NEW n \in Unsteady, Reboot(n)
      PROVE  ViewsBroughtSince(q)
  BY <1>28, <1>a, <1>t DEF Reboot, progress, planning, looking, memory, outside
<1>29. CASE OutsideStep
  BY <1>29, <1>a, <1>t, OutsideRests
<1> QED
  BY <1>1, <1>2, <1>3, <1>4, <1>5, <1>6, <1>7, <1>8, <1>9, <1>10, <1>11, <1>12,
     <1>13, <1>14, <1>15, <1>16, <1>17, <1>18, <1>19, <1>20, <1>21, <1>22,
     <1>23, <1>24, <1>25, <1>26, <1>27, <1>28, <1>29
     DEF Next, Step, OutsideStep

\* How a preparation comes to have all weights.
LEMMA StepWeightsBrought ==
    IInv /\ [Next]_vars => \A q \in Preparations : WeightsBroughtSince(q)
<1> SUFFICES ASSUME IInv, [Next]_vars, NEW q \in Preparations
             PROVE  WeightsBroughtSince(q)
  OBVIOUS
<1> USE DEF Goto, WeightsBroughtSince, InWorker, WeightsAllBrought,
            PhasesFollow
<1>t. TypeOK
  BY DEF IInv
<1>a. /\ pc \in [Preparations -> Running \cup Terminal]
      /\ best \in [Preparations -> [Targets -> Nodes] \cup {None}]
      /\ phase \in [Preparations -> {"kv", "weights"}]
         /\ tgt \in [Preparations -> Nat] /\ PhasesFollow(q)
         /\ prefill \in [Preparations -> BOOLEAN]
         /\ seen \in [Preparations -> SUBSET Targets]
  BY DEF IInv, TypeOK
<1>m. /\ at \in [Nodes -> [Paths -> Targets \cup {None}]]
      /\ weights \in [Nodes -> BOOLEAN]
  BY <1>t DEF TypeOK
<1>1. ASSUME NEW p \in Preparations \ {q},
             Step(p) \/ Kill(p) \/ LeftFills(p)
      PROVE  WeightsBroughtSince(q)
  BY <1>1, <1>a, <1>t, Frame
<1>2. CASE AskStatus(q)
  BY <1>2, <1>a, <1>t DEF AskStatus
<1>3. CASE ProbeCache(q)
  BY <1>3, <1>a, <1>t DEF ProbeCache
<1>4. CASE ProbeWeights(q)
  BY <1>4, <1>a, <1>t DEF ProbeWeights
<1>5. CASE Choose(q)
  BY <1>5, <1>a, <1>t DEF Choose
<1>6. CASE TooFewNodes(q)
  BY <1>6, <1>a, <1>t DEF TooFewNodes
<1>7. CASE Decide(q)
  BY <1>7, <1>a, <1>t DEF Decide
<1>8. CASE Resolve(q)
  BY <1>8, <1>a, <1>t DEF Resolve
<1>9. CASE OpenLookup(q)
  BY <1>9, <1>a, <1>t DEF OpenLookup
<1>10. CASE FindInvalid(q)
  BY <1>10, <1>a, <1>t DEF FindInvalid, AfterKv
<1>11. CASE Look(q)
  BY <1>11, <1>a, <1>t DEF Look
<1>12. CASE AnswerHit(q)
  BY <1>12, <1>a, <1>t DEF AnswerHit, AnswerTo, AfterKv
<1>13. CASE AnswerPromotable(q)
  BY <1>13, <1>a, <1>t DEF AnswerPromotable, AnswerTo
<1>14. CASE AnswerPrefill(q)
  BY <1>14, <1>a, <1>t DEF AnswerPrefill, AnswerTo, AfterKv
<1>15. CASE PublishAnswers(q)
  BY <1>15, <1>a, <1>t DEF PublishAnswers
<1>16. CASE BeginHydration(q)
  BY <1>16, <1>a, <1>t DEF BeginHydration
<1>17. CASE AskIdle(q)
  BY <1>17, <1>a, <1>t DEF AskIdle
<1>18. CASE FindPresent(q)
  <2>1. tgt[q] \in Targets
    BY <1>18, <1>t, PlaceType DEF FindPresent, Advance, Goto, InWorker
  <2>4. Brought(q)
    BY <1>18, <1>m, <2>1 DEF FindPresent, Here, Cached, Brought, memory
  <2>5. (tgt[q] < N \/ tgt[q] = N) /\ ~(tgt[q] < N /\ tgt[q] = N)
    BY <2>1, TargetFacts DEF Targets
  <2>6. /\ pc[q] \in {"check", "fill"} /\ UNCHANGED prefill
        /\ tgt[q] < N => /\ pc'[q] = "check" /\ phase'[q] = phase[q]
                         /\ tgt'[q] = tgt[q] + 1
        /\ tgt[q] = N => /\ pc'[q] = IF phase[q] = "kv" THEN "record"
                                     ELSE "inspect"
                         /\ phase'[q] = "weights"
    BY <1>18, <1>a, <2>5 DEF FindPresent, Advance, NextTarget, looking
  <2> QED
    BY <1>a, <2>4, <2>5, <2>6
<1>19. CASE CheckSpace(q)
  BY <1>19, <1>a, <1>t DEF CheckSpace, Prune
<1>20. CASE Fill(q)
  <2>1. tgt[q] \in Targets /\ Place(q) \in Nodes /\ PathOf[tgt[q]] \in Paths
    BY <1>20, <1>t, PlaceType DEF Fill, Advance, Goto, InWorker
  <2>2. phase[q] = "kv" =>
            at' = [at EXCEPT ![Place(q)][PathOf[tgt[q]]] = tgt[q]]
    BY <1>20 DEF Fill, Bring
  <2>3. phase[q] # "kv" => weights' = [weights EXCEPT ![Place(q)] = TRUE]
    BY <1>20 DEF Fill, Bring
  <2>4. Brought(q)
    BY <1>m, <2>1, <2>2, <2>3 DEF Brought
  <2>5. (tgt[q] < N \/ tgt[q] = N) /\ ~(tgt[q] < N /\ tgt[q] = N)
    BY <2>1, TargetFacts DEF Targets
  <2>6. /\ pc[q] \in {"check", "fill"} /\ UNCHANGED prefill
        /\ tgt[q] < N => /\ pc'[q] = "check" /\ phase'[q] = phase[q]
                         /\ tgt'[q] = tgt[q] + 1
        /\ tgt[q] = N => /\ pc'[q] = IF phase[q] = "kv" THEN "record"
                                     ELSE "inspect"
                         /\ phase'[q] = "weights"
    BY <1>20, <1>a, <2>5 DEF Fill, Advance, NextTarget, looking
  <2> QED
    BY <1>a, <2>4, <2>5, <2>6
<1>21. CASE FillRunsOut(q)
  BY <1>21, <1>a, <1>t DEF FillRunsOut
<1>22. CASE RecordRows(q)
  BY <1>22, <1>a, <1>t DEF RecordRows, AfterKv
<1>23. CASE InspectWeights(q)
  BY <1>23, <1>a, <1>t DEF InspectWeights
<1>24. CASE CallFails(q)
  BY <1>24, <1>a, <1>t DEF CallFails, Stops
<1>25. CASE Kill(q)
  BY <1>25, <1>a, <1>t DEF Kill, Stops
<1>26. CASE LeftFills(q)
  BY <1>26, <1>a, <1>t DEF LeftFills, Bring
<1>27. CASE \/ Consider(q)
  BY <1>27, <1>a, <1>t
     DEF Consider, progress, planning, looking, memory, outside
<1>28. ASSUME NEW n \in Unsteady, Reboot(n)
      PROVE  WeightsBroughtSince(q)
  BY <1>28, <1>a, <1>t DEF Reboot, progress, planning, looking, memory, outside
<1>29. CASE OutsideStep
  BY <1>29, <1>a, <1>t, OutsideRests
<1> QED
  BY <1>1, <1>2, <1>3, <1>4, <1>5, <1>6, <1>7, <1>8, <1>9, <1>10, <1>11, <1>12,
     <1>13, <1>14, <1>15, <1>16, <1>17, <1>18, <1>19, <1>20, <1>21, <1>22,
     <1>23, <1>24, <1>25, <1>26, <1>27, <1>28, <1>29
     DEF Next, Step, OutsideStep

\* Boots are only counted up.
LEMMA StepBootsGrow ==
    IInv /\ [Next]_vars =>
        \A m \in Nodes : boot'[m] >= boot[m]
<1> SUFFICES ASSUME IInv, [Next]_vars
             PROVE  \A m \in Nodes : boot'[m] >= boot[m]
  OBVIOUS
<1>a. boot \in [Nodes -> Nat] /\ Unsteady \subseteq Nodes
  BY InitAssumption DEF IInv, TypeOK
<1>1. ASSUME NEW p \in Preparations,
             \/ AskStatus(p) \/ ProbeCache(p) \/ ProbeWeights(p) \/ Choose(p)
             \/ TooFewNodes(p) \/ Consider(p) \/ Decide(p) \/ Resolve(p)
             \/ OpenLookup(p) \/ FindInvalid(p) \/ Look(p) \/ AnswerHit(p)
             \/ AnswerPromotable(p) \/ AnswerPrefill(p) \/ PublishAnswers(p)
             \/ BeginHydration(p) \/ AskIdle(p) \/ FindPresent(p)
             \/ CheckSpace(p) \/ Fill(p) \/ FillRunsOut(p) \/ RecordRows(p)
             \/ InspectWeights(p) \/ CallFails(p) \/ Kill(p) \/ LeftFills(p)
      PROVE  \A m \in Nodes : boot'[m] >= boot[m]
  BY <1>1, <1>a
     DEF AskStatus, ProbeCache, ProbeWeights, Choose, TooFewNodes, Consider,
         Decide, Resolve, OpenLookup, FindInvalid, Look, AnswerHit,
         AnswerPromotable, AnswerPrefill, PublishAnswers, BeginHydration,
         AskIdle, FindPresent, CheckSpace, Fill, FillRunsOut, RecordRows,
         InspectWeights, CallFails, Kill, LeftFills, AnswerTo, Advance, Prune,
         Bring, Stops, progress, planning, looking, memory, outside
<1>2. ASSUME NEW n \in Unsteady, Reboot(n)
      PROVE  \A m \in Nodes : boot'[m] >= boot[m]
  <2>1. n \in Nodes /\ boot' = [boot EXCEPT ![n] = boot[n] + 1]
    BY <1>2, <1>a, <1>a DEF Reboot
  <2> QED
    BY <1>a, <2>1
<1>3. CASE OutsideStep
  BY <1>3, <1>a, OutsideRests
<1> QED
  BY <1>1, <1>2, <1>3 DEF Next, Step, OutsideStep

\* A plan for other targets stays, and so does its claim to the node.
LEMMA SharingStays ==
    ASSUME IInv, [Next]_vars, NEW p \in Preparations, NEW t \in Targets,
           best'[p] = best[p], Sharing(p, t)
    PROVE  Sharing(p, t)'
BY StepFirm DEF Sharing, FirmStays

\* In the same boot as before, a step started in that boot, too.
LEMMA SameBootBefore ==
    ASSUME IInv, [Next]_vars, NEW p \in Preparations, NEW t \in Targets,
           best[p] # None, best'[p] = best[p], snap'[p] = snap[p],
           SameBoot(p, t)'
    PROVE  SameBoot(p, t) /\ boot'[best[p][t]] # boot[best[p][t]] + 1
<1>1. /\ best[p][t] \in Nodes /\ boot \in [Nodes -> Nat]
      /\ boot' \in [Nodes -> Nat]
      /\ snap[p][best[p][t]].boot \in Nat
  <2>1. TypeOK /\ TypeOK'
    BY StepType DEF IInv
  <2>2. best[p][t] \in Nodes
    BY <2>1 DEF TypeOK
  <2>3. snap[p][best[p][t]] \in Seen
    BY <2>1, <2>2 DEF TypeOK
  <2> QED
    BY <2>1, <2>2, <2>3 DEF TypeOK, Seen
<1>2. snap[p][best[p][t]].boot <= boot[best[p][t]]
  BY <1>1 DEF IInv, BootsArePast
<1>3. boot'[best[p][t]] >= boot[best[p][t]]
  BY <1>1, StepBootsGrow
<1> QED
  BY <1>1, <1>2, <1>3 DEF SameBoot

\* A view that stands keeps standing.
LEMMA ViewKeepsStanding ==
    ASSUME IInv, [Next]_vars, NEW p \in Preparations, NEW t \in Targets,
           best[p] # None, best'[p] = best[p], snap'[p] = snap[p],
           ViewStands(p, t)
    PROVE  ViewStands(p, t)'
<1> SUFFICES ASSUME SameBoot(p, t)'
             PROVE  Sharing(p, t)' \/ Cached(best[p][t], t)'
  BY DEF ViewStands
<1>1. SameBoot(p, t) /\ boot'[best[p][t]] # boot[best[p][t]] + 1
  BY SameBootBefore
<1>2. CASE Sharing(p, t)
  BY <1>2, SharingStays
<1>3. CASE Cached(best[p][t], t)
  <2>1. best[p][t] \in Nodes
    BY DEF IInv, TypeOK
  <2>2. ASSUME NEW q \in Preparations, CheckSpace(q), phase[q] = "kv",
               best[p][t] = Place(q), tgt[q] # t
        PROVE  Sharing(p, t)'
    <3>1. pc[q] = "check"
      BY <2>2 DEF CheckSpace, Goto
    <3>2. tgt[q] \in Targets /\ best[q] # None /\ Place(q) = best[q][tgt[q]]
      BY <3>1, PlaceType, NoneAssumption DEF InWorker, IInv, TypeOK
    <3>3. q # p
      BY <2>2, <3>2 DEF IInv, PlansAreApart
    <3>4. Firm(q)' /\ best'[q] = best[q]
      BY <3>1, StepFirm DEF FirmStays, Firm, Discovering
    <3> QED
      BY <2>2, <3>2, <3>3, <3>4 DEF Sharing
  <2> QED
    BY <1>1, <1>3, <2>1, <2>2, StepViewsGo DEF ViewsGo
<1> QED
  BY <1>1, <1>2, <1>3 DEF ViewStands

\* Weights that stand keep standing.
LEMMA WeightsKeepStanding ==
    ASSUME IInv, [Next]_vars, NEW p \in Preparations, NEW t \in Targets,
           best[p] # None, best'[p] = best[p], snap'[p] = snap[p],
           WeightsStand(p, t)
    PROVE  WeightsStand(p, t)'
<1> SUFFICES ASSUME SameBoot(p, t)' PROVE weights'[best[p][t]]
  BY DEF WeightsStand
<1>1. SameBoot(p, t) /\ boot'[best[p][t]] # boot[best[p][t]] + 1
  BY SameBootBefore
<1>2. best[p][t] \in Nodes
  BY DEF IInv, TypeOK
<1> QED
  BY <1>1, <1>2, StepWeightsGo DEF WeightsStand, WeightsGo

\* A preparation that is at work has a plan and keeps what it saw.
LEMMA AtWork ==
    ASSUME IInv, [Next]_vars, NEW p \in Preparations,
           \/ pc[p] \in {"look", "record", "ask", "inspect"} \cup InWorker
           \/ pc[p] = "done",
           pc'[p] \notin {"failed", "left"},
           best[p] # None
    PROVE  /\ best'[p] = best[p] /\ snap'[p] = snap[p]
           /\ best[p] \in [Targets -> Nodes]
           /\ \A t \in Targets :
                  /\ ViewStands(p, t) => ViewStands(p, t)'
                  /\ WeightsStand(p, t) => WeightsStand(p, t)'
<1>1. best'[p] = best[p] /\ snap'[p] = snap[p]
  BY StepFirm DEF FirmStays, Firm, Discovering, InWorker
<1>2. best[p] \in [Targets -> Nodes]
  BY DEF IInv, TypeOK
<1> QED
  BY <1>1, <1>2, ViewKeepsStanding, WeightsKeepStanding

\* What a lookup saw stands.
LEMMA StepSeenStands ==
    IInv /\ [Next]_vars => \A q \in Preparations : SeenStands(q)'
<1> SUFFICES ASSUME IInv, [Next]_vars, NEW q \in Preparations
             PROVE  SeenStands(q)'
  OBVIOUS
<1>t. /\ TypeOK /\ PhasesFollow(q) /\ SeenStands(q) /\ ViewsSoFar(q)
      /\ ViewsAllStand(q) /\ WeightsSoFar(q) /\ WeightsAllStand(q)
  BY DEF IInv
<1> SUFFICES ASSUME pc'[q] = "look", NEW t \in seen'[q]
             PROVE  ViewStands(q, t)'
  BY DEF SeenStands
<1>1. LookingSince(q)
  BY StepLookingSince
<1>2. pc[q] = "look" /\ best[q] # None
  BY <1>1, <1>t DEF LookingSince, TypeOK, Planned
<1>3. /\ best'[q] = best[q]
      /\ \A s \in Targets : ViewStands(q, s) => ViewStands(q, s)'
  BY <1>2, AtWork
<1>4. CASE t \in seen[q]
  BY <1>2, <1>3, <1>4, <1>t DEF SeenStands, TypeOK
<1>5. CASE t \notin seen[q]
  <2>1. t = tgt[q] /\ t \in Targets /\ Cached(Place(q), tgt[q])
    BY <1>1, <1>2, <1>5 DEF LookingSince
  <2>2. ViewStands(q, t)
    BY <2>1 DEF ViewStands, Place
  <2> QED
    BY <1>3, <2>1, <2>2
<1> QED
  BY <1>4, <1>5

\* The views that a preparation has brought so far stand.
LEMMA StepViewsSoFar ==
    IInv /\ [Next]_vars => \A q \in Preparations : ViewsSoFar(q)'
<1> SUFFICES ASSUME IInv, [Next]_vars, NEW q \in Preparations
             PROVE  ViewsSoFar(q)'
  OBVIOUS
<1>t. /\ TypeOK /\ PhasesFollow(q) /\ SeenStands(q) /\ ViewsSoFar(q)
      /\ ViewsAllStand(q) /\ WeightsSoFar(q) /\ WeightsAllStand(q)
  BY DEF IInv
<1> SUFFICES ASSUME pc'[q] \in InWorker, phase'[q] = "kv",
                    NEW t \in Targets, t < tgt'[q]
             PROVE  ViewStands(q, t)'
  BY DEF ViewsSoFar
<1>1. WorkingSince(q)
  BY StepWorkingSince
<1>2. pc[q] \in InWorker /\ phase[q] = "kv"
  BY <1>1, TargetFacts DEF WorkingSince, Targets
<1>3. /\ tgt[q] \in Targets /\ Place(q) = best[q][tgt[q]] /\ best[q] # None
  BY <1>2, <1>t, PlaceType, NoneAssumption
<1>4. /\ best'[q] = best[q]
      /\ \A s \in Targets : ViewStands(q, s) => ViewStands(q, s)'
  BY <1>2, <1>3, AtWork DEF InWorker
<1>5. CASE t < tgt[q]
  BY <1>2, <1>4, <1>5, <1>t DEF ViewsSoFar
<1>6. CASE ~(t < tgt[q])
  <2>1. tgt'[q] = tgt[q] \/ (tgt'[q] = tgt[q] + 1 /\ Brought(q))
    BY <1>1, <1>2 DEF WorkingSince, InWorker
  <2>2. t \in Nat /\ tgt[q] \in Nat
    BY <1>3, TargetFacts
  <2>3. t = tgt[q] /\ Brought(q)
    BY <1>6, <2>1, <2>2
  <2> QED
    BY <1>2, <1>3, <1>4, <2>3 DEF Brought, ViewStands, Cached
<1> QED
  BY <1>5, <1>6

\* The weights that a preparation has brought so far stand.
LEMMA StepWeightsSoFar ==
    IInv /\ [Next]_vars => \A q \in Preparations : WeightsSoFar(q)'
<1> SUFFICES ASSUME IInv, [Next]_vars, NEW q \in Preparations
             PROVE  WeightsSoFar(q)'
  OBVIOUS
<1>t. /\ TypeOK /\ PhasesFollow(q) /\ SeenStands(q) /\ ViewsSoFar(q)
      /\ ViewsAllStand(q) /\ WeightsSoFar(q) /\ WeightsAllStand(q)
  BY DEF IInv
<1> SUFFICES ASSUME pc'[q] \in InWorker, phase'[q] = "weights",
                    NEW t \in Targets, t < tgt'[q]
             PROVE  WeightsStand(q, t)'
  BY DEF WeightsSoFar
<1>1. WorkingSince(q)
  BY StepWorkingSince
<1>2. pc[q] \in InWorker /\ phase[q] = "weights"
  BY <1>1, TargetFacts DEF WorkingSince, Targets
<1>3. /\ tgt[q] \in Targets /\ Place(q) = best[q][tgt[q]] /\ best[q] # None
  BY <1>2, <1>t, PlaceType, NoneAssumption
<1>4. /\ best'[q] = best[q]
      /\ \A s \in Targets : WeightsStand(q, s) => WeightsStand(q, s)'
  BY <1>2, <1>3, AtWork DEF InWorker
<1>5. CASE t < tgt[q]
  BY <1>2, <1>4, <1>5, <1>t DEF WeightsSoFar
<1>6. CASE ~(t < tgt[q])
  <2>1. tgt'[q] = tgt[q] \/ (tgt'[q] = tgt[q] + 1 /\ Brought(q))
    BY <1>1, <1>2 DEF WorkingSince, InWorker
  <2>2. t \in Nat /\ tgt[q] \in Nat
    BY <1>3, TargetFacts
  <2>3. t = tgt[q] /\ Brought(q)
    BY <1>6, <2>1, <2>2
  <2> QED
    BY <1>2, <1>3, <1>4, <2>3 DEF Brought, WeightsStand
<1> QED
  BY <1>5, <1>6

\* The views of a preparation that has brought them all stand.
LEMMA StepViewsAllStand ==
    IInv /\ [Next]_vars => \A q \in Preparations : ViewsAllStand(q)'
<1> SUFFICES ASSUME IInv, [Next]_vars, NEW q \in Preparations
             PROVE  ViewsAllStand(q)'
  OBVIOUS
<1>t. /\ TypeOK /\ PhasesFollow(q) /\ SeenStands(q) /\ ViewsSoFar(q)
      /\ ViewsAllStand(q) /\ WeightsSoFar(q) /\ WeightsAllStand(q)
  BY DEF IInv
<1> SUFFICES ASSUME ViewsAllBrought(q)', NEW t \in Targets
             PROVE  ViewStands(q, t)'
  BY DEF ViewsAllStand
<1>1. ViewsBroughtSince(q)
  BY StepViewsBrought
<1>2. /\ \/ pc[q] \in {"look", "record", "ask", "inspect"} \cup InWorker
         \/ pc[q] = "done"
      /\ pc'[q] \notin {"failed", "left"}
  BY <1>1 DEF ViewsBroughtSince, ViewsAllBrought, InWorker
<1>3. CASE best[q] # None
  <2>1. /\ best'[q] = best[q]
        /\ \A s \in Targets : ViewStands(q, s) => ViewStands(q, s)'
    BY <1>2, <1>3, AtWork
  <2>2. CASE ViewsAllBrought(q)
    BY <2>1, <2>2, <1>t DEF ViewsAllStand
  <2>3. CASE pc[q] = "look" /\ seen[q] = Targets
    BY <2>1, <2>3, <1>t DEF SeenStands
  <2>4. CASE pc[q] \in InWorker /\ phase[q] = "kv" /\ tgt[q] = N /\ Brought(q)
    <3>1. Place(q) = best[q][tgt[q]]
      BY <2>4, <1>t, PlaceType
    <3>2. CASE t < tgt[q]
      BY <2>1, <2>4, <3>2, <1>t DEF ViewsSoFar
    <3>3. CASE t = tgt[q]
      BY <2>1, <2>4, <3>1, <3>3 DEF Brought, ViewStands, Cached
    <3> QED
      BY <2>4, <3>2, <3>3, TargetFacts
  <2> QED
    BY <1>1, <2>2, <2>3, <2>4 DEF ViewsBroughtSince
<1>4. CASE best[q] = None
  BY <1>1, <1>4, <1>t DEF ViewsBroughtSince, ViewsAllBrought, TypeOK, Planned
<1> QED
  BY <1>3, <1>4

\* The weights of a preparation that has brought them all stand.
LEMMA StepWeightsAllStand ==
    IInv /\ [Next]_vars => \A q \in Preparations : WeightsAllStand(q)'
<1> SUFFICES ASSUME IInv, [Next]_vars, NEW q \in Preparations
             PROVE  WeightsAllStand(q)'
  OBVIOUS
<1>t. /\ TypeOK /\ PhasesFollow(q) /\ SeenStands(q) /\ ViewsSoFar(q)
      /\ ViewsAllStand(q) /\ WeightsSoFar(q) /\ WeightsAllStand(q)
  BY DEF IInv
<1> SUFFICES ASSUME WeightsAllBrought(q)', NEW t \in Targets
             PROVE  WeightsStand(q, t)'
  BY DEF WeightsAllStand
<1>1. WeightsBroughtSince(q)
  BY StepWeightsBrought
<1>2. /\ pc[q] \in {"inspect", "done"} \cup InWorker
      /\ pc'[q] \notin {"failed", "left"}
  BY <1>1 DEF WeightsBroughtSince, WeightsAllBrought
<1>3. CASE best[q] # None
  <2>1. /\ best'[q] = best[q]
        /\ \A s \in Targets : WeightsStand(q, s) => WeightsStand(q, s)'
    BY <1>2, <1>3, AtWork
  <2>2. CASE WeightsAllBrought(q)
    BY <2>1, <2>2, <1>t DEF WeightsAllStand
  <2>3. CASE /\ pc[q] \in InWorker /\ phase[q] = "weights" /\ tgt[q] = N
             /\ Brought(q)
    <3>1. Place(q) = best[q][tgt[q]]
      BY <2>3, <1>t, PlaceType
    <3>2. CASE t < tgt[q]
      BY <2>1, <2>3, <3>2, <1>t DEF WeightsSoFar
    <3>3. CASE t = tgt[q]
      BY <2>1, <2>3, <3>1, <3>3 DEF Brought, WeightsStand
    <3> QED
      BY <2>3, <3>2, <3>3, TargetFacts
  <2> QED
    BY <1>1, <2>2, <2>3 DEF WeightsBroughtSince
<1>4. CASE best[q] = None
  BY <1>1, <1>4, <1>t
     DEF WeightsBroughtSince, WeightsAllBrought, TypeOK, Planned
<1> QED
  BY <1>3, <1>4

\* Only a worker finds too little memory.
LEMMA StepShortOnce ==
    IInv /\ [Next]_vars => \A q \in Preparations : ShortOnce(q)
<1> SUFFICES ASSUME IInv, [Next]_vars, NEW q \in Preparations
             PROVE  ShortOnce(q)
  OBVIOUS
<1> USE DEF Goto, ShortOnce
<1>t. TypeOK
  BY DEF IInv
<1>a. /\ pc \in [Preparations -> Running \cup Terminal]
      /\ best \in [Preparations -> [Targets -> Nodes] \cup {None}]
      /\ TRUE
  BY DEF IInv, TypeOK
<1>1. ASSUME NEW p \in Preparations \ {q},
             Step(p) \/ Kill(p) \/ LeftFills(p)
      PROVE  ShortOnce(q)
  BY <1>1, <1>a, <1>t, Frame
<1>2. CASE AskStatus(q)
  BY <1>2, <1>a, <1>t DEF AskStatus
<1>3. CASE ProbeCache(q)
  BY <1>3, <1>a, <1>t DEF ProbeCache
<1>4. CASE ProbeWeights(q)
  BY <1>4, <1>a, <1>t DEF ProbeWeights
<1>5. CASE Choose(q)
  BY <1>5, <1>a, <1>t DEF Choose
<1>6. CASE TooFewNodes(q)
  BY <1>6, <1>a, <1>t DEF TooFewNodes
<1>7. CASE Decide(q)
  BY <1>7, <1>a, <1>t DEF Decide
<1>8. CASE Resolve(q)
  BY <1>8, <1>a, <1>t DEF Resolve
<1>9. CASE OpenLookup(q)
  BY <1>9, <1>a, <1>t DEF OpenLookup
<1>10. CASE FindInvalid(q)
  BY <1>10, <1>a, <1>t DEF FindInvalid, AfterKv
<1>11. CASE Look(q)
  BY <1>11, <1>a, <1>t DEF Look
<1>12. CASE AnswerHit(q)
  BY <1>12, <1>a, <1>t DEF AnswerHit, AnswerTo, AfterKv
<1>13. CASE AnswerPromotable(q)
  BY <1>13, <1>a, <1>t DEF AnswerPromotable, AnswerTo
<1>14. CASE AnswerPrefill(q)
  BY <1>14, <1>a, <1>t DEF AnswerPrefill, AnswerTo, AfterKv
<1>15. CASE PublishAnswers(q)
  BY <1>15, <1>a, <1>t DEF PublishAnswers
<1>16. CASE BeginHydration(q)
  BY <1>16, <1>a, <1>t DEF BeginHydration
<1>17. CASE AskIdle(q)
  BY <1>17, <1>a, <1>t DEF AskIdle
<1>18. CASE FindPresent(q)
  BY <1>18, <1>a, <1>t DEF FindPresent, Advance
<1>19. CASE CheckSpace(q)
  <2>1. FreeAfterPruning(q) \in Nat /\ Size(q) \in Nat /\ Reserve(q) \in Nat
    BY <1>19, <1>t, PlaceType DEF CheckSpace, InWorker
  <2> QED
    BY <1>19, <1>a, <2>1 DEF CheckSpace
<1>20. CASE Fill(q)
  BY <1>20, <1>a, <1>t DEF Fill, Advance, Bring
<1>21. CASE FillRunsOut(q)
  <2>1. Size(q) \in Nat /\ free[Place(q)] \in Nat
    BY <1>21, <1>t, PlaceType DEF FillRunsOut, InWorker, TypeOK
  <2> QED
    BY <1>21, <1>a, <2>1 DEF FillRunsOut
<1>22. CASE RecordRows(q)
  BY <1>22, <1>a, <1>t DEF RecordRows, AfterKv
<1>23. CASE InspectWeights(q)
  BY <1>23, <1>a, <1>t DEF InspectWeights
<1>24. CASE CallFails(q)
  BY <1>24, <1>a, <1>t DEF CallFails, Stops
<1>25. CASE Kill(q)
  BY <1>25, <1>a, <1>t DEF Kill, Stops
<1>26. CASE LeftFills(q)
  BY <1>26, <1>a, <1>t DEF LeftFills, Bring
<1>27. CASE \/ Consider(q)
  BY <1>27, <1>a, <1>t
     DEF Consider, progress, planning, looking, memory, outside
<1>28. ASSUME NEW n \in Unsteady, Reboot(n)
      PROVE  ShortOnce(q)
  BY <1>28, <1>a, <1>t DEF Reboot, progress, planning, looking, memory, outside
<1>29. CASE OutsideStep
  BY <1>29, <1>a, <1>t, OutsideRests
<1> QED
  BY <1>1, <1>2, <1>3, <1>4, <1>5, <1>6, <1>7, <1>8, <1>9, <1>10, <1>11, <1>12,
     <1>13, <1>14, <1>15, <1>16, <1>17, <1>18, <1>19, <1>20, <1>21, <1>22,
     <1>23, <1>24, <1>25, <1>26, <1>27, <1>28, <1>29
     DEF Next, Step, OutsideStep

\* Every step keeps the invariant.
LEMMA StepInv == IInv /\ [Next]_vars => IInv'
<1> SUFFICES ASSUME IInv, [Next]_vars PROVE IInv'
  OBVIOUS
<1>1. TypeOK'
  BY StepType DEF IInv
<1>2. \A q \in Preparations :
          /\ NoPlanYet(q)'
          /\ PlanFits(q)'
          /\ PlansAreApart(q)'
          /\ BootsArePast(q)'
          /\ PhasesFollow(q)'
          /\ FillerIsAlone(q)'
          /\ SeenStands(q)'
          /\ ViewsSoFar(q)'
          /\ ViewsAllStand(q)'
          /\ WeightsSoFar(q)'
          /\ WeightsAllStand(q)'
  BY StepNoPlanYet, StepPlanFits, StepPlansAreApart, StepBootsArePast,
     StepPhasesFollow, StepFillerIsAlone, StepSeenStands, StepViewsSoFar,
     StepViewsAllStand, StepWeightsSoFar, StepWeightsAllStand
<1> QED
  BY <1>1, <1>2 DEF IInv

\* So it holds in every state.
LEMMA Invariant == Spec => []IInv
<1>1. Init => IInv
  BY InitInv
<1>2. IInv /\ [Next]_vars => IInv'
  BY StepInv
<1> QED
  BY <1>1, <1>2, PTL DEF Spec

\* The state of preparations, registry and nodes stays well-formed.
THEOREM TypeCorrect == Spec => []TypeOK
<1>1. IInv => TypeOK
  BY DEF IInv
<1> QED
  BY <1>1, Invariant, PTL

\* A preparation that is done has left every view and the weights of its plan
\* on their nodes, as far as nobody else and no reboot took them.
THEOREM DoneIsReady == Spec => []DoneIsPrepared
<1>1. IInv => DoneIsPrepared
  <2> SUFFICES ASSUME IInv, NEW p \in Preparations, pc[p] = "done",
                      NEW t \in Targets, SameBoot(p, t)
               PROVE  /\ WeightsEnabled => weights[best[p][t]]
                      /\ prefill[p] \/ Shared(p, t) \/ Cached(best[p][t], t)
    BY DEF DoneIsPrepared, SameBoot
  <2>1. /\ phase[p] = "weights" /\ PhasesFollow(p)
        /\ ViewsAllStand(p) /\ WeightsAllStand(p)
    BY DEF IInv, PhasesFollow
  <2>2. WeightsEnabled => weights[best[p][t]]
    BY <2>1 DEF WeightsAllStand, WeightsAllBrought, WeightsStand
  <2>3. ~prefill[p] => Sharing(p, t) \/ Cached(best[p][t], t)
    BY <2>1 DEF ViewsAllStand, ViewsAllBrought, ViewStands
  <2>4. Sharing(p, t) => Shared(p, t)
    BY DEF Sharing, Shared
  <2> QED
    BY <2>2, <2>3, <2>4
<1> QED
  BY <1>1, Invariant, PTL

\* A worker that finds too little memory on a node finds less than was there
\* when the plan was made.
THEOREM ShortagesAreOthers == Spec => ShortageIsOthers
<1> DEFINE Taken(p) ==
        pc[p] # "no_space" /\ pc'[p] = "no_space" =>
            free[Place(p)] + Held(p, tgt[p])
                < snap[p][Place(p)].free + Found(p, tgt[p])
<1>1. IInv /\ [Next]_vars => \A p \in Preparations : Taken(p)
  <2> SUFFICES ASSUME IInv, [Next]_vars, NEW p \in Preparations,
                      pc[p] # "no_space", pc'[p] = "no_space"
               PROVE  free[Place(p)] + Held(p, tgt[p])
                          < snap[p][Place(p)].free + Found(p, tgt[p])
    OBVIOUS
  <2> DEFINE n == Place(p)
             t == tgt[p]
             s == snap[p][n]
  <2>1. /\ pc[p] \in InWorker /\ ~Here(p)
        /\ \/ FreeAfterPruning(p) < Size(p) + Reserve(p)
           \/ free[n] < Size(p)
    BY StepShortOnce DEF ShortOnce, InWorker, IInv, FillerIsAlone
  <2>2. /\ t \in Targets /\ n \in Nodes /\ n = best[p][t]
        /\ Size(p) \in Nat /\ Reserve(p) \in Nat
        /\ OthersView(p) \in Targets \cup {None}
        /\ best[p] # None
    BY <2>1, PlaceType, NoneAssumption DEF IInv
  <2>3. s \in Seen /\ free[n] \in Nat
    BY <2>2 DEF IInv, TypeOK
  <2>4. /\ Bytes[t] \in Nat /\ ModelBytes \in Nat
        /\ KvReserve \in Nat /\ WeightReserve \in Nat
        /\ MaxReserve \in Nat /\ Reserve(p) <= MaxReserve
    BY <2>2, TargetAssumption, ByteAssumption DEF MaxReserve, Reserve
  <2>5. free[n] < Size(p) + Reserve(p)
    <3>1. free[n] <= FreeAfterPruning(p) /\ FreeAfterPruning(p) \in Nat
      BY <2>2, <2>3, TargetAssumption DEF FreeAfterPruning
    <3> QED
      BY <2>1, <2>2, <2>3, <3>1
  <2>6. Held(p, t) + Size(p) <= Bytes[t] + ModelBytes /\ Held(p, t) \in Nat
    BY <2>1, <2>2, <2>4 DEF Here, Size, Held
  <2>7. s.free >= Needed(p, t, n)
    BY <2>1, <2>2 DEF IInv, PlanFits, Planned, Fits
  <2>8. s.free + Found(p, t) >= MaxReserve + Bytes[t] + ModelBytes
    <3> HIDE DEF t, n
    <3>1. s.free \in Nat
      BY <2>3 DEF Seen
    <3> QED
      BY <2>2, <2>4, <2>7, <3>1 DEF Needed, Found
  <2> HIDE DEF n, t, s
  <2>9. s.free + Found(p, t) \in Nat
    BY <2>2, <2>3, <2>4 DEF Found, Seen, s
  <2>10. Held(p, t) + free[n] < Bytes[t] + ModelBytes + MaxReserve
    BY <2>2, <2>3, <2>4, <2>5, <2>6
  <2>11. free[n] + Held(p, t) < s.free + Found(p, t)
    BY <2>3, <2>4, <2>6, <2>8, <2>9, <2>10
  <2> QED
    BY <2>11 DEF n, t, s
<1>2. IInv /\ [Next]_vars => [\A p \in Preparations : Taken(p)]_vars
  BY <1>1
<1> QED
  BY <1>2, Invariant, PTL DEF Spec, ShortageIsOthers

-----------------------------------------------------------------------------
(***************************************************************************)
(* The plan is the best: the loop has considered some assignments, in its  *)
(* order, and its plan outdoes the others of them.                         *)
(***************************************************************************)

\* Scores are four numbers.
Scores == [1..4 -> Nat]

\* The order of scores is transitive.
LEMMA ExceedsTransitive ==
    ASSUME NEW s \in Scores, NEW r \in Scores, NEW u \in Scores,
           Exceeds(s, r), Exceeds(r, u)
    PROVE  Exceeds(s, u)
<1>0. DOMAIN s = 1..4 /\ DOMAIN r = 1..4
  BY DEF Scores
<1>1. PICK i \in 1..4 : s[i] > r[i] /\ \A j \in 1..i - 1 : s[j] = r[j]
  BY <1>0 DEF Exceeds
<1>2. PICK k \in 1..4 : r[k] > u[k] /\ \A j \in 1..k - 1 : r[j] = u[j]
  BY <1>0 DEF Exceeds
<1>3. \A j \in 1..4 : s[j] \in Nat /\ r[j] \in Nat /\ u[j] \in Nat
  BY DEF Scores
<1>4. CASE i <= k
  <2>1. s[i] > u[i] /\ \A j \in 1..i - 1 : s[j] = u[j]
    BY <1>1, <1>2, <1>3, <1>4
  <2> QED
    BY <1>0, <2>1 DEF Exceeds
<1>5. CASE k < i
  <2>1. s[k] > u[k] /\ \A j \in 1..k - 1 : s[j] = u[j]
    BY <1>1, <1>2, <1>3, <1>5
  <2> QED
    BY <1>0, <2>1 DEF Exceeds
<1> QED
  BY <1>4, <1>5

\* Of two different scores one exceeds the other.
LEMMA ExceedsTotal ==
    ASSUME NEW s \in Scores, NEW r \in Scores, s # r, ~Exceeds(s, r)
    PROVE  Exceeds(r, s)
<1>0. DOMAIN s = 1..4 /\ DOMAIN r = 1..4
  BY DEF Scores
<1> DEFINE D == {i \in 1..4 : s[i] # r[i]}
<1>1. D # {} /\ D \subseteq Nat
  BY DEF Scores
<1>2. PICK i \in D : \A j \in D : i <= j
  <2> HIDE DEF D
  <2> QED
    BY <1>1, LeastNumber
<1>3. i \in 1..4 /\ s[i] # r[i] /\ \A j \in 1..i - 1 : s[j] = r[j]
  BY <1>2
<1>4. s[i] \in Nat /\ r[i] \in Nat
  BY <1>3 DEF Scores
<1>5. ~(s[i] > r[i])
  BY <1>0, <1>3 DEF Exceeds
<1>6. r[i] > s[i]
  BY <1>3, <1>4, <1>5
<1> QED
  BY <1>0, <1>3, <1>6 DEF Exceeds

\* An assignment's score.
LEMMA ScoreType ==
    ASSUME TypeOK, NEW p \in Preparations, NEW a \in [Targets -> Nodes]
    PROVE  Score(p, a) \in Scores
<1>1. ASSUME NEW T \in SUBSET Targets PROVE Cardinality(T) \in Nat
  <2>1. IsFiniteSet(1..N)
    BY TargetAssumption, FS_Interval
  <2>2. IsFiniteSet(T)
    BY <2>1, FS_Subset DEF Targets
  <2> QED
    BY <2>2, FS_CardinalityType
<1>2. ASSUME NEW f \in [Targets -> Nat] PROVE SumOf(f) \in Nat
  <2>1. f \in Seq(Nat) /\ Len(f) = N
    BY TargetAssumption DEF Targets
  <2>2. PartialSums(f) \in [0..N -> Nat]
    BY <2>1, PartialSumsDef
  <2> QED
    BY <2>1, <2>2, TargetAssumption DEF SumOf
<1>3. /\ Cardinality({t \in Targets : t \in snap[p][a[t]].cached}) \in Nat
      /\ Cardinality({t \in Targets : snap[p][a[t]].weights}) \in Nat
  BY <1>1
<1>4. [t \in Targets |-> Left[a[t]]] \in [Targets -> Nat]
  BY NodeAssumption
<1>5. [t \in Targets |-> snap[p][a[t]].free] \in [Targets -> Nat]
  BY DEF TypeOK, Seen
<1>6. /\ SumOf([t \in Targets |-> Left[a[t]]]) \in Nat
      /\ SumOf([t \in Targets |-> snap[p][a[t]].free]) \in Nat
  BY <1>2, <1>4, <1>5
<1> QED
  BY <1>3, <1>6 DEF Score, Scores

-----------------------------------------------------------------------------
\* The assignments a preparation has considered, in the order of the loop, and
\* its plan, the best of them.
Considered(p) == Assignments(p) \ todo[p]
ConsidersInOrder(p) ==
    pc[p] = "assign" =>
        /\ todo[p] \subseteq Assignments(p)
        /\ \A a \in Considered(p), b \in todo[p] : Before(p, a, b)
Outdoes(p, a, b) ==
    \/ Exceeds(Score(p, a), Score(p, b))
    \/ Score(p, a) = Score(p, b) /\ Before(p, a, b)
BestSoFar(p) ==
    IF best[p] = None THEN \A a \in Considered(p) : ~Fits(p, a)
    ELSE /\ best[p] \in Considered(p) /\ Fits(p, best[p])
         /\ \A a \in Considered(p) \ {best[p]} :
                Fits(p, a) => Outdoes(p, best[p], a)
HasBest(p) == pc[p] \in {"assign", "resolve"} => BestSoFar(p)
SearchInv ==
    /\ IInv
    /\ \A p \in Preparations : ConsidersInOrder(p) /\ HasBest(p)

\* How a preparation comes to search, or goes on to.
SearchingSince(p) ==
    pc'[p] \in {"assign", "resolve"} =>
        \/ Choose(p)
        \/ Consider(p)
        \/ /\ pc[p] \in {"assign", "resolve"}
           /\ pc'[p] = "assign" => pc[p] = "assign"
           /\ snap'[p] = snap[p] /\ todo'[p] = todo[p] /\ best'[p] = best[p]

\* Only the loop of choose_placement touches its assignments and its plan.
LEMMA StepSearchingSince ==
    IInv /\ [Next]_vars => \A q \in Preparations : SearchingSince(q)
<1> SUFFICES ASSUME IInv, [Next]_vars, NEW q \in Preparations
             PROVE  SearchingSince(q)
  OBVIOUS
<1> USE DEF SearchingSince, Goto, AfterKv
<1>0. TypeOK
  BY DEF IInv
<1>1. ASSUME NEW p \in Preparations \ {q},
             Step(p) \/ Kill(p) \/ LeftFills(p)
      PROVE  SearchingSince(q)
  BY <1>1, <1>0, Frame
<1>2. CASE AskStatus(q)
  BY <1>2, <1>0 DEF AskStatus
<1>3. CASE ProbeCache(q)
  BY <1>3, <1>0 DEF ProbeCache
<1>4. CASE ProbeWeights(q)
  BY <1>4, <1>0 DEF ProbeWeights
<1>5. CASE Choose(q)
  BY <1>5, <1>0 DEF Choose
<1>6. CASE TooFewNodes(q)
  BY <1>6, <1>0 DEF TooFewNodes, planning
<1>7. CASE Consider(q)
  BY <1>7, <1>0 DEF Consider, progress
<1>8. CASE Decide(q)
  BY <1>8, <1>0 DEF Decide, planning
<1>9. CASE Resolve(q)
  BY <1>9, <1>0 DEF Resolve, planning
<1>10. CASE OpenLookup(q)
  BY <1>10, <1>0 DEF OpenLookup, planning
<1>11. CASE FindInvalid(q)
  BY <1>11, <1>0 DEF FindInvalid, planning
<1>12. CASE Look(q)
  BY <1>12, <1>0 DEF Look, planning
<1>13. CASE AnswerHit(q)
  BY <1>13, <1>0 DEF AnswerHit, AnswerTo, planning
<1>14. CASE AnswerPromotable(q)
  BY <1>14, <1>0 DEF AnswerPromotable, AnswerTo, planning
<1>15. CASE AnswerPrefill(q)
  BY <1>15, <1>0 DEF AnswerPrefill, AnswerTo, planning
<1>16. CASE PublishAnswers(q)
  BY <1>16, <1>0 DEF PublishAnswers, planning
<1>17. CASE BeginHydration(q)
  BY <1>17, <1>0 DEF BeginHydration, planning
<1>18. CASE AskIdle(q)
  BY <1>18, <1>0 DEF AskIdle, planning
<1>19. CASE FindPresent(q)
  BY <1>19, <1>0 DEF FindPresent, Advance, planning
<1>20. CASE CheckSpace(q)
  BY <1>20, <1>0 DEF CheckSpace, Prune, planning
<1>21. CASE Fill(q)
  BY <1>21, <1>0 DEF Fill, Advance, Bring, planning
<1>22. CASE FillRunsOut(q)
  BY <1>22, <1>0 DEF FillRunsOut, planning
<1>23. CASE RecordRows(q)
  BY <1>23, <1>0 DEF RecordRows, planning
<1>24. CASE InspectWeights(q)
  BY <1>24, <1>0 DEF InspectWeights, planning
<1>25. CASE CallFails(q)
  BY <1>25, <1>0 DEF CallFails, Stops, TypeOK, InWorker
<1>26. CASE Kill(q)
  BY <1>26, <1>0 DEF Kill, Stops, TypeOK, InWorker
<1>27. CASE LeftFills(q)
  BY <1>27, <1>0 DEF LeftFills, Bring, planning, TypeOK
<1>28. ASSUME NEW n \in Unsteady, Reboot(n)
      PROVE  SearchingSince(q)
  BY <1>28, <1>0 DEF Reboot, progress, planning, looking, memory, outside
<1>29. CASE OutsideStep
  BY <1>29, <1>0, OutsideRests
<1> QED
  BY <1>1, <1>2, <1>3, <1>4, <1>5, <1>6, <1>7, <1>8, <1>9, <1>10, <1>11, <1>12,
     <1>13, <1>14, <1>15, <1>16, <1>17, <1>18, <1>19, <1>20, <1>21, <1>22,
     <1>23, <1>24, <1>25, <1>26, <1>27, <1>28, <1>29
     DEF Next, Step, OutsideStep

\* What a preparation saw decides what it makes of an assignment.
LEMMA SameSight ==
    ASSUME NEW p \in Preparations, snap'[p] = snap[p]
    PROVE  /\ Assignments(p)' = Assignments(p)
           /\ \A a : /\ Fits(p, a)' <=> Fits(p, a)
                     /\ Score(p, a)' = Score(p, a)
<1>1. Assignments(p)' = Assignments(p)
  BY DEF Assignments, Eligible
<1>2. ASSUME NEW a
      PROVE  /\ Fits(p, a)' <=> Fits(p, a)
             /\ Score(p, a)' = Score(p, a)
  BY DEF Fits, Needed, Score
<1> QED
  BY <1>1, <1>2

\* Assignments give targets to nodes.
LEMMA AssignmentType ==
    ASSUME NEW p \in Preparations
    PROVE  Assignments(p) \subseteq [Targets -> Nodes]
BY DEF Assignments, Eligible

\* One more assignment is considered.
LEMMA ConsiderBest ==
    ASSUME SearchInv, NEW p \in Preparations, Consider(p)
    PROVE  ConsidersInOrder(p)' /\ HasBest(p)'
<1>0. TypeOK /\ pc[p] = "assign" /\ ConsidersInOrder(p) /\ BestSoFar(p)
  BY DEF SearchInv, IInv, Consider, HasBest
<1>1. PICK a \in todo[p] :
          /\ \A b \in todo[p] \ {a} : Before(p, a, b)
          /\ todo' = [todo EXCEPT ![p] = @ \ {a}]
          /\ best' = [best EXCEPT ![p] = IF Takes(p, a) THEN a ELSE @]
  BY DEF Consider
<1>2. snap'[p] = snap[p] /\ pc' = pc
  BY DEF Consider, progress
<1>3. /\ todo'[p] = todo[p] \ {a}
      /\ best'[p] = IF Takes(p, a) THEN a ELSE best[p]
  BY <1>0, <1>1 DEF TypeOK
<1>4. todo[p] \subseteq Assignments(p)
  BY <1>0 DEF ConsidersInOrder
<1>5. Considered(p)' = Considered(p) \cup {a} /\ a \notin Considered(p)
  BY <1>2, <1>3, <1>4, SameSight DEF Considered
<1>6. ConsidersInOrder(p)'
  <2>1. Assignments(p)' = Assignments(p)
    BY <1>2, SameSight
  <2>2. ASSUME NEW b \in Considered(p)', NEW c \in todo'[p]
        PROVE  Before(p, b, c)
    BY <1>0, <1>1, <1>3, <1>5, <2>2 DEF ConsidersInOrder
  <2> QED
    BY <1>3, <1>4, <2>1, <2>2 DEF ConsidersInOrder
<1>7. ASSUME NEW b \in Considered(p) \cup {a} PROVE Score(p, b) \in Scores
  <2>1. b \in [Targets -> Nodes]
    BY <1>4, <1>7, AssignmentType DEF Considered
  <2> QED
    BY <1>0, <2>1, ScoreType
<1>8. BestSoFar(p)'
  <2>1. \A b : /\ Fits(p, b)' <=> Fits(p, b)
               /\ Score(p, b)' = Score(p, b)
    BY <1>2, SameSight
  <2>2. a # None /\ (best[p] # None => best[p] \in Considered(p))
    <3>1. a \in [Targets -> Nodes]
      BY <1>4, AssignmentType
    <3> QED
      BY <1>0, <3>1, NoneAssumption DEF BestSoFar
  <2>3. CASE Takes(p, a)
    <3>1. best'[p] = a /\ Fits(p, a)
      BY <1>3, <2>3 DEF Takes
    <3>2. ASSUME NEW b \in Considered(p), Fits(p, b)
          PROVE  Exceeds(Score(p, a), Score(p, b))
      <4>1. best[p] # None /\ Exceeds(Score(p, a), Score(p, best[p]))
        BY <1>0, <2>3, <3>2 DEF Takes, BestSoFar
      <4>2. \/ b = best[p] \/ Score(p, best[p]) = Score(p, b)
            \/ Exceeds(Score(p, best[p]), Score(p, b))
        BY <1>0, <3>2, <4>1 DEF BestSoFar, Outdoes
      <4>3. /\ Score(p, a) \in Scores /\ Score(p, b) \in Scores
            /\ Score(p, best[p]) \in Scores
        BY <1>7, <2>2, <4>1
      <4> QED
        BY <4>1, <4>2, <4>3, ExceedsTransitive
    <3>3. ASSUME NEW b \in Considered(p)' \ {a}, Fits(p, b)
          PROVE  Exceeds(Score(p, a)', Score(p, b)')
      BY <1>5, <2>1, <3>2, <3>3
    <3> QED
      BY <1>5, <2>1, <2>2, <3>1, <3>3 DEF BestSoFar, Outdoes, Exceeds
  <2>4. CASE ~Takes(p, a)
    <3>1. best'[p] = best[p]
      BY <1>3, <2>4
    <3>2. CASE best[p] = None
      <4>1. ~Fits(p, a)
        BY <2>4, <3>2 DEF Takes
      <4> QED
        BY <1>0, <1>5, <2>1, <3>1, <3>2, <4>1 DEF BestSoFar
    <3>3. CASE best[p] # None
      <4>1. Fits(p, a) => Outdoes(p, best[p], a)
        <5>1. Fits(p, a) => ~Exceeds(Score(p, a), Score(p, best[p]))
          BY <2>4, <3>3 DEF Takes
        <5>2. Before(p, best[p], a)
          BY <1>0, <2>2, <3>3 DEF ConsidersInOrder
        <5>3. Score(p, a) \in Scores /\ Score(p, best[p]) \in Scores
          BY <1>7, <2>2, <3>3
        <5> QED
          BY <5>1, <5>2, <5>3, ExceedsTotal DEF Outdoes
      <4>2. \A b : Outdoes(p, best[p], b)' <=> Outdoes(p, best[p], b)
        BY <2>1, <3>1 DEF Outdoes, Exceeds
      <4> QED
        BY <1>0, <1>5, <2>1, <3>1, <3>3, <4>1, <4>2 DEF BestSoFar
    <3> QED
      BY <3>2, <3>3
  <2> QED
    BY <2>3, <2>4
<1> QED
  BY <1>6, <1>8 DEF HasBest

\* The search begins with everything to consider, and stands still otherwise.
LEMMA StepSearch == SearchInv /\ [Next]_vars => SearchInv'
<1> SUFFICES ASSUME SearchInv, [Next]_vars PROVE SearchInv'
  OBVIOUS
<1>1. IInv /\ IInv'
  BY StepInv DEF SearchInv
<1>2. ASSUME NEW p \in Preparations
      PROVE  ConsidersInOrder(p)' /\ HasBest(p)'
  <2>1. SearchingSince(p)
    BY <1>1, StepSearchingSince
  <2>2. CASE Choose(p)
    <3>1. pc[p] = "choose" /\ todo'[p] = Assignments(p) /\ best' = best
          /\ snap'[p] = snap[p]
      BY <1>1, <2>2 DEF Choose, Goto, IInv, TypeOK
    <3>2. best'[p] = None
      BY <1>1, <3>1 DEF IInv, NoPlanYet, Discovering
    <3>3. Assignments(p)' = Assignments(p)
      BY <3>1, SameSight
    <3> QED
      BY <3>1, <3>2, <3>3
         DEF ConsidersInOrder, HasBest, BestSoFar, Considered
  <2>3. CASE Consider(p)
    BY <2>3, ConsiderBest
  <2>4. CASE /\ pc[p] \in {"assign", "resolve"}
             /\ pc'[p] = "assign" => pc[p] = "assign"
             /\ snap'[p] = snap[p] /\ todo'[p] = todo[p]
             /\ best'[p] = best[p]
    <3>1. /\ Considered(p)' = Considered(p)
          /\ \A a : /\ Fits(p, a)' <=> Fits(p, a)
                    /\ Score(p, a)' = Score(p, a)
      BY <2>4, SameSight DEF Considered
    <3>2. \A a : Outdoes(p, best[p], a)' <=> Outdoes(p, best[p], a)
      BY <2>4, <3>1 DEF Outdoes, Exceeds
    <3>3. BestSoFar(p) => BestSoFar(p)'
      BY <2>4, <3>1, <3>2 DEF BestSoFar
    <3>4. ConsidersInOrder(p) => ConsidersInOrder(p)'
      BY <2>4, <3>1, SameSight DEF ConsidersInOrder
    <3> QED
      BY <2>4, <3>3, <3>4 DEF SearchInv, HasBest
  <2>5. CASE pc'[p] \notin {"assign", "resolve"}
    BY <2>5 DEF ConsidersInOrder, HasBest
  <2> QED
    BY <2>1, <2>2, <2>3, <2>4, <2>5 DEF SearchingSince
<1> QED
  BY <1>1, <1>2 DEF SearchInv

\* Of the assignments that fit, the plan is the best, and the first of equals.
THEOREM PlansAreBest == Spec => []PlanIsBest
<1>1. Init => SearchInv
  BY InitInv DEF Init, SearchInv, ConsidersInOrder, HasBest
<1>2. SearchInv => PlanIsBest
  BY DEF SearchInv, HasBest, BestSoFar, Considered, Outdoes, PlanIsBest
<1> QED
  BY <1>1, <1>2, StepSearch, PTL DEF Spec
=============================================================================
