------------------------- MODULE RegistryFileProofs -------------------------
(***************************************************************************)
(* Proofs about RegistryFile for any set of transactions: the registry     *)
(* file is never torn, a foreign one is never touched, and the lock, the   *)
(* temporary file and the rename implement AtomicRegistry.                 *)
(***************************************************************************)
EXTENDS RegistryFile, TLAPS

(***************************************************************************)
(* The inductive invariant.  None of the three results is inductive alone: *)
(* that the renamed file is whole needs that the temporary file is still   *)
(* the one its writer wrote, that needs mutual exclusion, and that no      *)
(* update is lost needs that the loaded value is still the stored one.     *)
(***************************************************************************)

\* Whoever is inside the `with` block holds the flock.
HolderHasLock == \A t \in Txns : pc[t] \in Holding => lock = t

\* The value a transaction will write is the stored one and its own update.
ViewIsStored ==
    \A t \in Txns :
        /\ pc[t] = "loaded" => view[t] = file.rows
        /\ pc[t] \in {"ready", "writing", "written"} =>
               view[t] = file.rows \cup ({t} \cap Writers)

\* A finished temporary file holds its writer's value.
TmpIsView == \A t \in Txns : pc[t] = "written" => tmp = Whole(view[t])

\* A transaction that got past the load found no foreign registry.
LoadedIsOurs ==
    \A t \in Txns :
        pc[t] \in {"loaded", "ready", "writing", "written"} =>
            file.form \in {"absent", "whole"}

\* An update is stored from its rename on, and not before.
StoredSince ==
    \A t \in Txns :
        /\ t \in file.rows => pc[t] \in {"replaced", "returned", "crashed"}
        /\ t \in Writers /\ pc[t] \in {"replaced", "returned"} =>
               t \in file.rows

IInv ==
    /\ TypeOK
    /\ HolderHasLock
    /\ ViewIsStored
    /\ TmpIsView
    /\ LoadedIsOurs
    /\ StoredSince
    /\ NeverTorn

\* The invariant holds of every registry a first use may find.
LEMMA InitInv == Init => IInv
BY DEF Init, IInv, TypeOK, HolderHasLock, ViewIsStored, TmpIsView,
       LoadedIsOurs, StoredSince, NeverTorn, Contents, Forms, Whole, Damaged,
       Holding, Terminal

\* Every step of every transaction preserves the invariant.
LEMMA StepInv == IInv /\ [Next]_vars => IInv'
<1> SUFFICES ASSUME IInv, [Next]_vars PROVE IInv'
  OBVIOUS
<1> USE WritersAreTxns, NoneIsNotATxn
<1> USE DEF IInv, TypeOK, HolderHasLock, ViewIsStored, TmpIsView,
            LoadedIsOurs, StoredSince, NeverTorn, Contents, Forms, Whole,
            Damaged, Holding, Terminal, Goto
<1>1. ASSUME NEW t \in Txns, Flock(t) PROVE IInv'
  BY <1>1 DEF Flock
<1>2. ASSUME NEW t \in Txns, Load(t) PROVE IInv'
  BY <1>2 DEF Load
<1>3. ASSUME NEW t \in Txns, LoadRaises(t) PROVE IInv'
  BY <1>3 DEF LoadRaises
<1>4. ASSUME NEW t \in Txns, Body(t) PROVE IInv'
  BY <1>4 DEF Body
<1>5. ASSUME NEW t \in Txns, BodyRaises(t) PROVE IInv'
  BY <1>5 DEF BodyRaises
<1>6. ASSUME NEW t \in Txns, BeginWrite(t) PROVE IInv'
  BY <1>6 DEF BeginWrite
<1>7. ASSUME NEW t \in Txns, FinishWrite(t) PROVE IInv'
  BY <1>7 DEF FinishWrite
<1>8. ASSUME NEW t \in Txns, WriteRaises(t) PROVE IInv'
  BY <1>8 DEF WriteRaises
<1>9. ASSUME NEW t \in Txns, Replace(t) PROVE IInv'
  BY <1>9 DEF Replace
<1>10. ASSUME NEW t \in Txns, Close(t) PROVE IInv'
  BY <1>10 DEF Close
<1>11. ASSUME NEW t \in Txns, Crash(t) PROVE IInv'
  BY <1>11 DEF Crash
<1>12. CASE UNCHANGED vars
  BY <1>12 DEF vars
<1> QED
  BY <1>1, <1>2, <1>3, <1>4, <1>5, <1>6, <1>7, <1>8, <1>9, <1>10, <1>11,
     <1>12 DEF Next, Step

\* The invariant holds in every reachable state.
LEMMA Invariance == Spec => []IInv
BY InitInv, StepInv, PTL DEF Spec

\* Every variable keeps its type, whatever the transactions do.
THEOREM TypeCorrect == Spec => []TypeOK
<1>1. IInv => TypeOK
  BY DEF IInv
<1> QED
  BY <1>1, Invariance, PTL

\* No reader of the registry ever finds a half-written file.
THEOREM NoTornRegistry == Spec => []NeverTorn
<1>1. IInv => NeverTorn
  BY DEF IInv
<1> QED
  BY <1>1, Invariance, PTL

\* No update is committed between a transaction's load and its rename.
THEOREM ViewsAreFresh == Spec => []FreshView
<1>1. IInv => FreshView
  BY DEF IInv, ViewIsStored, FreshView
<1> QED
  BY <1>1, Invariance, PTL

\* A registry of another schema is never modified.
THEOREM ForeignRegistryKept == Spec => ForeignUntouched
<1>1. IInv /\ [Next]_vars => [file.form = "foreign" => file' = file]_vars
  BY DEF IInv, LoadedIsOurs, Next, Step, vars, Flock, Load, LoadRaises, Body,
         BodyRaises, BeginWrite, FinishWrite, WriteRaises, Replace, Close,
         Crash, Goto
<1> QED
  BY <1>1, Invariance, PTL DEF Spec, ForeignUntouched

-----------------------------------------------------------------------------
\* The answer of the abstract registry, read off the program counters.
Answer == [t \in Txns |-> IF pc[t] \in {"returned", "raised"}
                          THEN pc[t] ELSE "none"]

\* Initial states map to the initial state of the atomic registry.
LEMMA InitRefines == Init => Atomic!AtomicInit
BY DEF Init, Atomic!AtomicInit, Damaged, Whole

\* Replace is the commit of a writer, Close tells the caller, and every other
\* step is invisible.
LEMMA StepRefines ==
    IInv /\ [Next]_vars => [Atomic!AtomicNext]_Atomic!absVars
<1> SUFFICES ASSUME IInv, [Next]_vars
             PROVE  [Atomic!AtomicNext]_Atomic!absVars
  OBVIOUS
<1> USE WritersAreTxns, NoneIsNotATxn
<1> USE DEF Goto, Atomic!absVars
<1>1. ASSUME NEW t \in Txns, Replace(t)
      PROVE  Atomic!Commit(t) \/ UNCHANGED Atomic!absVars
  <2>1. file'.rows = file.rows \cup ({t} \cap Writers)
    BY <1>1 DEF Replace, IInv, TmpIsView, ViewIsStored, Whole
  <2>2. Answer[t] = "none" /\ Answer' = Answer
    BY <1>1 DEF Replace, Answer, IInv, TypeOK
  <2>3. t \notin file.rows
    BY <1>1 DEF Replace, IInv, StoredSince
  <2>4. CASE t \in Writers
    BY <2>1, <2>2, <2>3, <2>4 DEF Answer, Atomic!Commit
  <2>5. CASE t \notin Writers
    BY <2>1, <2>2, <2>5 DEF Answer
  <2> QED
    BY <2>4, <2>5
<1>2. ASSUME NEW t \in Txns, Close(t)
      PROVE  Atomic!Return(t) \/ Atomic!Raise(t)
  <2>1. CASE pc[t] = "replaced"
    BY <1>2, <2>1 DEF Close, IInv, TypeOK, StoredSince, Atomic!Return
  <2>2. CASE pc[t] = "unwinding"
    BY <1>2, <2>2 DEF Close, IInv, TypeOK, StoredSince, Atomic!Raise
  <2> QED
    BY <1>2, <2>1, <2>2 DEF Close
<1>3. ASSUME NEW t \in Txns,
             Flock(t) \/ Load(t) \/ LoadRaises(t) \/ Body(t) \/ BodyRaises(t)
               \/ BeginWrite(t) \/ FinishWrite(t) \/ WriteRaises(t) \/ Crash(t)
      PROVE  UNCHANGED Atomic!absVars
  BY <1>3 DEF Flock, Load, LoadRaises, Body, BodyRaises, BeginWrite,
              FinishWrite, WriteRaises, Crash, Terminal, IInv, TypeOK
<1>4. CASE UNCHANGED vars
  BY <1>4 DEF vars
<1> QED
  BY <1>1, <1>2, <1>3, <1>4 DEF Next, Step, Atomic!AtomicNext

\* The registry transactions implement the atomic registry: no update is
\* lost, and what a caller was told agrees with what is stored.
THEOREM RegistryRefines == Spec => ImplementsAtomic
BY InitRefines, StepRefines, Invariance, PTL
   DEF Spec, ImplementsAtomic, Atomic!AtomicSpec
=============================================================================
