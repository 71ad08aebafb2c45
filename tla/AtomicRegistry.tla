--------------------------- MODULE AtomicRegistry ---------------------------
(***************************************************************************)
(* What the users of registry.py are promised: every transaction on the    *)
(* registry takes effect as a whole and at one instant, or not at all.     *)
(* The store is abstracted to the set of the updates it holds, so a lost   *)
(* update is an element that disappears.  A caller that saw its            *)
(* transaction return finds the update stored; a caller that saw an        *)
(* exception finds it was not.                                             *)
(***************************************************************************)
CONSTANTS
    Txns,       \* invocations of the functions that open the registry
    Writers     \* those of them whose body changes an entry

VARIABLES
    store,      \* the updates the registry holds
    answer      \* what the caller of each transaction has been told

absVars == <<store, answer>>

AtomicInit ==
    /\ store = {}
    /\ answer = [t \in Txns |-> "none"]

\* The one instant at which an update takes effect.
Commit(t) ==
    /\ t \in Writers
    /\ answer[t] = "none"
    /\ t \notin store
    /\ store' = store \cup {t}
    /\ UNCHANGED answer

\* A writer returns only after its update took effect.
Return(t) ==
    /\ answer[t] = "none"
    /\ t \in Writers => t \in store
    /\ answer' = [answer EXCEPT ![t] = "returned"]
    /\ UNCHANGED store

\* A transaction that raises has changed nothing.
Raise(t) ==
    /\ answer[t] = "none"
    /\ t \notin store
    /\ answer' = [answer EXCEPT ![t] = "raised"]
    /\ UNCHANGED store

AtomicNext == \E t \in Txns : Commit(t) \/ Return(t) \/ Raise(t)

AtomicSpec == AtomicInit /\ [][AtomicNext]_absVars
=============================================================================
