---------------------------- MODULE RegistryFile ----------------------------
(***************************************************************************)
(* registry.py, _locked_registry: the transaction every function of the    *)
(* registry runs in.  A transaction opens <registry>.lock, waits for       *)
(* flock(LOCK_EX), reads the JSON file (or starts from an empty registry), *)
(* refuses a file of another schema, runs its body on the loaded value,    *)
(* writes the value to the one shared <registry>.tmp and renames it over   *)
(* the registry.  The kernel drops the flock when the file is closed or    *)
(* when the process dies.                                                  *)
(*                                                                         *)
(* The registry's contents are abstracted to the set of transactions whose *)
(* update it holds.  Each element of Txns runs once: a retry is another    *)
(* element.                                                                *)
(***************************************************************************)
EXTENDS Naturals

CONSTANTS
    Txns,       \* invocations of the functions that open the registry
    Writers,    \* those of them whose body changes an entry
    None        \* no process holds the lock

ASSUME WritersAreTxns == Writers \subseteq Txns
ASSUME NoneIsNotATxn == None \notin Txns

VARIABLES
    file,       \* the registry file
    tmp,        \* the file <registry>.tmp
    lock,       \* holder of the flock on <registry>.lock
    pc,         \* where each transaction is
    view        \* the value each transaction has loaded, and its body changed

vars == <<file, tmp, lock, pc, view>>

Forms == {"absent", "foreign", "torn", "whole"}
Contents == [form : Forms, rows : SUBSET Txns]
Whole(rows) == [form |-> "whole", rows |-> rows]
Damaged(form) == [form |-> form, rows |-> {}]

Terminal == {"returned", "raised", "crashed"}
\* The steps of a transaction that runs inside `with lock_path.open(...)`.
Holding == {"locked", "loaded", "ready", "writing", "written", "replaced",
            "unwinding"}

TypeOK ==
    /\ file \in Contents
    /\ tmp \in Contents
    /\ lock \in Txns \cup {None}
    /\ pc \in [Txns -> {"start"} \cup Holding \cup Terminal]
    /\ view \in [Txns -> SUBSET Txns]

\* A first use finds no registry, an empty one, or one of another schema.
Init ==
    /\ file \in {Damaged("absent"), Damaged("foreign"), Whole({})}
    /\ tmp = Damaged("absent")
    /\ lock = None
    /\ pc = [t \in Txns |-> "start"]
    /\ view = [t \in Txns |-> {}]

Goto(t, from, to) ==
    /\ pc[t] = from
    /\ pc' = [pc EXCEPT ![t] = to]

-----------------------------------------------------------------------------
\* Mutated forms of the operations below.
FlockShared(t) ==
    /\ Goto(t, "start", "locked")
    /\ lock' = t
    /\ UNCHANGED <<file, tmp, view>>

LoadNoDefault(t) ==
    /\ Goto(t, "locked", "loaded")
    /\ file.form \in {"absent", "whole"}
    /\ view' = [view EXCEPT ![t] = IF file.form = "absent" THEN {None}
                                   ELSE file.rows]
    /\ UNCHANGED <<file, tmp, lock>>

LoadAnySchema(t) ==
    /\ Goto(t, "locked", "loaded")
    /\ file.form # "torn"
    /\ view' = [view EXCEPT ![t] = file.rows]
    /\ UNCHANGED <<file, tmp, lock>>

ReplaceEarly(t) ==
    /\ pc[t] \in {"writing", "written"}
    /\ pc' = [pc EXCEPT ![t] = "replaced"]
    /\ file' = tmp
    /\ tmp' = Damaged("absent")
    /\ UNCHANGED <<lock, view>>

CloseLeaking(t) ==
    /\ \/ Goto(t, "replaced", "returned") /\ lock' = None
       \/ Goto(t, "unwinding", "raised") /\ UNCHANGED lock
    /\ UNCHANGED <<file, tmp, view>>

-----------------------------------------------------------------------------
\* fcntl.flock(lock, fcntl.LOCK_EX)
Flock(t) ==
    /\ Goto(t, "start", "locked")
    /\ lock = None
    /\ lock' = t
    /\ UNCHANGED <<file, tmp, view>>

\* A missing file is an empty registry.
Load(t) ==
    /\ Goto(t, "locked", "loaded")
    /\ file.form \in {"absent", "whole"}
    /\ view' = [view EXCEPT ![t] = file.rows]
    /\ UNCHANGED <<file, tmp, lock>>

\* json.loads raises on a torn file, the version test on a foreign one.
LoadRaises(t) ==
    /\ Goto(t, "locked", "unwinding")
    /\ file.form \in {"foreign", "torn"}
    /\ UNCHANGED <<file, tmp, lock, view>>

\* The caller's `with` block.  A reader's block changes nothing, and its
\* value is written back all the same.
Body(t) ==
    /\ Goto(t, "loaded", "ready")
    /\ view' = [view EXCEPT ![t] = @ \cup ({t} \cap Writers)]
    /\ UNCHANGED <<file, tmp, lock>>

\* The block raises, perhaps after it changed the loaded value.
BodyRaises(t) ==
    /\ Goto(t, "loaded", "unwinding")
    /\ view' \in {view, [view EXCEPT ![t] = @ \cup ({t} \cap Writers)]}
    /\ UNCHANGED <<file, tmp, lock>>

\* write_text opens the temporary file, truncating what was there, ...
BeginWrite(t) ==
    /\ Goto(t, "ready", "writing")
    /\ tmp' = Damaged("torn")
    /\ UNCHANGED <<file, lock, view>>

\* ... writes the value ...
FinishWrite(t) ==
    /\ Goto(t, "writing", "written")
    /\ tmp' = Whole(view[t])
    /\ UNCHANGED <<file, lock, view>>

\* ... or runs out of space on the way.
WriteRaises(t) ==
    /\ Goto(t, "writing", "unwinding")
    /\ UNCHANGED <<file, tmp, lock, view>>

\* temporary.replace(path)
Replace(t) ==
    /\ Goto(t, "written", "replaced")
    /\ file' = tmp
    /\ tmp' = Damaged("absent")
    /\ UNCHANGED <<lock, view>>

\* Leaving `with lock_path.open(...)` closes the file and drops the flock.
Close(t) ==
    /\ \/ Goto(t, "replaced", "returned")
       \/ Goto(t, "unwinding", "raised")
    /\ lock' = None
    /\ UNCHANGED <<file, tmp, view>>

\* The process is killed: the kernel closes its files.
Crash(t) ==
    /\ pc[t] \notin Terminal
    /\ pc' = [pc EXCEPT ![t] = "crashed"]
    /\ lock' = IF lock = t THEN None ELSE lock
    /\ UNCHANGED <<file, tmp, view>>

Step(t) ==
    \/ Flock(t)
    \/ Load(t) \/ LoadRaises(t)
    \/ Body(t) \/ BodyRaises(t)
    \/ BeginWrite(t) \/ FinishWrite(t) \/ WriteRaises(t)
    \/ Replace(t)
    \/ Close(t)

Done == \A t \in Txns : pc[t] \in Terminal

Next ==
    \/ \E t \in Txns : Step(t) \/ Crash(t)
    \/ Done /\ UNCHANGED vars

\* A process that is not blocked is scheduled; a waiter for the flock is
\* served when the lock is free again and again, since each holder runs once.
Fairness == \A t \in Txns : WF_vars(Step(t))

Spec == Init /\ [][Next]_vars
FairSpec == Spec /\ Fairness

-----------------------------------------------------------------------------
(***************************************************************************)
(* Properties.                                                             *)
(***************************************************************************)

\* No reader ever finds a half-written registry: the only file that is
\* written in place is the temporary one, and it is whole when it is renamed.
NeverTorn == file.form # "torn"

\* A registry of another schema is refused "instead of modifying it in
\* place", whatever transactions run against it.
ForeignUntouched == [][file.form = "foreign" => file' = file]_vars

\* The value a transaction is about to write differs from the stored one by
\* its own update at most: nothing was committed since it was loaded.  This is
\* what makes read-modify-write of the whole file safe.
FreshView ==
    \A t \in Txns :
        pc[t] \in {"loaded", "ready", "writing", "written"} =>
            /\ file.rows \subseteq view[t]
            /\ view[t] \subseteq file.rows \cup {t}

\* Every transaction ends, and when all have the lock is free, even when
\* some raised and some were killed: no one waits forever on a dead holder.
Released == <>(Done /\ lock = None)

Atomic == INSTANCE AtomicRegistry WITH
    store <- file.rows,
    answer <- [t \in Txns |-> IF pc[t] \in {"returned", "raised"}
                              THEN pc[t] ELSE "none"]

\* The lock file, the temporary file and the rename together implement the
\* atomic registry: no update is lost, an update is stored before its caller
\* returns, and a transaction that raised stored nothing.
ImplementsAtomic == Atomic!AtomicSpec
=============================================================================
