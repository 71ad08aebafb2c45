------------------------------ MODULE LocalView ------------------------------
(***************************************************************************)
(* What a controller may rely on about one view in one node's RAM: the     *)
(* rank files of a slot at its path, or the model weights of a             *)
(* fingerprint.  Views come and go, but one that a worker has reported as  *)
(* present or installed is there until the node reboots.                   *)
(***************************************************************************)
CONSTANT
    Workers     \* those whose reports are counted

VARIABLES
    held,       \* the view is complete at its path
    told        \* the workers that have reported it since the last boot

viewVars == <<held, told>>

ViewInit ==
    /\ held \in BOOLEAN
    /\ told = {}

\* A worker installs the view, or an engine writes what was missing.
Appear ==
    /\ ~held
    /\ held' = TRUE
    /\ UNCHANGED told

\* Only a view that nobody has reported may be taken away.
Withdraw ==
    /\ held
    /\ told = {}
    /\ held' = FALSE
    /\ UNCHANGED told

\* A worker ends with "already_present" or "materialized".
Report(w) ==
    /\ held
    /\ told' = told \cup {w}
    /\ UNCHANGED held

Reboot ==
    /\ held' = FALSE
    /\ told' = {}

ViewNext ==
    \/ Appear \/ Withdraw \/ Reboot
    \/ \E w \in Workers : Report(w)

ViewSpec == ViewInit /\ [][ViewNext]_viewVars
=============================================================================
