--------------------------- MODULE CanonicalStore ---------------------------
(***************************************************************************)
(* What the readers of one canonical fingerprint are promised: at most one *)
(* artifact, which appears complete and at one instant, is never replaced  *)
(* while it is there, and is recorded in the registry only while it can be *)
(* read.  Losing parts of it is the environment's doing, never a           *)
(* publication's.                                                          *)
(***************************************************************************)
CONSTANTS
    Pubs,       \* publications of the fingerprint
    None        \* no artifact

VARIABLES
    artifact,   \* the publication whose artifact is installed, or None
    quality,    \* "whole", or what the environment has done to it
    record      \* the registry entry: its state and the artifact it names

storeVars == <<artifact, quality, record>>

NoRecord == [state |-> "none", backing |-> None]

StoreInit ==
    /\ artifact = None
    /\ quality = "gone"
    /\ record = NoRecord

\* An artifact appears only where there is none, and it is whole.
Install(c) ==
    /\ artifact = None
    /\ artifact' = c
    /\ quality' = "whole"
    /\ UNCHANGED record

\* The registry names the artifact that is there and that can be read.
Record ==
    /\ artifact # None
    /\ quality # "unreadable"
    /\ record' = [state |-> "complete", backing |-> artifact]
    /\ UNCHANGED <<artifact, quality>>

\* A live cache without any artifact is recorded as local only.
Adopt ==
    /\ record = NoRecord
    /\ record' = [state |-> "local_only", backing |-> None]
    /\ UNCHANGED <<artifact, quality>>

Invalidate ==
    /\ record.state # "none"
    /\ record' = [state |-> "invalid", backing |-> record.backing]
    /\ UNCHANGED <<artifact, quality>>

\* Files are lost, or the whole directory is.
Decay ==
    /\ artifact # None
    /\ \/ artifact' = artifact /\ quality' \in {"partial", "unreadable"}
       \/ artifact' = None /\ quality' = "gone"
    /\ UNCHANGED record

StoreNext ==
    \/ \E c \in Pubs : Install(c)
    \/ Record \/ Adopt \/ Invalidate \/ Decay

StoreSpec == StoreInit /\ [][StoreNext]_storeVars
=============================================================================
