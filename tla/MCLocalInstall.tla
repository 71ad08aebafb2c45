--------------------------- MODULE MCLocalInstall ---------------------------
(* A worker that reads the canonical artifact and one that copies from a    *)
(* peer contend for the path; two files make a partial directory.           *)
EXTENDS LocalInstall

CONSTANTS c1, p1, f1, f2
=============================================================================
