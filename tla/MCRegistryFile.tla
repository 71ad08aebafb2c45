--------------------------- MODULE MCRegistryFile ---------------------------
(* Three transactions, two of which write: two updates that could overwrite *)
(* each other and a reader that writes back what it loaded.                 *)
EXTENDS RegistryFile

CONSTANTS w1, w2, r1

MCTxns == {w1, w2, r1}
MCWriters == {w1, w2}
=============================================================================
