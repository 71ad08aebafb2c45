---------------------------- MODULE MCWeightCache ----------------------------
(* WeightCache for TLC: two workers, one file whose digest is known and one  *)
(* that is only measured.                                                    *)
EXTENDS WeightCache

CONSTANTS w1, w2, index, shard
=============================================================================
