-------------------------------- MODULE Sums --------------------------------
(***************************************************************************)
(* Python's sum, of a list and of its beginnings: where a pipeline stage   *)
(* starts, how many layers there are, how long bookings last together.     *)
(***************************************************************************)
EXTENDS Naturals, Sequences

\* sum(numbers[:n]), for every n.
PartialSums(numbers) ==
    LET sum[n \in 0..Len(numbers)] ==
            IF n = 0 THEN 0 ELSE sum[n - 1] + numbers[n]
    IN  sum

\* sum(numbers)
SumOf(numbers) == PartialSums(numbers)[Len(numbers)]
=============================================================================
