------------------------------- MODULE SeqSums -------------------------------
(***************************************************************************)
(* Sums over sequences, for properties that account for what is on its way *)
(* in a queue.                                                             *)
(***************************************************************************)
EXTENDS Integers, Sequences

(* s[1] + ... + s[Len(s)] *)
SumOf(s) ==
    LET total[i \in 0..Len(s)] == IF i = 0 THEN 0 ELSE total[i - 1] + s[i]
    IN  total[Len(s)]
===============================================================================
