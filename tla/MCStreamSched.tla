---------------------------- MODULE MCStreamSched -----------------------------
(***************************************************************************)
(* StreamSched for TLC.                                                    *)
(***************************************************************************)
EXTENDS StreamSched

\* Streams are told apart by their places only.
Symmetry == Permutations(StreamIds)
===============================================================================
