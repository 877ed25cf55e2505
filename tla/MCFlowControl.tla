---------------------------- MODULE MCFlowControl -----------------------------
(***************************************************************************)
(* FlowControl for TLC.                                                    *)
(***************************************************************************)
EXTENDS FlowControl

\* One stream sends two bytes and the other one; or all send five.
Short == [s \in Streams |-> IF s = 1 THEN 2 ELSE 1]
Long  == [s \in Streams |-> 5]

\* A cfg cannot hold a negative number.
Steps == {-1, 1}
===============================================================================
