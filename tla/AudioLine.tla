------------------------------ MODULE AudioLine ------------------------------
(***************************************************************************)
(* What the microphone monitor promises, with nothing said of how: frames  *)
(* captured from the microphone are held for a while and then heard.       *)
(* Frames are numbered in the order of their capture.  A frame may be      *)
(* lost while it is held; frames are never heard twice, never out of order *)
(* and never before they were captured.                                    *)
(***************************************************************************)
EXTENDS Naturals, Sequences

VARIABLES captured,   \* number of frames captured so far
          held,       \* captured frames neither lost nor heard yet
          heard       \* frames heard so far

Increasing(s) == \A i, j \in 1..Len(s) : i < j => s[i] < s[j]

Elements(s) == {s[i] : i \in 1..Len(s)}

Init == captured = 0 /\ held = <<>> /\ heard = <<>>

(* New frames arrive; some of the frames held, new or old, may be lost. *)
Capture ==
    /\ captured' \in Nat /\ captured' >= captured
    /\ Increasing(held')
    /\ Elements(held') \subseteq Elements(held) \cup (captured + 1 .. captured')
    /\ heard' = heard

(* The oldest frames held are heard, in order. *)
Play ==
    \E k \in 1..Len(held) :
        /\ heard' = heard \o SubSeq(held, 1, k)
        /\ held' = SubSeq(held, k + 1, Len(held))
        /\ captured' = captured

Next == Capture \/ Play

Spec == Init /\ [][Next]_<<captured, held, heard>>
=============================================================================
