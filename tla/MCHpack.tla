-------------------------------- MODULE MCHpack --------------------------------
(***************************************************************************)
(* A static table of two fields of one name, three names of which two      *)
(* share a bucket, and tables of up to four entries.                       *)
(***************************************************************************)
EXTENDS Hpack

F(n, v) == [name |-> n, value |-> v]

MCFields == {F("s", 1), F("s", 2), F("s", 3), F("d", 1), F("d", 2), F("e", 1)}
MCStatic == <<F("s", 1), F("s", 2)>>
MCRoom == [f \in MCFields |-> IF f = F("d", 2) THEN 2 ELSE 1]
MCHash == [n \in {"s", "d", "e"} |-> IF n = "e" THEN 1 ELSE 0]
MCNever == {F("e", 1)}
MCUnindexed == {}

\* Lists of at most two fields; the static ones and the unindexed one alone.
Short == {<<>>} \cup {<<f>> : f \in MCFields}
Pairs == {<<f, g>> : f \in {F("d", 1), F("d", 2)}, g \in {F("s", 3), F("d", 1)}}

MCBlocks == Short \cup Pairs
MCSettings == {<<0>>, <<2>>, <<4>>, <<0, 4>>}
===============================================================================
