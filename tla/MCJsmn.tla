-------------------------------- MODULE MCJsmn --------------------------------
(***************************************************************************)
(* Texts for Jsmn: all short texts; all short string literals; and all     *)
(* JSON documents of depth two, with the tokens that describe them.        *)
(***************************************************************************)
EXTENDS Jsmn

CONSTANT MaxLen   \* bound: length of the short texts

AllBuilds    == [strict : BOOLEAN, links : BOOLEAN]
StrictBuilds == {b \in AllBuilds : b.strict}

Upto(n, Alphabet) == UNION {[1..k -> Alphabet] : k \in 0..n}

Texts(n) == Upto(n, {"{", "}", "[", "]", "\"", ":", ",", "1"})

(* String literals, and what looks like one. *)
Quoted ==
    {<<"\"">> \o t : t \in Upto(4, {"\"", "\\", "u", "1", "n", "NUL"})}
        \cup {<<"\"", "\\", "u">> \o t : t \in [1..5 -> {"1", "n", "\""}]}
-----------------------------------------------------------------------------
(* A document and its tokens; positions count from its first character,    *)
(* and a token without a parent is the child of what the document is put   *)
(* into.                                                                   *)
Tok(type, start, end, size, parent) ==
    [type |-> type, start |-> start, end |-> end, size |-> size, parent |-> parent]

Atoms == {[js |-> <<"1", "1">>, toks |-> <<Tok("PRIMITIVE", 0, 2, 0, -1)>>],
          [js |-> <<"\"", "\"">>, toks |-> <<Tok("STRING", 1, 1, 0, -1)>>]}

(* The tokens of d when its text starts at off, its first token has index  *)
(* ix and its parent index parent.                                         *)
Placed(d, off, ix, parent) ==
    [i \in 1..Len(d.toks) |->
        [d.toks[i] EXCEPT !.start = @ + off, !.end = @ + off,
                          !.parent = IF @ = -1 THEN parent ELSE @ + ix]]

Empty(type, open, close) == [js |-> <<open, close>>, toks |-> <<Tok(type, 0, 2, 0, -1)>>]

Array1(d) ==
    LET js == <<"[">> \o d.js \o <<"]">>
    IN  [js |-> js, toks |-> <<Tok("ARRAY", 0, Len(js), 1, -1)>> \o Placed(d, 1, 1, 0)]

Array2(d, e) ==
    LET js == <<"[">> \o d.js \o <<",">> \o e.js \o <<"]">>
    IN  [js |-> js,
         toks |-> <<Tok("ARRAY", 0, Len(js), 2, -1)>> \o Placed(d, 1, 1, 0)
                    \o Placed(e, 2 + Len(d.js), 1 + Len(d.toks), 0)]

Pair(d) == [js |-> <<"\"", "x", "\"", ":">> \o d.js,
            toks |-> <<Tok("STRING", 1, 2, 1, -1)>> \o Placed(d, 4, 1, 0)]

Object1(d) ==
    LET js == <<"{">> \o Pair(d).js \o <<"}">>
    IN  [js |-> js, toks |-> <<Tok("OBJECT", 0, Len(js), 1, -1)>> \o Placed(Pair(d), 1, 1, 0)]

Object2(d, e) ==
    LET js == <<"{">> \o Pair(d).js \o <<",", " ">> \o Pair(e).js \o <<"}">>
    IN  [js |-> js,
         toks |-> <<Tok("OBJECT", 0, Len(js), 2, -1)>> \o Placed(Pair(d), 1, 1, 0)
                    \o Placed(Pair(e), 3 + Len(Pair(d).js), 2 + Len(d.toks), 0)]

Containers(D) ==
    {Empty("ARRAY", "[", "]"), Empty("OBJECT", "{", "}")}
        \cup {Array1(d) : d \in D} \cup {Object1(d) : d \in D}
        \cup {Array2(d, e) : d \in D, e \in D} \cup {Object2(d, e) : d \in D, e \in D}

Documents == Containers(Atoms \cup Containers(Atoms))

WholeTexts == Texts(MaxLen) \cup {d.js : d \in Documents}
DocumentTexts == {d.js : d \in Containers(Atoms)}
StreamTexts == Texts(MaxLen - 1) \cup Quoted \cup DocumentTexts
                \cup Upto(3, {"[", "1", " ", "x", "BAD"})

Described(d) ==
    [i \in 1..Len(d.toks) |->
        [d.toks[i] EXCEPT !.parent = IF call.build.links THEN @ ELSE -1]]

(* The tokens of a JSON document are its tree: type, place, number of      *)
(* children and parent of every value and key, in every build, however     *)
(* often the caller had to call again.                                     *)
TokensAreTheTree ==
    st.done /\ call.len = Len(call.js) /\ st.ret # JSMN_ERROR_NOMEM =>
        \A d \in Documents :
            d.js = call.js => st.tokens = Described(d) /\ st.ret = Len(d.toks)

(* A string token ends at the first quote that is not escaped: the first   *)
(* with an even number of backslashes directly before it.                  *)
StringEndsAtItsQuote ==
    LET Backslashes(t, k) ==
            Cardinality({m \in t.start..(k - 1) : \A n \in m..(k - 1) : Char(call, n) = "\\"})
    IN  \A i \in Indices(st) :
            LET t == Token(st, i)
            IN  t.type = "STRING" =>
                  /\ Char(call, t.end) = "\""
                  /\ \A k \in t.start..t.end :
                       Char(call, k) = "\"" =>
                         (k = t.end <=> Backslashes(t, k) % 2 = 0)
===============================================================================
