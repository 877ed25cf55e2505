------------------------------ MODULE JsmnProofs ------------------------------
(***************************************************************************)
(* Proofs about Jsmn, for texts of any length and contents, any number of  *)
(* tokens and any pieces in which a text arrives.                          *)
(***************************************************************************)
EXTENDS Jsmn, SeqSumsProofs, FiniteSetTheorems

(* A set of natural numbers has a least element. *)
LEMMA Least ==
    ASSUME NEW S \in SUBSET Nat, S # {}
    PROVE  Min(S) \in S /\ \A y \in S : Min(S) <= y
  <1>. DEFINE R == OpToRel(<, Nat)
  <1>1. IsWellFoundedOn(R, Nat)
    BY NatLessThanWellFounded
  <1>2. PICK x \in S : \A y \in S : ~(<<y, x>> \in R)
    <2>. HIDE DEF R
    <2>. QED
      BY <1>1, WFMin
  <1>3. \A y \in S : x <= y
    <2>. SUFFICES ASSUME NEW y \in S, y < x PROVE FALSE
      OBVIOUS
    <2>1. <<y, x>> \in R
      BY DEF OpToRel
    <2>. QED
      BY <1>2, <2>1
  <1>. QED
    BY <1>3 DEF Min

(* A set of natural numbers with a bound has a greatest element. *)
LEMMA Greatest ==
    ASSUME NEW S \in SUBSET Nat, S # {}, NEW n \in Nat, \A y \in S : y <= n
    PROVE  Max(S) \in S /\ \A y \in S : y <= Max(S)
  <1>. DEFINE D == {d \in Nat : n - d \in S}
  <1>1. D # {}
    <2>1. PICK y \in S : TRUE
      OBVIOUS
    <2>2. n - y \in Nat /\ n - (n - y) = y
      OBVIOUS
    <2>. QED
      BY <2>1, <2>2
  <1>2. Min(D) \in D /\ \A d \in D : Min(D) <= d
    <2>1. D \in SUBSET Nat
      OBVIOUS
    <2>. HIDE DEF D
    <2>. QED
      BY <1>1, <2>1, Least
  <1>. DEFINE x == n - Min(D)
  <1>3. x \in S /\ Min(D) \in Nat
    BY <1>2
  <1>4. ASSUME NEW y \in S PROVE x >= y
    <2>1. n - y \in Nat /\ n - (n - y) = y
      OBVIOUS
    <2>2. n - y \in D
      BY <2>1
    <2>. QED
      BY <1>2, <1>3, <2>2
  <1>. HIDE DEF x
  <1>5. \E z \in S : \A y \in S : z >= y
    BY <1>3, <1>4
  <1>6. Max(S) \in S /\ \A y \in S : Max(S) >= y
    BY <1>5 DEF Max
  <1>. QED
    BY <1>6
-----------------------------------------------------------------------------
(* The types of a token, of the parser with its tokens, and of a call. *)
Tokens == [type : Types, start : Int, end : Int, size : Nat, parent : Int]

Parsers == [pos : Nat, toknext : Nat, toksuper : Int, tokens : Seq(Tokens),
            count : Nat, done : BOOLEAN, ret : Int]

CallOK(c) ==
    /\ c \in [build : [strict : BOOLEAN, links : BOOLEAN], js : Seq(STRING),
              len : Nat, num : Nat, null : BOOLEAN]
    /\ ~c.null /\ c.len <= Len(c.js)

(* The state of a parser within a call: its numbers and indices, ... *)
Numbers(c, s) ==
    /\ s \in Parsers /\ Len(s.tokens) = s.toknext
    /\ s.pos <= c.len /\ s.toknext <= c.num /\ s.count <= s.toknext
    /\ s.toksuper \in -1..(s.toknext - 1) /\ s.ret \in -3..c.num

Within(c, s) ==
    \A i \in Indices(s) :
        /\ Token(s, i).size <= s.toknext /\ Token(s, i).parent \in -1..(i - 1)
        /\ Token(s, i).start \in -1..(c.len - 1) /\ Token(s, i).end \in -1..c.len

(* ... the links and the sizes, ... *)
Children(s, i) == {j \in Indices(s) : Token(s, j).parent = i}

Sizes(c, s) ==
    c.build.links => \A i \in Indices(s) : Token(s, i).size = Cardinality(Children(s, i))

(* ... where the tokens are: before the position, only objects and arrays  *)
(* without an end, and one within or after the other; ...                  *)
Invalid(s) == s.done /\ s.ret = JSMN_ERROR_INVAL

Places(s) ==
    \A i \in Indices(s) :
        /\ Token(s, i).start \in 0..(s.pos - 1) /\ Token(s, i).end \in -1..s.pos
        /\ Token(s, i).end = -1 => Token(s, i).type \in {"OBJECT", "ARRAY"}

Nested(s) ==
    \A i, j \in Indices(s) :
        i < j => /\ Token(s, i).start < Token(s, j).start
                 /\ Token(s, i).end # -1 =>
                        \/ Token(s, i).end <= Token(s, j).start
                        \/ Token(s, j).end # -1 /\ Token(s, j).end < Token(s, i).end

(* ... and with links, no link and not toksuper leads out of an object or  *)
(* array that is not closed.                                               *)
Enclosed(c, s) ==
    c.build.links =>
        \A u \in Unclosed(s) :
            u <= s.toksuper /\ \A j \in Indices(s) : u < j => u <= Token(s, j).parent

Sound(c, s) ==
    /\ CallOK(c) /\ Numbers(c, s) /\ Within(c, s) /\ Sizes(c, s)
    /\ ~Invalid(s) => Places(s) /\ Nested(s) /\ Enclosed(c, s)

IndInv == Sound(call, st)
-----------------------------------------------------------------------------
(* The fields of a parser and of a token have their types. *)
LEMMA ParserFields ==
    ASSUME NEW s \in Parsers
    PROVE  /\ s.pos \in Nat /\ s.toknext \in Nat /\ s.toksuper \in Int
           /\ s.tokens \in Seq(Tokens) /\ s.count \in Nat /\ s.done \in BOOLEAN /\ s.ret \in Int
  BY DEF Parsers

LEMMA TokenFields ==
    ASSUME NEW t \in Tokens
    PROVE  /\ t.type \in Types /\ t.start \in Int /\ t.end \in Int
           /\ t.size \in Nat /\ t.parent \in Int
  BY DEF Tokens

LEMMA TokenTypes ==
    ASSUME NEW s \in Parsers, Len(s.tokens) = s.toknext, NEW i \in Indices(s)
    PROVE  Token(s, i) \in Tokens /\ i \in Nat /\ i + 1 \in 1..Len(s.tokens)
  <1>1. s.toknext \in Nat /\ s.tokens \in Seq(Tokens)
    BY ParserFields
  <1>2. i \in Nat /\ i + 1 \in 1..Len(s.tokens)
    BY <1>1 DEF Indices
  <1>3. s.tokens[i + 1] \in Tokens
    BY <1>1, <1>2, ElementOfSeq
  <1>. QED
    BY <1>2, <1>3 DEF Token

(* What the steps leave alone besides the tokens. *)
Keeps(t, s) ==
    /\ t.pos = s.pos /\ t.toksuper = s.toksuper /\ t.count = s.count
    /\ t.done = s.done /\ t.ret = s.ret

(* A parser with other tokens. *)
With(s, n, q) == [s EXCEPT !.toknext = n, !.tokens = q]

LEMMA WithFacts ==
    ASSUME NEW s \in Parsers, NEW n \in Nat, NEW q \in Seq(Tokens)
    PROVE  /\ With(s, n, q) \in Parsers /\ With(s, n, q).tokens = q
           /\ With(s, n, q).toknext = n /\ Keeps(With(s, n, q), s)
  BY DEF Parsers, Keeps, With

(* A token is appended. *)
LEMMA AllocFacts ==
    ASSUME NEW s \in Parsers, Len(s.tokens) = s.toknext
    PROVE  LET t == jsmn_alloc_token(s)
           IN  /\ t \in Parsers /\ Len(t.tokens) = t.toknext /\ t.toknext = s.toknext + 1
               /\ Keeps(t, s)
               /\ \A i \in Indices(s) : Token(t, i) = Token(s, i)
               /\ Token(t, s.toknext) = [type |-> "UNDEFINED", start |-> -1, end |-> -1,
                                         size |-> 0, parent |-> -1]
  <1>. DEFINE new == [type |-> "UNDEFINED", start |-> -1, end |-> -1, size |-> 0, parent |-> -1]
              q == Append(s.tokens, new)
              t == jsmn_alloc_token(s)
  <1>1. s.toknext \in Nat /\ s.tokens \in Seq(Tokens)
    BY ParserFields
  <1>2. new \in Tokens
    BY DEF Tokens, Types
  <1>. HIDE DEF new
  <1>3. /\ q \in Seq(Tokens) /\ Len(q) = Len(s.tokens) + 1
        /\ \A i \in 1..Len(s.tokens) : q[i] = s.tokens[i]
        /\ q[Len(s.tokens) + 1] = new
    BY <1>1, <1>2, AppendProperties
  <1>. HIDE DEF q
  <1>4. t = With(s, s.toknext + 1, q)
    BY DEF jsmn_alloc_token, With, q, new
  <1>5. t \in Parsers /\ t.tokens = q /\ t.toknext = s.toknext + 1 /\ Keeps(t, s)
    <2>1. s.toknext + 1 \in Nat
      BY <1>1
    <2>. HIDE DEF t
    <2>. QED
      BY <1>3, <1>4, <2>1, WithFacts
  <1>. HIDE DEF t
  <1>6. ASSUME NEW i \in Indices(s) PROVE Token(t, i) = Token(s, i)
    BY <1>3, <1>5, TokenTypes DEF Token
  <1>7. Token(t, s.toknext) = new
    BY <1>3, <1>5 DEF Token
  <1>. QED
    BY <1>1, <1>3, <1>5, <1>6, <1>7 DEF t, new

(* One token is replaced. *)
Put(s, k, r) == [s EXCEPT !.tokens[k + 1] = r]

LEMMA ReplaceFacts ==
    ASSUME NEW s \in Parsers, Len(s.tokens) = s.toknext, NEW k \in Indices(s), NEW r \in Tokens
    PROVE  LET t == Put(s, k, r)
           IN  /\ t \in Parsers /\ Len(t.tokens) = t.toknext /\ t.toknext = s.toknext
               /\ Keeps(t, s)
               /\ \A i \in Indices(s) : i # k => Token(t, i) = Token(s, i)
               /\ Token(t, k) = r
  <1>. DEFINE q == [s.tokens EXCEPT ![k + 1] = r]
              t == Put(s, k, r)
  <1>1. s.toknext \in Nat /\ s.tokens \in Seq(Tokens) /\ k \in Nat /\ k + 1 \in 1..Len(s.tokens)
    BY ParserFields, TokenTypes
  <1>2. /\ q \in Seq(Tokens) /\ Len(q) = Len(s.tokens)
        /\ \A i \in 1..Len(s.tokens) : q[i] = IF i = k + 1 THEN r ELSE s.tokens[i]
    BY <1>1, ExceptSeq
  <1>. HIDE DEF q
  <1>3. t = With(s, s.toknext, q)
    BY DEF q, Parsers, With, Put
  <1>4. t \in Parsers /\ t.tokens = q /\ t.toknext = s.toknext /\ Keeps(t, s)
    <2>. DEFINE w == With(s, s.toknext, q)
    <2>1. s.toknext \in Nat /\ q \in Seq(Tokens)
      BY <1>1, <1>2
    <2>2. w \in Parsers /\ w.tokens = q /\ w.toknext = s.toknext /\ Keeps(w, s)
      BY <2>1, WithFacts
    <2>3. t = w
      BY <1>3
    <2>. HIDE DEF t, w
    <2>. QED
      BY <2>2, <2>3
  <1>. HIDE DEF t
  <1>5. ASSUME NEW i \in Indices(s), i # k PROVE Token(t, i) = Token(s, i)
    <2>1. i + 1 \in 1..Len(s.tokens) /\ i + 1 # k + 1
      BY <1>1, <1>5, TokenTypes
    <2>. QED
      BY <1>2, <1>4, <2>1 DEF Token
  <1>6. Token(t, k) = r
    BY <1>1, <1>2, <1>4 DEF Token
  <1>. QED
    BY <1>2, <1>4, <1>5, <1>6 DEF t

(* The new token is filled. *)
LEMMA FillFacts ==
    ASSUME NEW c, CallOK(c), NEW s \in Parsers, Len(s.tokens) = s.toknext, s.toknext # 0,
           NEW type \in Types, NEW start \in Int, NEW end \in Int
    PROVE  LET t == jsmn_fill_token(c, s, type, start, end)
               k == s.toknext - 1
           IN  /\ t \in Parsers /\ Len(t.tokens) = t.toknext /\ t.toknext = s.toknext
               /\ Keeps(t, s)
               /\ \A i \in Indices(s) : i # k => Token(t, i) = Token(s, i)
               /\ Token(t, k) = [type |-> type, start |-> start, end |-> end, size |-> 0,
                                 parent |-> IF c.build.links THEN s.toksuper ELSE -1]
  <1>. DEFINE k == s.toknext - 1
              r == [type |-> type, start |-> start, end |-> end, size |-> 0,
                    parent |-> IF c.build.links THEN s.toksuper ELSE -1]
  <1>1. s.toknext \in Nat /\ s.toksuper \in Int
    BY ParserFields
  <1>2. k \in Indices(s) /\ k + 1 = s.toknext
    BY <1>1 DEF Indices
  <1>3. r \in Tokens
    BY <1>1 DEF Tokens
  <1>4. jsmn_fill_token(c, s, type, start, end) = Put(s, k, r)
    BY <1>2 DEF jsmn_fill_token, Put
  <1>. HIDE DEF r, k
  <1>5. LET t == Put(s, k, r)
        IN  /\ t \in Parsers /\ Len(t.tokens) = t.toknext /\ t.toknext = s.toknext
            /\ Keeps(t, s)
            /\ \A i \in Indices(s) : i # k => Token(t, i) = Token(s, i)
            /\ Token(t, k) = r
    BY <1>2, <1>3, ReplaceFacts
  <1>. QED
    BY <1>4, <1>5 DEF r, k

(* The last token is counted by the one it belongs to. *)
LEMMA GrowFacts ==
    ASSUME NEW s \in Parsers, Len(s.tokens) = s.toknext, s.toksuper \in -1..(s.toknext - 1)
    PROVE  LET t == GrowSuper(s)
           IN  /\ t \in Parsers /\ Len(t.tokens) = t.toknext /\ t.toknext = s.toknext
               /\ Keeps(t, s)
               /\ \A i \in Indices(s) :
                    /\ i # s.toksuper => Token(t, i) = Token(s, i)
                    /\ i = s.toksuper => Token(t, i) = [Token(s, i) EXCEPT !.size = @ + 1]
  <1>. DEFINE k == s.toksuper
              r == [Token(s, k) EXCEPT !.size = @ + 1]
  <1>1. s.toknext \in Nat /\ s.toksuper \in Int
    BY ParserFields
  <1>2. CASE k = -1
    <2>1. GrowSuper(s) = s
      BY <1>2 DEF GrowSuper
    <2>2. \A i \in Indices(s) : i # s.toksuper
      BY <1>1, <1>2 DEF Indices
    <2>. QED
      BY <2>1, <2>2 DEF Keeps
  <1>3. CASE k # -1
    <2>1. k \in Indices(s) /\ k + 1 \in 1..Len(s.tokens)
      BY <1>1, <1>3 DEF Indices
    <2>2. Token(s, k) \in Tokens
      BY <2>1, TokenTypes
    <2>3. r \in Tokens
      BY <2>2 DEF Tokens
    <2>4. GrowSuper(s) = Put(s, k, r)
      BY <1>3, <2>1 DEF GrowSuper, Put, Token, Parsers
    <2>. HIDE DEF r
    <2>5. LET t == Put(s, k, r)
          IN  /\ t \in Parsers /\ Len(t.tokens) = t.toknext /\ t.toknext = s.toknext
              /\ Keeps(t, s)
              /\ \A i \in Indices(s) : i # k => Token(t, i) = Token(s, i)
              /\ Token(t, k) = r
      BY <2>1, <2>3, ReplaceFacts
    <2>. QED
      BY <2>4, <2>5 DEF r
  <1>. QED
    BY <1>2, <1>3

(* A token of this type and place is added to s, for the sum of which the  *)
(* super token grows; the position moves to p and toksuper to sup.         *)
Added(c, s, t, type, start, end, p, sup) ==
    /\ t \in Parsers /\ Len(t.tokens) = t.toknext /\ t.toknext = s.toknext + 1
    /\ t.pos = p /\ t.toksuper = sup /\ t.count = s.count + 1 /\ t.done = s.done /\ t.ret = s.ret
    /\ \A i \in Indices(s) :
         /\ Token(t, i).type = Token(s, i).type /\ Token(t, i).start = Token(s, i).start
         /\ Token(t, i).end = Token(s, i).end /\ Token(t, i).parent = Token(s, i).parent
         /\ Token(t, i).size = Token(s, i).size + (IF i = s.toksuper THEN 1 ELSE 0)
    /\ Token(t, s.toknext) = [type |-> type, start |-> start, end |-> end, size |-> 0,
                              parent |-> IF c.build.links THEN s.toksuper ELSE -1]

(* The small changes of a parser: a position, ... *)
LEMMA MoveFacts ==
    ASSUME NEW s \in Parsers, NEW k \in Nat
    PROVE  /\ MoveTo(s, k) \in Parsers
           /\ MoveTo(s, k).tokens = s.tokens /\ MoveTo(s, k).toknext = s.toknext
           /\ MoveTo(s, k).pos = k /\ MoveTo(s, k).toksuper = s.toksuper /\ MoveTo(s, k).count = s.count
           /\ MoveTo(s, k).done = s.done /\ MoveTo(s, k).ret = s.ret
  BY DEF MoveTo, Parsers

(* ... one token more counted, ... *)
LEMMA CountFacts ==
    ASSUME NEW s \in Parsers
    PROVE  /\ Counted(s) \in Parsers
           /\ Counted(s).tokens = s.tokens /\ Counted(s).toknext = s.toknext
           /\ Counted(s).pos = s.pos /\ Counted(s).toksuper = s.toksuper /\ Counted(s).count = s.count + 1
           /\ Counted(s).done = s.done /\ Counted(s).ret = s.ret
  BY DEF Counted, Parsers

(* ... another super token, ... *)
LEMMA SuperFacts ==
    ASSUME NEW s \in Parsers, NEW i \in Int
    PROVE  /\ Super(s, i) \in Parsers
           /\ Super(s, i).tokens = s.tokens /\ Super(s, i).toknext = s.toknext
           /\ Super(s, i).pos = s.pos /\ Super(s, i).toksuper = i /\ Super(s, i).count = s.count
           /\ Super(s, i).done = s.done /\ Super(s, i).ret = s.ret
  BY DEF Super, Parsers

(* ... and a value to return. *)
LEMMA ReturnFacts ==
    ASSUME NEW s \in Parsers, NEW r \in Int
    PROVE  /\ Returned(s, r) \in Parsers
           /\ Returned(s, r).tokens = s.tokens /\ Returned(s, r).toknext = s.toknext
           /\ Returned(s, r).pos = s.pos /\ Returned(s, r).toksuper = s.toksuper /\ Returned(s, r).count = s.count
           /\ Returned(s, r).done = TRUE /\ Returned(s, r).ret = r
  BY DEF Returned, Parsers

(* Allocated, filled and counted by its super token. *)
LEMMA AddFacts ==
    ASSUME NEW c, CallOK(c), NEW s \in Parsers, Len(s.tokens) = s.toknext,
           s.toksuper \in -1..(s.toknext - 1),
           NEW type \in Types, NEW start \in Int, NEW end \in Int, NEW p \in Nat, NEW sup \in Int
    PROVE  LET g == GrowSuper(jsmn_fill_token(c, jsmn_alloc_token(s), type, start, end))
           IN  /\ Added(c, s, MoveTo(Counted(Super(g, sup)), p), type, start, end, p, sup)
               /\ Added(c, s, MoveTo(Counted(g), p), type, start, end, p, s.toksuper)
  <1>. DEFINE a == jsmn_alloc_token(s)
              f == jsmn_fill_token(c, a, type, start, end)
              g == GrowSuper(f)
              new == [type |-> type, start |-> start, end |-> end, size |-> 0,
                      parent |-> IF c.build.links THEN s.toksuper ELSE -1]
  <1>0. s.toknext \in Nat /\ s.toksuper \in Int
    BY ParserFields
  <1>1. /\ a \in Parsers /\ Len(a.tokens) = a.toknext /\ a.toknext = s.toknext + 1 /\ Keeps(a, s)
        /\ \A i \in Indices(s) : Token(a, i) = Token(s, i)
    BY AllocFacts
  <1>. HIDE DEF a
  <1>2. /\ f \in Parsers /\ Len(f.tokens) = f.toknext /\ f.toknext = a.toknext /\ Keeps(f, a)
        /\ \A i \in Indices(a) : i # a.toknext - 1 => Token(f, i) = Token(a, i)
        /\ Token(f, a.toknext - 1) = [type |-> type, start |-> start, end |-> end, size |-> 0,
                                 parent |-> IF c.build.links THEN a.toksuper ELSE -1]
    <2>1. a.toknext # 0
      BY <1>0, <1>1
    <2>. QED
      BY <1>1, <2>1, FillFacts
  <1>. HIDE DEF f
  <1>3. f.toksuper \in -1..(f.toknext - 1) /\ f.toksuper = s.toksuper /\ a.toksuper = s.toksuper
    BY <1>0, <1>1, <1>2 DEF Keeps
  <1>4. /\ g \in Parsers /\ Len(g.tokens) = g.toknext /\ g.toknext = f.toknext /\ Keeps(g, f)
        /\ \A i \in Indices(f) :
             /\ i # f.toksuper => Token(g, i) = Token(f, i)
             /\ i = f.toksuper => Token(g, i) = [Token(f, i) EXCEPT !.size = @ + 1]
    BY <1>2, <1>3, GrowFacts
  <1>. HIDE DEF g
  <1>5. g.toknext = s.toknext + 1 /\ Keeps(g, s)
    BY <1>1, <1>2, <1>4 DEF Keeps
  <1>6. Token(g, s.toknext) = new
    <2>1. s.toknext \in Indices(f) /\ s.toknext # f.toksuper /\ a.toknext - 1 = s.toknext
      BY <1>0, <1>1, <1>2, <1>3 DEF Indices
    <2>. QED
      BY <1>2, <1>3, <1>4, <2>1
  <1>. HIDE DEF new
  <1>7. ASSUME NEW i \in Indices(s)
        PROVE  /\ Token(g, i).type = Token(s, i).type /\ Token(g, i).start = Token(s, i).start
               /\ Token(g, i).end = Token(s, i).end /\ Token(g, i).parent = Token(s, i).parent
               /\ Token(g, i).size = Token(s, i).size + (IF i = s.toksuper THEN 1 ELSE 0)
    <2>1. i \in Indices(a) /\ i \in Indices(f) /\ i # a.toknext - 1
      BY <1>0, <1>1, <1>2 DEF Indices
    <2>2. Token(f, i) = Token(s, i) /\ Token(s, i) \in Tokens
      BY <1>1, <1>2, <2>1, TokenTypes
    <2>3. Token(s, i).size \in Nat
      BY <2>2, TokenFields
    <2>4. CASE i # s.toksuper
      BY <1>3, <1>4, <2>1, <2>2, <2>3, <2>4
    <2>5. CASE i = s.toksuper
      <3>1. Token(g, i) = [Token(s, i) EXCEPT !.size = @ + 1]
        BY <1>3, <1>4, <2>1, <2>2, <2>5
      <3>2. /\ [Token(s, i) EXCEPT !.size = @ + 1].type = Token(s, i).type
            /\ [Token(s, i) EXCEPT !.size = @ + 1].start = Token(s, i).start
            /\ [Token(s, i) EXCEPT !.size = @ + 1].end = Token(s, i).end
            /\ [Token(s, i) EXCEPT !.size = @ + 1].parent = Token(s, i).parent
            /\ [Token(s, i) EXCEPT !.size = @ + 1].size = Token(s, i).size + 1
        BY <2>2 DEF Tokens
      <3>. QED
        BY <2>5, <3>1, <3>2
    <2>. QED
      BY <2>4, <2>5
  <1>8. ASSUME NEW t \in Parsers, t.tokens = g.tokens, t.toknext = g.toknext
        PROVE  /\ Len(t.tokens) = t.toknext /\ t.toknext = s.toknext + 1
               /\ \A i : Token(t, i) = Token(g, i)
    BY <1>4, <1>5, <1>8 DEF Token
  <1>9. Added(c, s, MoveTo(Counted(g), p), type, start, end, p, s.toksuper)
    <2>. DEFINE t == MoveTo(Counted(g), p)
    <2>1. /\ Counted(g) \in Parsers /\ Counted(g).tokens = g.tokens /\ Counted(g).toknext = g.toknext
          /\ Counted(g).toksuper = g.toksuper /\ Counted(g).count = g.count + 1
          /\ Counted(g).done = g.done /\ Counted(g).ret = g.ret
      BY <1>4, CountFacts
    <2>2. t \in Parsers /\ t.tokens = g.tokens /\ t.toknext = g.toknext /\ t.pos = p
          /\ t.toksuper = s.toksuper /\ t.count = s.count + 1 /\ t.done = s.done /\ t.ret = s.ret
      BY <1>4, <1>5, <2>1, MoveFacts DEF Keeps
    <2>. HIDE DEF t
    <2>3. Len(t.tokens) = t.toknext /\ t.toknext = s.toknext + 1 /\ \A i : Token(t, i) = Token(g, i)
      BY <1>8, <2>2
    <2>. QED
      BY <1>6, <1>7, <2>2, <2>3 DEF Added, t, new
  <1>10. Added(c, s, MoveTo(Counted(Super(g, sup)), p), type, start, end, p, sup)
    <2>. DEFINE t == MoveTo(Counted(Super(g, sup)), p)
    <2>. DEFINE h == Super(g, sup)
    <2>0. /\ h \in Parsers /\ h.tokens = g.tokens /\ h.toknext = g.toknext /\ h.toksuper = sup
          /\ h.count = g.count /\ h.done = g.done /\ h.ret = g.ret
      BY <1>4, SuperFacts
    <2>. HIDE DEF h
    <2>1. /\ Counted(h) \in Parsers /\ Counted(h).tokens = h.tokens /\ Counted(h).toknext = h.toknext
          /\ Counted(h).toksuper = h.toksuper /\ Counted(h).count = h.count + 1
          /\ Counted(h).done = h.done /\ Counted(h).ret = h.ret
      BY <2>0, CountFacts
    <2>2. t \in Parsers /\ t.tokens = g.tokens /\ t.toknext = g.toknext /\ t.pos = p
          /\ t.toksuper = sup /\ t.count = s.count + 1 /\ t.done = s.done /\ t.ret = s.ret
      BY <1>4, <1>5, <2>0, <2>1, MoveFacts DEF Keeps, h
    <2>. HIDE DEF t
    <2>3. Len(t.tokens) = t.toknext /\ t.toknext = s.toknext + 1 /\ \A i : Token(t, i) = Token(g, i)
      BY <1>8, <2>2
    <2>. QED
      BY <1>6, <1>7, <2>2, <2>3 DEF Added, t, new
  <1>. QED
    BY <1>9, <1>10 DEF a, f, g
-----------------------------------------------------------------------------
(* A parser that has not been told that the text is invalid, with room for *)
(* a token, in the call c.                                                 *)
Working(c, s) == Sound(c, s) /\ ~s.done

(* The facts about Working used all the time. *)
LEMMA WorkingFacts ==
    ASSUME NEW c, NEW s, Working(c, s)
    PROVE  /\ s \in Parsers /\ Len(s.tokens) = s.toknext /\ s.toknext \in Nat /\ s.pos \in Nat
           /\ s.toksuper \in -1..(s.toknext - 1) /\ s.toksuper \in Int /\ s.count \in Nat
           /\ s.ret \in -3..c.num /\ s.ret \in Int
           /\ c.len \in Nat /\ c.num \in Nat /\ ~c.null /\ c.build.links \in BOOLEAN
           /\ c.build.strict \in BOOLEAN
           /\ s.pos <= c.len /\ s.toknext <= c.num /\ s.count <= s.toknext
           /\ Places(s) /\ Nested(s) /\ Enclosed(c, s)
  <1>1. s \in Parsers /\ CallOK(c) /\ Numbers(c, s) /\ ~Invalid(s)
    BY DEF Working, Sound, Numbers, Invalid
  <1>. QED
    BY <1>1, ParserFields DEF Working, Sound, Numbers, CallOK

(* Every token of s has numbers in its fields. *)
LEMMA FieldsOf ==
    ASSUME NEW s \in Parsers, Len(s.tokens) = s.toknext, NEW i \in Indices(s)
    PROVE  /\ i \in Nat /\ i < s.toknext /\ Token(s, i) \in Tokens
           /\ Token(s, i).type \in Types /\ Token(s, i).start \in Int /\ Token(s, i).end \in Int
           /\ Token(s, i).size \in Nat /\ Token(s, i).parent \in Int
  <1>1. Token(s, i) \in Tokens /\ i \in Nat /\ i < s.toknext
    BY TokenTypes, ParserFields DEF Indices
  <1>. QED
    BY <1>1, TokenFields

(* What is added is the last token. *)
LEMMA AddedIndices ==
    ASSUME NEW s, s.toknext \in Nat, NEW t, t.toknext = s.toknext + 1
    PROVE  /\ Indices(t) = Indices(s) \cup {s.toknext} /\ s.toknext \notin Indices(s)
           /\ \A i \in Indices(s) : i \in Nat /\ i < s.toknext
  BY DEF Indices

(* What a new token does to the numbers. *)
LEMMA AddNumbers ==
    ASSUME NEW c, NEW s, Working(c, s), s.toknext < c.num,
           NEW t, NEW type \in Types, NEW start \in Int, NEW end \in Int,
           NEW p \in Nat, NEW sup \in Int,
           Added(c, s, t, type, start, end, p, sup),
           0 <= start, start < c.len, end \in -1..c.len, p <= c.len, sup \in -1..s.toknext
    PROVE  Numbers(c, t) /\ Within(c, t)
  <1>1. /\ s.toknext \in Nat /\ s.toksuper \in -1..(s.toknext - 1) /\ s.toksuper \in Int
        /\ s.count \in Nat /\ s.count <= s.toknext /\ c.num \in Nat /\ c.len \in Nat
        /\ s.ret \in -3..c.num /\ s \in Parsers /\ Len(s.tokens) = s.toknext
        /\ c.build.links \in BOOLEAN
    BY WorkingFacts
  <1>2. /\ t \in Parsers /\ Len(t.tokens) = t.toknext /\ t.toknext = s.toknext + 1
        /\ t.pos = p /\ t.toksuper = sup /\ t.count = s.count + 1 /\ t.ret = s.ret
    BY DEF Added
  <1>3. Numbers(c, t)
    <2>1. t.pos <= c.len
      BY <1>1, <1>2
    <2>2. t.toknext <= c.num
      <3>1. /\ s.toknext \in Nat /\ c.num \in Nat /\ s.toknext < c.num
            /\ t.toknext = s.toknext + 1
        BY <1>1, <1>2
      <3>. QED
        BY ONLY <3>1
    <2>3. t.count <= t.toknext
      BY <1>1, <1>2
    <2>4. t.toksuper \in -1..(t.toknext - 1)
      BY <1>1, <1>2
    <2>5. t.ret \in -3..c.num
      BY <1>1, <1>2
    <2>. QED
      BY <1>2, <2>1, <2>2, <2>3, <2>4, <2>5 DEF Numbers
  <1>4. ASSUME NEW i \in Indices(t)
        PROVE  /\ Token(t, i).size <= t.toknext /\ Token(t, i).parent \in -1..(i - 1)
               /\ Token(t, i).start \in -1..(c.len - 1) /\ Token(t, i).end \in -1..c.len
    <2>1. CASE i \in Indices(s)
      <3>1. /\ Token(s, i).size <= s.toknext /\ Token(s, i).parent \in -1..(i - 1)
            /\ Token(s, i).start \in -1..(c.len - 1) /\ Token(s, i).end \in -1..c.len
        BY <2>1 DEF Working, Sound, Within
      <3>2. /\ Token(t, i).start = Token(s, i).start
            /\ Token(t, i).end = Token(s, i).end /\ Token(t, i).parent = Token(s, i).parent
            /\ Token(t, i).size = Token(s, i).size + (IF i = s.toksuper THEN 1 ELSE 0)
        BY <2>1 DEF Added
      <3>3. Token(s, i).size \in Nat
        BY <1>1, <2>1, FieldsOf
      <3>4. Token(t, i).size <= t.toknext
        <4>1. Token(t, i).size = Token(s, i).size + 1 \/ Token(t, i).size = Token(s, i).size
          BY <3>2, <3>3
        <4>2. s.toknext \in Nat /\ t.toknext = s.toknext + 1 /\ Token(s, i).size <= s.toknext
          BY <1>1, <1>2, <3>1
        <4>. QED
          BY ONLY <3>3, <4>1, <4>2
      <3>. QED
        BY <3>1, <3>2, <3>4
    <2>2. CASE i = s.toknext
      <3>1. Token(t, i) = [type |-> type, start |-> start, end |-> end, size |-> 0,
                           parent |-> IF c.build.links THEN s.toksuper ELSE -1]
        BY <2>2 DEF Added
      <3>2. /\ Token(t, i).start = start /\ Token(t, i).end = end /\ Token(t, i).size = 0
            /\ Token(t, i).parent = IF c.build.links THEN s.toksuper ELSE -1
        BY <3>1
      <3>3. 0 <= t.toknext
        BY <1>1, <1>2
      <3>4. (IF c.build.links THEN s.toksuper ELSE -1) \in -1..(i - 1)
        BY <1>1, <2>2
      <3>5. start \in -1..(c.len - 1)
        BY <1>1
      <3>. QED
        BY <3>2, <3>3, <3>4, <3>5
    <2>. QED
      BY <1>1, <1>2, <2>1, <2>2, AddedIndices
  <1>. QED
    BY <1>3, <1>4 DEF Within

(* Its super token has one child more, and its size says so. *)
LEMMA AddSizes ==
    ASSUME NEW c, NEW s, Working(c, s),
           NEW t, NEW type, NEW start, NEW end, NEW p, NEW sup,
           Added(c, s, t, type, start, end, p, sup)
    PROVE  Sizes(c, t)
  <1>. SUFFICES ASSUME c.build.links, NEW i \in Indices(t)
                PROVE  Token(t, i).size = Cardinality(Children(t, i))
    BY DEF Sizes
  <1>. DEFINE n == s.toknext
  <1>1. /\ n \in Nat /\ s.toksuper \in -1..(n - 1) /\ s.toksuper \in Int
        /\ s \in Parsers /\ Len(s.tokens) = n /\ t.toknext = n + 1
    BY WorkingFacts DEF Added
  <1>2. /\ Indices(t) = Indices(s) \cup {n} /\ n \notin Indices(s)
        /\ \A j \in Indices(s) : j \in Nat /\ j < n
    BY <1>1, AddedIndices
  <1>3. Token(t, n).parent = s.toksuper /\ Token(t, n).size = 0
    BY DEF Added
  <1>4. \A j \in Indices(s) :
          /\ Token(t, j).parent = Token(s, j).parent /\ Token(s, j).size \in Nat
          /\ Token(t, j).size = Token(s, j).size + (IF j = s.toksuper THEN 1 ELSE 0)
    BY <1>1, FieldsOf DEF Added
  <1>5. \A j \in Indices(s) : Token(s, j).parent \in -1..(j - 1)
    BY DEF Working, Sound, Within
  <1>6. Children(t, i) = IF i = s.toksuper THEN Children(s, i) \cup {n} ELSE Children(s, i)
    BY <1>2, <1>3, <1>4 DEF Children
  <1>7. CASE i = n
    <2>1. Children(s, i) = {}
      BY <1>2, <1>5, <1>7 DEF Children
    <2>2. Children(t, i) = {}
      BY <1>1, <1>6, <1>7, <2>1
    <2>. QED
      BY <1>3, <1>7, <2>2, FS_EmptySet
  <1>8. CASE i \in Indices(s)
    <2>1. Token(s, i).size = Cardinality(Children(s, i))
      BY <1>8 DEF Working, Sound, Sizes
    <2>2. CASE i # s.toksuper
      BY <1>4, <1>6, <1>8, <2>1, <2>2
    <2>3. CASE i = s.toksuper
      <3>1. IsFiniteSet(Indices(s))
        BY <1>1, FS_Interval DEF Indices
      <3>2. IsFiniteSet(Children(s, i)) /\ n \notin Children(s, i)
        BY <1>2, <3>1, FS_Subset DEF Children
      <3>3. Cardinality(Children(s, i) \cup {n}) = Cardinality(Children(s, i)) + 1
        BY <3>2, FS_AddElement
      <3>. QED
        BY <1>4, <1>6, <1>8, <2>1, <2>3, <3>3
    <2>. QED
      BY <2>2, <2>3
  <1>. QED
    BY <1>2, <1>7, <1>8

(* It comes after all other tokens. *)
LEMMA AddPlaces ==
    ASSUME NEW c, NEW s, Working(c, s),
           NEW t, NEW type \in Types, NEW start \in Int, NEW end \in Int,
           NEW p \in Nat, NEW sup \in Int,
           Added(c, s, t, type, start, end, p, sup),
           s.pos <= start, start < p, end \in -1..p, end = -1 => type \in {"OBJECT", "ARRAY"}
    PROVE  Places(t) /\ Nested(t)
  <1>. DEFINE n == s.toknext
  <1>1. n \in Nat /\ s \in Parsers /\ Len(s.tokens) = n /\ t.toknext = n + 1 /\ t.pos = p
        /\ s.pos \in Nat
    BY WorkingFacts DEF Added
  <1>2. /\ Indices(t) = Indices(s) \cup {n} /\ n \notin Indices(s)
        /\ \A j \in Indices(s) : j \in Nat /\ j < n
    BY <1>1, AddedIndices
  <1>3. Token(t, n).start = start /\ Token(t, n).end = end /\ Token(t, n).type = type
    BY DEF Added
  <1>4. ASSUME NEW i \in Indices(s)
        PROVE  /\ Token(t, i).start = Token(s, i).start /\ Token(t, i).end = Token(s, i).end
               /\ Token(t, i).type = Token(s, i).type
               /\ Token(s, i).start \in Int /\ Token(s, i).end \in Int
               /\ 0 <= Token(s, i).start /\ Token(s, i).start < s.pos
               /\ -1 <= Token(s, i).end /\ Token(s, i).end <= s.pos
               /\ Token(s, i).end = -1 => Token(s, i).type \in {"OBJECT", "ARRAY"}
    <2>1. /\ Token(t, i).start = Token(s, i).start /\ Token(t, i).end = Token(s, i).end
          /\ Token(t, i).type = Token(s, i).type
      BY DEF Added
    <2>2. Token(s, i).start \in Int /\ Token(s, i).end \in Int
      BY <1>1, FieldsOf
    <2>3. /\ Token(s, i).start \in 0..(s.pos - 1) /\ Token(s, i).end \in -1..s.pos
          /\ Token(s, i).end = -1 => Token(s, i).type \in {"OBJECT", "ARRAY"}
      BY WorkingFacts DEF Places
    <2>. QED
      BY <1>1, <2>1, <2>2, <2>3
  <1>5. Places(t)
    <2>. SUFFICES ASSUME NEW i \in Indices(t)
                  PROVE  /\ Token(t, i).start \in 0..(p - 1) /\ Token(t, i).end \in -1..p
                         /\ Token(t, i).end = -1 => Token(t, i).type \in {"OBJECT", "ARRAY"}
      BY <1>1 DEF Places
    <2>1. CASE i = n
      <3>1. start \in 0..(p - 1)
        BY <1>1
      <3>. QED
        BY <1>3, <2>1, <3>1
    <2>2. CASE i \in Indices(s)
      <3>1. Token(s, i).start \in 0..(p - 1)
        BY <1>1, <1>4, <2>2
      <3>2. Token(s, i).end \in -1..p
        BY <1>1, <1>4, <2>2
      <3>. QED
        BY <1>4, <2>2, <3>1, <3>2
    <2>. QED
      BY <1>2, <2>1, <2>2
  <1>6. Nested(t)
    <2>. SUFFICES ASSUME NEW i \in Indices(t), NEW j \in Indices(t), i < j
                  PROVE  /\ Token(t, i).start < Token(t, j).start
                         /\ Token(t, i).end # -1 =>
                              \/ Token(t, i).end <= Token(t, j).start
                              \/ Token(t, j).end # -1 /\ Token(t, j).end < Token(t, i).end
      BY DEF Nested
    <2>1. i \in Indices(s)
      BY <1>1, <1>2
    <2>2. CASE j = n
      <3>1. Token(s, i).start < start /\ Token(s, i).end <= start
        BY <1>1, <1>4, <2>1
      <3>. QED
        BY <1>3, <1>4, <2>1, <2>2, <3>1
    <2>3. CASE j \in Indices(s)
      <3>1. Nested(s)
        BY WorkingFacts
      <3>. QED
        BY <1>4, <2>1, <2>3, <3>1 DEF Nested
    <2>. QED
      BY <1>2, <2>2, <2>3
  <1>. QED
    BY <1>5, <1>6

(* It is within all objects and arrays that are not closed. *)
LEMMA AddEnclosed ==
    ASSUME NEW c, NEW s, Working(c, s),
           NEW t, NEW type \in Types, NEW start \in Int, NEW end \in Int,
           NEW p \in Nat, NEW sup \in Int,
           Added(c, s, t, type, start, end, p, sup), start # -1,
           \/ end = -1 /\ sup = s.toknext
           \/ end # -1 /\ sup = s.toksuper
    PROVE  Enclosed(c, t)
  <1>. DEFINE n == s.toknext
  <1>1. n \in Nat /\ s \in Parsers /\ Len(s.tokens) = n /\ t.toknext = n + 1 /\ t.toksuper = sup
        /\ s.toksuper \in -1..(n - 1) /\ s.toksuper \in Int
    BY WorkingFacts DEF Added
  <1>2. /\ Indices(t) = Indices(s) \cup {n} /\ n \notin Indices(s)
        /\ \A j \in Indices(s) : j \in Nat /\ j < n
    BY <1>1, AddedIndices
  <1>3. /\ Token(t, n).start = start /\ Token(t, n).end = end
        /\ Token(t, n).parent = IF c.build.links THEN s.toksuper ELSE -1
    BY DEF Added
  <1>4. \A i \in Indices(s) :
          /\ Token(t, i).start = Token(s, i).start /\ Token(t, i).end = Token(s, i).end
          /\ Token(t, i).parent = Token(s, i).parent
    BY DEF Added
  <1>5. Unclosed(t) = IF end = -1 THEN Unclosed(s) \cup {n} ELSE Unclosed(s)
    BY <1>2, <1>3, <1>4 DEF Unclosed
  <1>. SUFFICES ASSUME c.build.links, NEW u \in Unclosed(t)
                PROVE  u <= t.toksuper /\ \A j \in Indices(t) : u < j => u <= Token(t, j).parent
    BY DEF Enclosed
  <1>6. CASE u = n
    <2>1. end = -1
      BY <1>2, <1>5, <1>6 DEF Unclosed
    <2>2. u <= t.toksuper
      BY <1>1, <1>6, <2>1
    <2>3. \A j \in Indices(t) : ~(u < j)
      BY <1>1, <1>2, <1>6
    <2>. QED
      BY <2>2, <2>3
  <1>7. CASE u \in Unclosed(s)
    <2>0. u \in Indices(s) /\ u \in Nat /\ u < n
      BY <1>2, <1>7 DEF Unclosed
    <2>1. u <= s.toksuper /\ \A j \in Indices(s) : u < j => u <= Token(s, j).parent
      BY <1>7, WorkingFacts DEF Enclosed
    <2>2. u <= t.toksuper
      BY <1>1, <2>0, <2>1
    <2>3. ASSUME NEW j \in Indices(t), u < j PROVE u <= Token(t, j).parent
      BY <1>2, <1>3, <1>4, <2>1, <2>3
    <2>. QED
      BY <2>2, <2>3
  <1>. QED
    BY <1>5, <1>6, <1>7

(* A token added at its place leaves a sound parser. *)
LEMMA AddSound ==
    ASSUME NEW c, NEW s, Working(c, s), s.toknext < c.num,
           NEW t, NEW type \in Types, NEW start \in Int, NEW end \in Int,
           NEW p \in Nat, NEW sup \in Int,
           Added(c, s, t, type, start, end, p, sup),
           s.pos <= start, start < p, p <= c.len,
           \/ end = -1 /\ sup = s.toknext /\ type \in {"OBJECT", "ARRAY"}
           \/ 0 <= end /\ end <= p /\ sup = s.toksuper
    PROVE  Sound(c, t)
  <1>1. /\ s.pos \in Nat /\ s.toknext \in Nat /\ s.toksuper \in -1..(s.toknext - 1) /\ c.len \in Nat
        /\ s.toksuper \in Int
    BY WorkingFacts
  <1>2. start < c.len /\ 0 <= start /\ start # -1
    BY <1>1
  <1>3. end \in -1..p
    BY <1>1
  <1>4. end \in -1..c.len
    BY <1>1
  <1>5. sup \in -1..s.toknext
    BY <1>1
  <1>6. Numbers(c, t) /\ Within(c, t)
    BY <1>2, <1>4, <1>5, AddNumbers
  <1>7. Sizes(c, t)
    BY AddSizes
  <1>8. end = -1 => type \in {"OBJECT", "ARRAY"}
    OBVIOUS
  <1>9. Places(t) /\ Nested(t)
    BY <1>3, <1>8, AddPlaces
  <1>10. \/ end = -1 /\ sup = s.toknext
         \/ end # -1 /\ sup = s.toksuper
    OBVIOUS
  <1>11. Enclosed(c, t)
    BY <1>2, <1>10, AddEnclosed
  <1>. QED
    BY <1>6, <1>7, <1>9, <1>11 DEF Sound, Working

(* A step that leaves the tokens alone. *)
LEMMA SameTokens ==
    ASSUME NEW c, NEW s, Working(c, s), NEW t \in Parsers,
           t.tokens = s.tokens, t.toknext = s.toknext, t.count = s.count,
           s.pos <= t.pos, t.pos <= c.len,
           t.toksuper \in -1..(s.toknext - 1), t.ret \in -3..c.num,
           c.build.links => \A u \in Unclosed(s) : u <= t.toksuper
    PROVE  Sound(c, t)
  <1>1. /\ Len(s.tokens) = s.toknext /\ s.toknext <= c.num /\ s.count <= s.toknext
        /\ s.pos \in Nat /\ s \in Parsers
    BY WorkingFacts
  <1>2. Numbers(c, t)
    BY <1>1 DEF Numbers
  <1>3. Indices(t) = Indices(s) /\ \A i : Token(t, i) = Token(s, i)
    BY DEF Indices, Token
  <1>4. Unclosed(t) = Unclosed(s) /\ \A i : Children(t, i) = Children(s, i)
    BY <1>3 DEF Unclosed, Children
  <1>5. Within(c, t) /\ Sizes(c, t)
    BY <1>3, <1>4 DEF Working, Sound, Within, Sizes
  <1>6. Places(t)
    <2>. SUFFICES ASSUME NEW i \in Indices(s)
                  PROVE  /\ Token(s, i).start \in 0..(t.pos - 1) /\ Token(s, i).end \in -1..t.pos
                         /\ Token(s, i).end = -1 => Token(s, i).type \in {"OBJECT", "ARRAY"}
      BY <1>3 DEF Places
    <2>1. /\ Token(s, i).start \in 0..(s.pos - 1) /\ Token(s, i).end \in -1..s.pos
          /\ Token(s, i).end = -1 => Token(s, i).type \in {"OBJECT", "ARRAY"}
      BY WorkingFacts DEF Places
    <2>2. Token(s, i).start \in Int /\ Token(s, i).end \in Int /\ t.pos \in Nat
      BY <1>1, FieldsOf, ParserFields
    <2>3. Token(s, i).start \in 0..(t.pos - 1)
      BY <1>1, <2>1, <2>2
    <2>4. Token(s, i).end \in -1..t.pos
      BY <1>1, <2>1, <2>2
    <2>. QED
      BY <2>1, <2>3, <2>4
  <1>7. Nested(t)
    BY <1>3, WorkingFacts DEF Nested
  <1>8. Enclosed(c, t)
    BY <1>3, <1>4, WorkingFacts DEF Enclosed
  <1>. QED
    BY <1>2, <1>5, <1>6, <1>7, <1>8 DEF Sound, Working

(* Returning, and moving on. *)
LEMMA ReturnSound ==
    ASSUME NEW c, NEW s, Working(c, s), NEW r \in -3..c.num
    PROVE  Sound(c, Returned(s, r))
  <1>. DEFINE t == Returned(s, r)
  <1>1. s \in Parsers /\ r \in Int /\ s.pos <= c.len /\ s.toksuper \in -1..(s.toknext - 1)
        /\ s.pos \in Nat /\ Enclosed(c, s)
    BY WorkingFacts
  <1>2. /\ t \in Parsers /\ t.tokens = s.tokens /\ t.toknext = s.toknext /\ t.count = s.count
        /\ t.pos = s.pos /\ t.toksuper = s.toksuper /\ t.ret = r
    BY <1>1, ReturnFacts
  <1>. HIDE DEF t
  <1>3. s.pos <= t.pos /\ t.pos <= c.len
    BY <1>1, <1>2
  <1>4. c.build.links => \A u \in Unclosed(s) : u <= t.toksuper
    BY <1>1, <1>2 DEF Enclosed
  <1>5. t.toksuper \in -1..(s.toknext - 1) /\ t.ret \in -3..c.num
    BY <1>1, <1>2
  <1>6. Sound(c, t)
    BY ONLY Working(c, s), <1>2, <1>3, <1>4, <1>5, SameTokens
  <1>. QED
    BY <1>6 DEF t

LEMMA MoveSound ==
    ASSUME NEW c, NEW s, Working(c, s), NEW i \in -1..(s.toknext - 1), NEW k \in Nat,
           s.pos <= k, k <= c.len,
           c.build.links => \A u \in Unclosed(s) : u <= i
    PROVE  Sound(c, MoveTo(Super(s, i), k))
  <1>. DEFINE h == Super(s, i)
              t == MoveTo(h, k)
  <1>1. s \in Parsers /\ i \in Int /\ s.ret \in -3..c.num /\ s.toknext \in Nat
    BY WorkingFacts
  <1>2. /\ h \in Parsers /\ h.tokens = s.tokens /\ h.toknext = s.toknext /\ h.count = s.count
        /\ h.pos = s.pos /\ h.toksuper = i /\ h.ret = s.ret
    BY <1>1, SuperFacts
  <1>. HIDE DEF h
  <1>3. /\ t \in Parsers /\ t.tokens = s.tokens /\ t.toknext = s.toknext /\ t.count = s.count
        /\ t.pos = k /\ t.toksuper = i /\ t.ret = s.ret
    BY <1>2, MoveFacts
  <1>. HIDE DEF t
  <1>4. s.pos <= t.pos /\ t.pos <= c.len
    BY <1>3
  <1>5. t.toksuper \in -1..(s.toknext - 1) /\ t.ret \in -3..c.num
    BY <1>1, <1>3
  <1>6. c.build.links => \A u \in Unclosed(s) : u <= t.toksuper
    BY <1>3
  <1>7. Sound(c, t)
    BY ONLY Working(c, s), <1>3, <1>4, <1>5, <1>6, SameTokens
  <1>. QED
    BY <1>7 DEF t, h

(* Passing a character. *)
LEMMA PassSound ==
    ASSUME NEW c, NEW s, Working(c, s), s.pos < c.len
    PROVE  Sound(c, MoveTo(s, s.pos + 1))
  <1>1. /\ s \in Parsers /\ s.pos \in Nat /\ s.toksuper \in -1..(s.toknext - 1) /\ s.toksuper \in Int
        /\ Enclosed(c, s) /\ c.len \in Nat
    BY WorkingFacts
  <1>2. Super(s, s.toksuper) = s
    BY <1>1 DEF Super, Parsers
  <1>3. s.pos + 1 \in Nat /\ s.pos <= s.pos + 1 /\ s.pos + 1 <= c.len
    BY <1>1
  <1>4. c.build.links => \A u \in Unclosed(s) : u <= s.toksuper
    BY <1>1 DEF Enclosed
  <1>5. Sound(c, MoveTo(Super(s, s.toksuper), s.pos + 1))
    BY <1>1, <1>3, <1>4, MoveSound
  <1>. QED
    BY <1>2, <1>5

(* A bracket that may not stand here leaves a token behind that belongs to *)
(* nothing.                                                                *)
LEMMA RefusedSound ==
    ASSUME NEW c, NEW s, Working(c, s), s.toknext < c.num
    PROVE  Sound(c, Returned(jsmn_alloc_token(s), JSMN_ERROR_INVAL))
  <1>. DEFINE a == jsmn_alloc_token(s)
              t == Returned(a, JSMN_ERROR_INVAL)
              n == s.toknext
  <1>0. /\ n \in Nat /\ s \in Parsers /\ Len(s.tokens) = n /\ s.pos <= c.len /\ s.count \in Nat
        /\ s.count <= n /\ s.toksuper \in -1..(n - 1) /\ s.toksuper \in Int
        /\ c.num \in Nat /\ c.len \in Nat
    BY WorkingFacts
  <1>1. /\ a \in Parsers /\ Len(a.tokens) = a.toknext /\ a.toknext = n + 1 /\ Keeps(a, s)
        /\ \A i \in Indices(s) : Token(a, i) = Token(s, i)
        /\ Token(a, n) = [type |-> "UNDEFINED", start |-> -1, end |-> -1, size |-> 0, parent |-> -1]
    BY <1>0, AllocFacts
  <1>. HIDE DEF a
  <1>2. /\ t \in Parsers /\ t.tokens = a.tokens /\ t.toknext = n + 1 /\ t.pos = s.pos
        /\ t.toksuper = s.toksuper /\ t.count = s.count /\ t.done /\ t.ret = -2
    <2>1. JSMN_ERROR_INVAL \in Int /\ JSMN_ERROR_INVAL = -2
      BY DEF JSMN_ERROR_INVAL
    <2>. QED
      BY <1>1, <2>1, ReturnFacts DEF Keeps
  <1>. HIDE DEF t
  <1>3. Numbers(c, t)
    <2>1. t.toknext <= c.num
      BY <1>0, <1>2
    <2>2. t.count <= t.toknext
      BY <1>0, <1>2
    <2>3. t.toksuper \in -1..(t.toknext - 1)
      BY <1>0, <1>2
    <2>4. t.ret \in -3..c.num
      BY <1>0, <1>2
    <2>. QED
      BY <1>0, <1>1, <1>2, <2>1, <2>2, <2>3, <2>4 DEF Numbers
  <1>4. /\ Indices(t) = Indices(s) \cup {n} /\ n \notin Indices(s)
        /\ \A i \in Indices(s) : i \in Nat /\ i < n
    BY <1>0, <1>2, AddedIndices
  <1>5. \A i \in Indices(s) : Token(t, i) = Token(s, i)
    BY <1>1, <1>2 DEF Token
  <1>6. /\ Token(t, n).start = -1 /\ Token(t, n).end = -1 /\ Token(t, n).size = 0
        /\ Token(t, n).parent = -1
    BY <1>1, <1>2 DEF Token
  <1>7. \A i \in Indices(s) :
          /\ Token(s, i).size <= n /\ Token(s, i).parent \in -1..(i - 1)
          /\ Token(s, i).start \in -1..(c.len - 1) /\ Token(s, i).end \in -1..c.len
    BY DEF Working, Sound, Within
  <1>8. Within(c, t)
    <2>. SUFFICES ASSUME NEW i \in Indices(t)
                  PROVE  /\ Token(t, i).size <= n + 1 /\ Token(t, i).parent \in -1..(i - 1)
                         /\ Token(t, i).start \in -1..(c.len - 1) /\ Token(t, i).end \in -1..c.len
      BY <1>2 DEF Within
    <2>1. CASE i \in Indices(s)
      <3>1. Token(s, i).size \in Nat
        BY <1>0, <2>1, FieldsOf
      <3>2. Token(s, i).size <= n + 1
        BY <1>0, <1>7, <2>1, <3>1
      <3>. QED
        BY <1>5, <1>7, <2>1, <3>2
    <2>2. CASE i = n
      <3>1. 0 <= n + 1 /\ -1 \in -1..(n - 1) /\ -1 \in -1..(c.len - 1) /\ -1 \in -1..c.len
        BY <1>0
      <3>. QED
        BY <1>6, <2>2, <3>1
    <2>. QED
      BY <1>4, <2>1, <2>2
  <1>9. Sizes(c, t)
    <2>. SUFFICES ASSUME c.build.links, NEW i \in Indices(t)
                  PROVE  Token(t, i).size = Cardinality(Children(t, i))
      BY DEF Sizes
    <2>1. Children(t, i) = Children(s, i)
      BY <1>0, <1>4, <1>5, <1>6 DEF Children
    <2>2. CASE i = n
      <3>1. Children(s, i) = {}
        BY <1>4, <1>7, <2>2 DEF Children
      <3>. QED
        BY <1>6, <2>1, <2>2, <3>1, FS_EmptySet
    <2>3. CASE i \in Indices(s)
      BY <1>5, <2>1, <2>3 DEF Working, Sound, Sizes
    <2>. QED
      BY <1>4, <2>2, <2>3
  <1>10. Invalid(t)
    BY <1>2 DEF Invalid, JSMN_ERROR_INVAL
  <1>. QED
    BY <1>3, <1>8, <1>9, <1>10 DEF Sound, Working, t, a

(* One object or array is closed. *)
LEMMA ClosedFacts ==
    ASSUME NEW s \in Parsers, Len(s.tokens) = s.toknext, NEW i \in Indices(s), NEW sup \in Int
    PROVE  LET t == Closed(s, i, sup)
           IN  /\ t \in Parsers /\ Len(t.tokens) = t.toknext /\ t.toknext = s.toknext
               /\ t.count = s.count /\ t.pos = s.pos + 1 /\ t.toksuper = sup
               /\ t.ret = s.ret /\ t.done = s.done
               /\ \A j \in Indices(s) : j # i => Token(t, j) = Token(s, j)
               /\ Token(t, i) = [Token(s, i) EXCEPT !.end = s.pos + 1]
  <1>. DEFINE k == s.pos + 1
              r == [Token(s, i) EXCEPT !.end = k]
              e == Put(s, i, r)
              h == Super(e, sup)
              t == MoveTo(h, k)
  <1>0. s.pos \in Nat /\ k \in Nat /\ s.toknext \in Nat
    BY ParserFields
  <1>1. Token(s, i) \in Tokens /\ i \in Nat
    BY FieldsOf
  <1>2. r \in Tokens
    <2>1. k \in Int
      BY <1>0
    <2>. HIDE DEF k
    <2>. QED
      BY <1>1, <2>1, Zenon DEF Tokens
  <1>3. Closed(s, i, sup) = t
    <2>1. i + 1 \in DOMAIN s.tokens
      BY <1>0, <1>1, ParserFields DEF Indices
    <2>. QED
      BY <2>1 DEF Closed, Put, Token, Parsers
  <1>. HIDE DEF r
  <1>4. /\ e \in Parsers /\ Len(e.tokens) = e.toknext /\ e.toknext = s.toknext /\ Keeps(e, s)
        /\ \A j \in Indices(s) : j # i => Token(e, j) = Token(s, j)
        /\ Token(e, i) = r
    BY <1>1, <1>2, ReplaceFacts
  <1>. HIDE DEF e
  <1>5. /\ h \in Parsers /\ h.tokens = e.tokens /\ h.toknext = e.toknext /\ h.count = e.count
        /\ h.toksuper = sup /\ h.ret = e.ret /\ h.done = e.done
    BY <1>4, SuperFacts
  <1>. HIDE DEF h, k
  <1>6. /\ t \in Parsers /\ t.tokens = e.tokens /\ t.toknext = s.toknext /\ t.count = s.count
        /\ t.pos = k /\ t.toksuper = sup /\ t.ret = s.ret /\ t.done = s.done
    BY <1>0, <1>4, <1>5, MoveFacts DEF Keeps
  <1>. HIDE DEF t
  <1>7. /\ \A j \in Indices(s) : j # i => Token(t, j) = Token(s, j)
        /\ Token(t, i) = r
    BY <1>4, <1>6 DEF Token
  <1>8. Len(t.tokens) = t.toknext
    BY <1>4, <1>6
  <1>. QED
    BY <1>3, <1>6, <1>7, <1>8 DEF k, r

(* The innermost object or array is closed. *)
LEMMA CloseSound ==
    ASSUME NEW c, NEW s, Working(c, s), s.pos < c.len,
           NEW i \in Unclosed(s), \A u \in Unclosed(s) : u <= i,
           NEW sup \in -1..(s.toknext - 1),
           c.build.links => \A u \in Unclosed(s) : u # i => u <= sup
    PROVE  Sound(c, Closed(s, i, sup))
  <1>. DEFINE k == s.pos + 1
              r == [Token(s, i) EXCEPT !.end = k]
              t == Closed(s, i, sup)
  <1>0. /\ s \in Parsers /\ Len(s.tokens) = s.toknext /\ s.pos \in Nat /\ k \in Nat /\ k <= c.len
        /\ s.toknext \in Nat /\ sup \in Int /\ s.count <= s.toknext /\ s.toknext <= c.num
        /\ s.ret \in -3..c.num /\ c.len \in Nat /\ s.toksuper \in Int
    BY WorkingFacts
  <1>1. i \in Indices(s) /\ Token(s, i) \in Tokens /\ i \in Nat
    BY <1>0, FieldsOf DEF Unclosed
  <1>2. /\ r \in Tokens /\ r.type = Token(s, i).type /\ r.start = Token(s, i).start
        /\ r.end = k /\ r.size = Token(s, i).size /\ r.parent = Token(s, i).parent
    <2>1. k \in Int
      BY <1>0
    <2>. HIDE DEF k
    <2>. QED
      BY <1>1, <2>1, Zenon DEF Tokens
  <1>6. /\ t \in Parsers /\ Len(t.tokens) = t.toknext /\ t.toknext = s.toknext /\ t.count = s.count
        /\ t.pos = k /\ t.toksuper = sup /\ t.ret = s.ret /\ t.done = s.done
        /\ \A j \in Indices(s) : j # i => Token(t, j) = Token(s, j)
        /\ Token(t, i) = r
    BY <1>0, <1>1, ClosedFacts, SMTT(30)
  <1>. HIDE DEF r, k, t
  <1>7. Numbers(c, t)
    BY <1>0, <1>6 DEF Numbers
  <1>8. /\ Indices(t) = Indices(s)
        /\ \A j \in Indices(s) : j # i => Token(t, j) = Token(s, j)
        /\ Token(t, i) = r
    BY <1>6 DEF Indices
  <1>9. \A j \in Indices(s) :
          /\ Token(t, j).type = Token(s, j).type /\ Token(t, j).start = Token(s, j).start
          /\ Token(t, j).size = Token(s, j).size /\ Token(t, j).parent = Token(s, j).parent
          /\ Token(t, j).end = IF j = i THEN k ELSE Token(s, j).end
    BY <1>2, <1>8
  <1>10. k # -1 /\ k \in -1..c.len
    BY <1>0 DEF k
  <1>11. Within(c, t)
    BY <1>6, <1>8, <1>9, <1>10 DEF Working, Sound, Within
  <1>12. Sizes(c, t)
    <2>1. \A j : Children(t, j) = Children(s, j)
      BY <1>8, <1>9 DEF Children
    <2>. QED
      BY <1>8, <1>9, <2>1 DEF Working, Sound, Sizes
  <1>13. ASSUME NEW j \in Indices(s)
         PROVE  /\ Token(s, j).start \in Int /\ Token(s, j).end \in Int
                /\ 0 <= Token(s, j).start /\ Token(s, j).start < s.pos
                /\ -1 <= Token(s, j).end /\ Token(s, j).end <= s.pos
                /\ Token(s, j).end = -1 => Token(s, j).type \in {"OBJECT", "ARRAY"}
    <2>1. Token(s, j).start \in Int /\ Token(s, j).end \in Int
      BY <1>0, FieldsOf
    <2>2. /\ Token(s, j).start \in 0..(s.pos - 1) /\ Token(s, j).end \in -1..s.pos
          /\ Token(s, j).end = -1 => Token(s, j).type \in {"OBJECT", "ARRAY"}
      BY WorkingFacts DEF Places
    <2>. QED
      BY <1>0, <2>1, <2>2
  <1>14. Places(t)
    <2>. SUFFICES ASSUME NEW j \in Indices(s)
                  PROVE  /\ Token(t, j).start \in 0..(k - 1) /\ Token(t, j).end \in -1..k
                         /\ Token(t, j).end = -1 => Token(t, j).type \in {"OBJECT", "ARRAY"}
      BY <1>6, <1>8 DEF Places
    <2>1. Token(s, j).start \in 0..(k - 1)
      BY <1>0, <1>13 DEF k
    <2>2. Token(s, j).end \in -1..k /\ k \in -1..k
      BY <1>0, <1>13 DEF k
    <2>. QED
      BY <1>9, <1>10, <1>13, <2>1, <2>2
  <1>15. Nested(t)
    <2>. SUFFICES ASSUME NEW x \in Indices(s), NEW j \in Indices(s), x < j
                  PROVE  /\ Token(t, x).start < Token(t, j).start
                         /\ Token(t, x).end # -1 =>
                              \/ Token(t, x).end <= Token(t, j).start
                              \/ Token(t, j).end # -1 /\ Token(t, j).end < Token(t, x).end
      BY <1>8 DEF Nested
    <2>1. /\ Token(s, x).start < Token(s, j).start
          /\ Token(s, x).end # -1 =>
               \/ Token(s, x).end <= Token(s, j).start
               \/ Token(s, j).end # -1 /\ Token(s, j).end < Token(s, x).end
      BY WorkingFacts DEF Nested
    <2>2. CASE x = i
      <3>1. j # i /\ j \notin Unclosed(s)
        <4>1. x \in Nat /\ j \in Nat
          BY <1>0, FieldsOf
        <4>. QED
          BY <2>2, <4>1
      <3>2. Token(s, j).start # -1
        BY <1>13
      <3>3. Token(s, j).end # -1
        BY <3>1, <3>2 DEF Unclosed
      <3>4. Token(s, j).end < k
        BY <1>0, <1>13 DEF k
      <3>. QED
        BY <1>9, <2>1, <2>2, <3>1, <3>3, <3>4
    <2>3. CASE x # i
      <3>1. CASE j # i
        BY <1>9, <2>1, <2>3, <3>1
      <3>2. CASE j = i
        <4>1. Token(s, j).end = -1
          BY <3>2 DEF Unclosed
        <4>. QED
          BY <1>9, <2>1, <2>3, <3>2, <4>1
      <3>. QED
        BY <3>1, <3>2
    <2>. QED
      BY <2>2, <2>3
  <1>16. Unclosed(t) = Unclosed(s) \ {i}
    BY <1>8, <1>9, <1>10 DEF Unclosed
  <1>17. Enclosed(c, t)
    <2>1. Enclosed(c, s)
      BY WorkingFacts
    <2>. QED
      BY <1>6, <1>8, <1>9, <1>16, <2>1 DEF Enclosed
  <1>. QED
    BY <1>7, <1>11, <1>12, <1>14, <1>15, <1>17 DEF Sound, Working, t
-----------------------------------------------------------------------------
(* The searches are recursive functions that look at one later place only. *)
(* Such a function is there if every place has a rank that falls, ...      *)
SearchStep(D, Stop, v, nx, f) == [k \in D |-> IF k \in Stop THEN v[k] ELSE f[nx[k]]]

LEMMA SearchExists ==
    ASSUME NEW D, NEW Stop, NEW v, NEW nx, NEW N \in Nat, NEW rank \in [D -> 0..N],
           \A k \in D : k \notin Stop => nx[k] \in D /\ rank[nx[k]] < rank[k]
    PROVE  \E f : f = SearchStep(D, Stop, v, nx, f)
  <1>. DEFINE Low(n) == {k \in D : rank[k] < n}
              S == {n \in Nat : \E f : f = SearchStep(Low(n), Stop, v, nx, f)}
  <1>0. \A k \in D : rank[k] \in Nat /\ rank[k] <= N
    OBVIOUS
  <1>1. 0 \in S
    <2>1. Low(0) = {}
      BY <1>0
    <2>. DEFINE f == [k \in {} |-> k]
    <2>2. f = SearchStep(Low(0), Stop, v, nx, f)
      BY <2>1 DEF SearchStep
    <2>. QED
      BY <2>2
  <1>2. ASSUME NEW n \in S PROVE n + 1 \in S
    <2>0. n \in Nat /\ n + 1 \in Nat
      OBVIOUS
    <2>1. PICK f : f = SearchStep(Low(n), Stop, v, nx, f)
      OBVIOUS
    <2>. DEFINE g == [k \in Low(n + 1) |-> IF k \in Stop THEN v[k] ELSE f[nx[k]]]
                L == Low(n)
                M == Low(n + 1)
    <2>2. L \subseteq M
      BY <1>0, <2>0
    <2>3. \A k \in M : k \notin Stop => nx[k] \in L
      BY <1>0, <2>0
    <2>4. \A k \in M : g[k] = IF k \in Stop THEN v[k] ELSE f[nx[k]]
      OBVIOUS
    <2>5. \A k \in L : f[k] = IF k \in Stop THEN v[k] ELSE f[nx[k]]
      BY <2>1 DEF SearchStep
    <2>6. g = [k \in M |-> g[k]]
      OBVIOUS
    <2>. HIDE DEF L, M, g
    <2>7. \A k \in L : g[k] = f[k]
      BY <2>2, <2>4, <2>5
    <2>8. \A k \in M : g[k] = IF k \in Stop THEN v[k] ELSE g[nx[k]]
      BY <2>3, <2>4, <2>7
    <2>9. g = [k \in M |-> IF k \in Stop THEN v[k] ELSE g[nx[k]]]
      BY <2>6, <2>8
    <2>10. g = SearchStep(Low(n + 1), Stop, v, nx, g)
      BY <2>9 DEF SearchStep, M
    <2>. HIDE DEF Low
    <2>. QED
      BY <2>0, <2>10
  <1>3. S = Nat
    <2>1. S \in SUBSET Nat
      OBVIOUS
    <2>. HIDE DEF S
    <2>. QED
      BY <1>1, <1>2, <2>1, Induction
  <1>4. N + 1 \in S
    BY <1>3
  <1>5. Low(N + 1) = D
    BY <1>0
  <1>6. \E f : f = SearchStep(Low(N + 1), Stop, v, nx, f)
    BY <1>4
  <1>. HIDE DEF Low
  <1>. QED
    BY <1>5, <1>6

(* ... and what holds where it stops, and is passed on, holds everywhere. *)
LEMMA SearchFinds ==
    ASSUME NEW D, NEW Stop, NEW v, NEW nx, NEW N \in Nat, NEW rank \in [D -> 0..N], NEW V,
           \A k \in D : k \notin Stop => nx[k] \in D /\ rank[nx[k]] < rank[k] /\ V[nx[k]] \subseteq V[k],
           \A k \in D : k \in Stop => v[k] \in V[k],
           NEW f, f = SearchStep(D, Stop, v, nx, f)
    PROVE  \A k \in D : f[k] \in V[k]
  <1>. DEFINE S == {n \in Nat : \A k \in D : rank[k] < n => f[k] \in V[k]}
  <1>0. \A k \in D : rank[k] \in Nat /\ rank[k] <= N
    OBVIOUS
  <1>1. \A k \in D : f[k] = IF k \in Stop THEN v[k] ELSE f[nx[k]]
    BY DEF SearchStep
  <1>2. 0 \in S
    BY <1>0
  <1>3. ASSUME NEW n \in S PROVE n + 1 \in S
    <2>0. n \in Nat /\ n + 1 \in Nat /\ \A k \in D : rank[k] < n => f[k] \in V[k]
      OBVIOUS
    <2>1. ASSUME NEW k \in D, rank[k] < n + 1 PROVE f[k] \in V[k]
      <3>1. CASE k \in Stop
        BY <1>1, <3>1
      <3>2. CASE k \notin Stop
        <4>1. nx[k] \in D /\ rank[nx[k]] < rank[k] /\ V[nx[k]] \subseteq V[k]
          BY <3>2
        <4>2. rank[nx[k]] < n
          BY <1>0, <2>0, <2>1, <4>1
        <4>. QED
          BY <1>1, <2>0, <3>2, <4>1, <4>2
      <3>. QED
        BY <3>1, <3>2
    <2>. QED
      BY <2>0, <2>1
  <1>4. S = Nat
    <2>1. S \in SUBSET Nat
      OBVIOUS
    <2>. HIDE DEF S
    <2>. QED
      BY <1>2, <1>3, <2>1, Induction
  <1>5. N + 1 \in S
    BY <1>4
  <1>. QED
    BY <1>0, <1>5

(* Where the scan goes on behind the four digits of an escape, or at the   *)
(* end of the text if that comes first.                                    *)
AfterDigits(c, k) == Min({m \in k..(k + 4) : m = k + 4 \/ AtEnd(c, m)})

LEMMA AfterFacts ==
    ASSUME NEW c, c.len \in Nat, NEW k \in Nat, k <= c.len
    PROVE  LET a == AfterDigits(c, k) IN
           /\ a \in Nat /\ k <= a /\ a <= k + 4 /\ a <= c.len
           /\ a = k + 4 \/ AtEnd(c, a)
           /\ \A m \in k..(a - 1) : ~AtEnd(c, m)
  <1>. DEFINE A == {m \in k..(k + 4) : m = k + 4 \/ AtEnd(c, m)}
              a == Min(A)
  <1>1. A \in SUBSET Nat
    OBVIOUS
  <1>2. k + 4 \in A /\ (c.len <= k + 4 => c.len \in A)
    BY DEF AtEnd
  <1>3. \A m \in A : m >= k /\ m <= k + 4 /\ (m = k + 4 \/ AtEnd(c, m))
    OBVIOUS
  <1>4. \A m \in k..(k + 4) : AtEnd(c, m) => m \in A
    OBVIOUS
  <1>. HIDE DEF A
  <1>5. a \in A /\ \A m \in A : a <= m
    BY <1>1, <1>2, Least
  <1>. HIDE DEF a
  <1>6. a \in Nat /\ k <= a /\ a <= k + 4 /\ (a = k + 4 \/ AtEnd(c, a))
    BY <1>1, <1>3, <1>5
  <1>7. a <= c.len
    <2>1. CASE c.len <= k + 4
      BY <1>2, <1>5, <2>1
    <2>2. CASE ~(c.len <= k + 4)
      BY <1>6, <2>2
    <2>. QED
      BY <2>1, <2>2
  <1>8. ASSUME NEW m \in k..(a - 1), AtEnd(c, m) PROVE FALSE
    <2>1. m \in Nat /\ m < a /\ m \in k..(k + 4)
      BY <1>6
    <2>. QED
      BY <1>4, <1>5, <1>6, <1>8, <2>1
  <1>9. AfterDigits(c, k) = a
    BY DEF AfterDigits, A, a
  <1>. QED
    BY <1>6, <1>7, <1>8, <1>9

(* One step of the scan of a string. *)
ScanStep(c, k) ==
    IF AtEnd(c, k) THEN JSMN_ERROR_PART
    ELSE IF Char(c, k) = "\"" THEN k
    ELSE IF Char(c, k) # "\\" \/ k + 1 >= c.len THEN StringEnd(c, k + 1)
    ELSE IF Char(c, k + 1) \in Escapable THEN StringEnd(c, k + 2)
    ELSE IF Char(c, k + 1) = "u"
            /\ \A m \in (k + 2)..(AfterDigits(c, k + 2) - 1) : Char(c, m) \in Hex
         THEN StringEnd(c, AfterDigits(c, k + 2))
    ELSE JSMN_ERROR_INVAL

(* A string ends in front of the end of the text, or not at all. *)
LEMMA StringEndFacts ==
    ASSUME NEW c, c.len \in Nat, NEW from \in 0..c.len
    PROVE  /\ StringEnd(c, from) \in {-3, -2} \cup (from..(c.len - 1))
           /\ StringEnd(c, from) = ScanStep(c, from)
  <1>. DEFINE After(k) == Min({m \in k..(k + 4) : m = k + 4 \/ AtEnd(c, m)})
              D == 0..c.len
              Valid(k) == \A m \in (k + 2)..(After(k + 2) - 1) : Char(c, m) \in Hex
              Scan(f) == [k \in 0..c.len |->
                            IF AtEnd(c, k) THEN JSMN_ERROR_PART
                            ELSE IF Char(c, k) = "\"" THEN k
                            ELSE IF Char(c, k) # "\\" \/ k + 1 >= c.len THEN f[k + 1]
                            ELSE IF Char(c, k + 1) \in Escapable THEN f[k + 2]
                            ELSE IF Char(c, k + 1) = "u" /\ \A m \in (k + 2)..(After(k + 2) - 1) : Char(c, m) \in Hex
                                 THEN f[After(k + 2)]
                            ELSE JSMN_ERROR_INVAL]
              scan == CHOOSE f : f = Scan(f)
              One == {k \in D : Char(c, k) # "\\" \/ k + 1 >= c.len}
              Two == {k \in D : Char(c, k + 1) \in Escapable}
              Uni == {k \in D : Char(c, k + 1) = "u" /\ Valid(k)}
              Stop == {k \in D : AtEnd(c, k) \/ Char(c, k) = "\""
                                  \/ (k \notin One /\ k \notin Two /\ k \notin Uni)}
              v == [k \in D |-> IF AtEnd(c, k) THEN JSMN_ERROR_PART
                                ELSE IF Char(c, k) = "\"" THEN k ELSE JSMN_ERROR_INVAL]
              nx == [k \in D |-> IF k \in One THEN k + 1 ELSE IF k \in Two THEN k + 2 ELSE After(k + 2)]
              rank == [k \in D |-> c.len - k]
              V == [k \in D |-> {-3, -2} \cup (k..(c.len - 1))]
  <1>0. c.len \in Nat
    OBVIOUS
  <1>1. ASSUME NEW f PROVE Scan(f) = SearchStep(D, Stop, v, nx, f)
    <2>1. ASSUME NEW k \in D
          PROVE  Scan(f)[k] = IF k \in Stop THEN v[k] ELSE f[nx[k]]
      <3>. HIDE DEF After
      <3>. QED
        OBVIOUS
    <2>. QED
      BY <2>1 DEF SearchStep
  <1>2. ASSUME NEW k \in D, k + 2 <= c.len
        PROVE  After(k + 2) \in Nat /\ k + 2 <= After(k + 2) /\ After(k + 2) <= c.len
    <2>1. k + 2 \in Nat
      BY <1>0
    <2>2. After(k + 2) = AfterDigits(c, k + 2)
      BY DEF AfterDigits
    <2>. QED
      BY <1>0, <1>2, <2>1, <2>2, AfterFacts
  <1>3. ASSUME NEW k \in D, k \notin Stop
        PROVE  nx[k] \in D /\ rank[nx[k]] < rank[k] /\ V[nx[k]] \subseteq V[k]
    <2>0. ~AtEnd(c, k)
      BY <1>3
    <2>1. k \in Nat /\ k < c.len
      BY <1>0, <2>0 DEF AtEnd
    <2>2. nx[k] \in Nat /\ k < nx[k] /\ nx[k] <= c.len
      <3>. HIDE DEF After, Stop, Two, Uni
      <3>1. CASE k \in One
        <4>1. nx[k] = k + 1
          BY <3>1
        <4>. HIDE DEF nx
        <4>. QED
          BY <1>0, <2>1, <4>1
      <3>2. CASE k \notin One
        <4>1. k + 2 <= c.len
          BY <1>0, <2>1, <3>2
        <4>2. nx[k] = k + 2 \/ nx[k] = After(k + 2)
          BY <3>2
        <4>3. After(k + 2) \in Nat /\ k + 2 <= After(k + 2) /\ After(k + 2) <= c.len
          BY <1>2, <4>1
        <4>. HIDE DEF nx
        <4>. QED
          BY <1>0, <2>1, <4>1, <4>2, <4>3
      <3>. QED
        BY <3>1, <3>2
    <2>. HIDE DEF nx
    <2>3. nx[k] \in D
      BY <1>0, <2>2
    <2>. QED
      BY <1>0, <2>1, <2>2, <2>3
  <1>4. \A k \in D : k \in Stop => v[k] \in V[k]
    <2>. SUFFICES ASSUME NEW k \in D PROVE v[k] \in V[k]
      OBVIOUS
    <2>1. \/ v[k] = -3 \/ v[k] = -2
          \/ v[k] = k /\ ~AtEnd(c, k)
      BY DEF JSMN_ERROR_PART, JSMN_ERROR_INVAL
    <2>2. V[k] = {-3, -2} \cup (k..(c.len - 1))
      OBVIOUS
    <2>3. ~AtEnd(c, k) => k \in k..(c.len - 1)
      BY <1>0 DEF AtEnd
    <2>. HIDE DEF v, V
    <2>. QED
      BY <2>1, <2>2, <2>3
  <1>5. rank \in [D -> 0..c.len]
    BY <1>0
  <1>6. \A k : StringEnd(c, k) = scan[k]
    BY DEF StringEnd
  <1>7. V[from] = {-3, -2} \cup (from..(c.len - 1)) /\ from \in D
    BY <1>0
  <1>7a. \A f : f = Scan(f) => f[from] =
                            IF AtEnd(c, from) THEN JSMN_ERROR_PART
                            ELSE IF Char(c, from) = "\"" THEN from
                            ELSE IF Char(c, from) # "\\" \/ from + 1 >= c.len THEN f[from + 1]
                            ELSE IF Char(c, from + 1) \in Escapable THEN f[from + 2]
                            ELSE IF Char(c, from + 1) = "u"
                                    /\ \A m \in (from + 2)..(After(from + 2) - 1) : Char(c, m) \in Hex
                                 THEN f[After(from + 2)]
                            ELSE JSMN_ERROR_INVAL
    <2>. HIDE DEF After
    <2>. QED
      OBVIOUS
  <1>. HIDE DEF Scan, Stop, v, nx, rank, V, D
  <1>8. \E f : f = SearchStep(D, Stop, v, nx, f)
    BY <1>0, <1>3, <1>5, SearchExists
  <1>9. \E f : f = Scan(f)
    BY <1>1, <1>8
  <1>10. scan = Scan(scan)
    BY <1>9
  <1>. HIDE DEF scan
  <1>11. scan = SearchStep(D, Stop, v, nx, scan)
    BY <1>1, <1>10
  <1>12. \A k \in D : scan[k] \in V[k]
    BY <1>0, <1>3, <1>4, <1>5, <1>11, SearchFinds
  <1>13. After(from + 2) = AfterDigits(c, from + 2)
    BY DEF AfterDigits
  <1>. HIDE DEF After
  <1>14. StringEnd(c, from) = ScanStep(c, from)
    BY <1>6, <1>7a, <1>10, <1>13 DEF ScanStep
  <1>. QED
    BY <1>6, <1>7, <1>12, <1>14

(* Following the links leads to the innermost unclosed token, if there is  *)
(* one.                                                                    *)
LEMMA PartnerFacts ==
    ASSUME NEW c, NEW s, Working(c, s), c.build.links, s.toknext >= 1
    PROVE  /\ Partner(s) \in Indices(s)
           /\ \A u \in Unclosed(s) : u <= Partner(s)
  <1>. DEFINE D == Indices(s)
              last == s.toknext - 1
              Stop == {i \in D : i \in Unclosed(s) \/ Token(s, i).parent = -1}
              v == [i \in D |-> i]
              nx == [i \in D |-> Token(s, i).parent]
              Up(f) == [i \in Indices(s) |->
                          IF i \in Unclosed(s) \/ Token(s, i).parent = -1 THEN i
                          ELSE f[Token(s, i).parent]]
              up == CHOOSE f : f = Up(f)
              V == [i \in D |-> {m \in D : m <= i /\ \A u \in Unclosed(s) : u <= i => u <= m}]
  <1>0. s.toknext \in Nat /\ last \in Nat /\ last \in D /\ s \in Parsers /\ Len(s.tokens) = s.toknext
    BY WorkingFacts DEF Indices
  <1>1. /\ \A i \in D : i \in Nat /\ i <= last /\ Token(s, i).parent \in Int
        /\ \A i \in D : Token(s, i).parent \in -1..(i - 1)
        /\ \A u \in Unclosed(s) : u \in D /\ \A j \in D : u < j => u <= Token(s, j).parent
    <2>1. \A i \in D : i \in Nat /\ i <= last /\ Token(s, i).parent \in Int
      BY <1>0, FieldsOf DEF Indices
    <2>2. \A i \in D : Token(s, i).parent \in -1..(i - 1)
      BY DEF Working, Sound, Within
    <2>3. \A u \in Unclosed(s) : u \in D /\ \A j \in D : u < j => u <= Token(s, j).parent
      BY WorkingFacts DEF Enclosed, Unclosed
    <2>. QED
      BY <2>1, <2>2, <2>3
  <1>2. \A f : Up(f) = SearchStep(D, Stop, v, nx, f)
    BY DEF SearchStep
  <1>3. ASSUME NEW i \in D, i \notin Stop
        PROVE  nx[i] \in D /\ v[nx[i]] < v[i] /\ V[nx[i]] \subseteq V[i]
    <2>. DEFINE j == Token(s, i).parent
    <2>1. j \in Nat /\ j < i /\ i \in Nat /\ i <= last
      BY <1>1, <1>3
    <2>2. j \in D
      BY <1>0, <2>1 DEF Indices
    <2>3. ASSUME NEW m \in V[j] PROVE m \in V[i]
      <3>1. m \in D /\ m <= j /\ \A u \in Unclosed(s) : u <= j => u <= m
        BY <2>2, <2>3
      <3>2. m <= i
        BY <1>1, <2>1, <3>1
      <3>3. ASSUME NEW u \in Unclosed(s), u <= i PROVE u <= m
        <4>1. u # i
          BY <1>3
        <4>2. u < i
          <5>1. u \in Nat /\ i \in Nat
            BY <1>1, <2>1
          <5>. QED
            BY ONLY <3>3, <4>1, <5>1
        <4>. QED
          BY <1>1, <3>1, <4>2
      <3>. QED
        BY <3>1, <3>2, <3>3
    <2>. QED
      BY <2>1, <2>2, <2>3
  <1>4. \A i \in D : i \in Stop => v[i] \in V[i]
    BY <1>1
  <1>5. v \in [D -> 0..last]
    BY <1>0, <1>1
  <1>6. Partner(s) = up[last]
    BY DEF Partner
  <1>7. V[last] = {m \in D : m <= last /\ \A u \in Unclosed(s) : u <= last => u <= m}
    BY <1>0
  <1>. HIDE DEF Up, Stop, v, nx, V, D
  <1>8. \E f : f = SearchStep(D, Stop, v, nx, f)
    BY <1>0, <1>3, <1>5, SearchExists
  <1>9. \E f : f = Up(f)
    BY <1>2, <1>8
  <1>10. up = Up(up)
    BY <1>9
  <1>. HIDE DEF up
  <1>11. up = SearchStep(D, Stop, v, nx, up)
    BY <1>2, <1>10
  <1>12. \A i \in D : up[i] \in V[i]
    BY <1>0, <1>3, <1>4, <1>5, <1>11, SearchFinds
  <1>13. up[last] \in V[last]
    BY <1>0, <1>12
  <1>14. up[last] \in D /\ \A u \in Unclosed(s) : u <= last => u <= up[last]
    BY <1>7, <1>13
  <1>15. \A u \in Unclosed(s) : u <= last
    BY <1>1
  <1>. QED
    BY <1>6, <1>14, <1>15 DEF D

(* The innermost of some tokens is the last of them. *)
LEMMA InnermostFacts ==
    ASSUME NEW s, s.toknext \in Nat, NEW I \in SUBSET Indices(s)
    PROVE  /\ Innermost(I) \in -1..(s.toknext - 1)
           /\ I = {} <=> Innermost(I) = -1
           /\ I # {} => Innermost(I) \in I /\ \A u \in I : u <= Innermost(I)
  <1>1. \A i \in Indices(s) : i \in Nat /\ i <= s.toknext - 1
    BY DEF Indices
  <1>2. CASE I = {}
    BY <1>2 DEF Innermost
  <1>3. CASE I # {}
    <2>1. I \in SUBSET Nat /\ \A u \in I : u <= s.toknext
      BY <1>1
    <2>2. Max(I) \in I /\ \A u \in I : u <= Max(I)
      BY <1>3, <2>1, Greatest
    <2>3. Innermost(I) = Max(I)
      BY <1>3 DEF Innermost
    <2>4. Max(I) \in Nat /\ Max(I) <= s.toknext - 1
      BY <1>1, <2>2
    <2>. QED
      BY <1>3, <2>2, <2>3, <2>4
  <1>. QED
    BY <1>2, <1>3
-----------------------------------------------------------------------------
(* Each part of an iteration of jsmn_parse leaves a sound parser.  First a *)
(* string or a primitive that was scanned.                                 *)
LEMMA ScannedSound ==
    ASSUME NEW c, NEW s, Working(c, s), NEW type \in Types, NEW start \in Nat, NEW e \in Nat,
           s.pos <= start
    PROVE  LET t == Scanned(c, s, type, start, e)
           IN  \/ t = Returned(s, JSMN_ERROR_NOMEM) /\ NoRoom(c, s)
               \/ /\ s.toknext < c.num /\ ~t.done
                  /\ Added(c, s, t, type, start, e, e, s.toksuper)
                  /\ Added(c, s, MoveTo(t, e + 1), type, start, e, e + 1, s.toksuper)
  <1>. DEFINE g == GrowSuper(jsmn_fill_token(c, jsmn_alloc_token(s), type, start, e))
              t == Scanned(c, s, type, start, e)
  <1>0. /\ s \in Parsers /\ Len(s.tokens) = s.toknext /\ s.toksuper \in -1..(s.toknext - 1)
        /\ s.toknext \in Nat /\ c.num \in Nat /\ ~c.null /\ CallOK(c) /\ ~s.done
    BY WorkingFacts DEF Working, Sound
  <1>1. CASE NoRoom(c, s)
    BY <1>0, <1>1 DEF Scanned
  <1>2. CASE ~NoRoom(c, s)
    <2>1. s.toknext < c.num
      BY <1>0, <1>2 DEF NoRoom
    <2>2. t = MoveTo(Counted(g), e)
      BY <1>0, <1>2 DEF Scanned
    <2>3. start \in Int /\ e \in Int /\ e \in Nat /\ e + 1 \in Nat /\ 0 \in Int
      OBVIOUS
    <2>4. Added(c, s, MoveTo(Counted(g), e), type, start, e, e, s.toksuper)
      BY <1>0, <2>3, AddFacts
    <2>5. Added(c, s, MoveTo(Counted(g), e + 1), type, start, e, e + 1, s.toksuper)
      BY <1>0, <2>3, AddFacts
    <2>. HIDE DEF g
    <2>6. MoveTo(t, e + 1) = MoveTo(Counted(g), e + 1)
      BY <2>2 DEF MoveTo, Counted
    <2>7. ~t.done
      BY <1>0, <2>2, <2>4 DEF Added
    <2>. QED
      BY <2>1, <2>2, <2>4, <2>5, <2>6, <2>7
  <1>. QED
    BY <1>1, <1>2

(* The errors are values that may be returned. *)
LEMMA Errors ==
    ASSUME NEW n \in Nat
    PROVE  /\ JSMN_ERROR_NOMEM \in -3..n /\ JSMN_ERROR_INVAL \in -3..n /\ JSMN_ERROR_PART \in -3..n
  BY DEF JSMN_ERROR_NOMEM, JSMN_ERROR_INVAL, JSMN_ERROR_PART

LEMMA PrimitiveSound ==
    ASSUME NEW c, NEW s, Working(c, s), ~AtEnd(c, s.pos), Char(c, s.pos) \notin Delimiters(c)
    PROVE  Sound(c, jsmn_parse_primitive(c, s))
  <1>. DEFINE E == {k \in s.pos..c.len : AtEnd(c, k) \/ Char(c, k) \in Delimiters(c) \cup {"BAD"}}
              e == Min(E)
              t == Scanned(c, s, "PRIMITIVE", s.pos, e)
  <1>0. /\ s.pos \in Nat /\ c.len \in Nat /\ s.pos <= c.len /\ c.num \in Nat /\ s.toksuper \in Int
        /\ "PRIMITIVE" \in Types /\ s.pos <= s.pos
    BY WorkingFacts DEF Types
  <1>1. E \in SUBSET Nat /\ c.len \in E
    BY <1>0 DEF AtEnd
  <1>2. e \in E /\ e \in Nat /\ s.pos <= e /\ e <= c.len
    <2>1. e \in E
      <3>. HIDE DEF E
      <3>. QED
        BY <1>1, Least
    <2>. HIDE DEF e
    <2>. QED
      BY <1>0, <2>1
  <1>3. AtEnd(c, e) \/ Char(c, e) \in Delimiters(c) \cup {"BAD"}
    <2>. HIDE DEF e
    <2>. QED
      BY <1>2
  <1>4. \/ jsmn_parse_primitive(c, s) = Returned(s, JSMN_ERROR_INVAL)
        \/ jsmn_parse_primitive(c, s) = Returned(s, JSMN_ERROR_PART)
        \/ ~(~AtEnd(c, e) /\ Char(c, e) = "BAD") /\ jsmn_parse_primitive(c, s) = t
    BY DEF jsmn_parse_primitive
  <1>. HIDE DEF e, E
  <1>5. CASE ~(~AtEnd(c, e) /\ Char(c, e) = "BAD")
    <2>1. e # s.pos
      BY <1>3, <1>5
    <2>2. s.pos < e /\ s.pos \in Int /\ e \in Int
      BY <1>0, <1>2, <2>1
    <2>3. \/ t = Returned(s, JSMN_ERROR_NOMEM)
          \/ s.toknext < c.num /\ Added(c, s, t, "PRIMITIVE", s.pos, e, e, s.toksuper)
      BY <1>0, <1>2, ScannedSound
    <2>4. ASSUME s.toknext < c.num, Added(c, s, t, "PRIMITIVE", s.pos, e, e, s.toksuper)
          PROVE  Sound(c, t)
      <3>. HIDE DEF t
      <3>1. 0 <= e /\ e <= e
        BY <1>2
      <3>. QED
        BY <1>0, <1>2, <2>2, <2>4, <3>1, AddSound
    <2>5. Sound(c, t)
      <3>. HIDE DEF t
      <3>. QED
        BY <1>0, <2>3, <2>4, ReturnSound, Errors
    <2>. QED
      BY <1>0, <1>4, <2>5, ReturnSound, Errors
  <1>. QED
    BY <1>0, <1>4, <1>5, ReturnSound, Errors

LEMMA StringSound ==
    ASSUME NEW c, NEW s, Working(c, s), ~AtEnd(c, s.pos)
    PROVE  Sound(c, jsmn_parse_string(c, s))
  <1>. DEFINE e == StringEnd(c, s.pos + 1)
              t == Scanned(c, s, "STRING", s.pos + 1, e)
              m == MoveTo(t, e + 1)
  <1>0. /\ s.pos \in Nat /\ c.len \in Nat /\ c.num \in Nat /\ s.toksuper \in Int
        /\ "STRING" \in Types /\ s.pos + 1 \in Nat /\ s.pos + 1 \in Int /\ s.pos <= s.pos + 1
    BY WorkingFacts DEF Types
  <1>1. s.pos + 1 \in 0..c.len
    BY <1>0 DEF AtEnd
  <1>2. e \in {-3, -2} \cup ((s.pos + 1)..(c.len - 1))
    BY <1>1, StringEndFacts, WorkingFacts
  <1>3. \/ e < 0 /\ jsmn_parse_string(c, s) = Returned(s, e)
        \/ ~(e < 0) /\ t.done /\ jsmn_parse_string(c, s) = t
        \/ ~(e < 0) /\ ~t.done /\ jsmn_parse_string(c, s) = m
    BY DEF jsmn_parse_string
  <1>. HIDE DEF e
  <1>4. CASE e < 0
    <2>1. e \in -3..c.num
      BY <1>0, <1>2, <1>4
    <2>. QED
      BY <1>3, <1>4, <2>1, ReturnSound
  <1>5. CASE ~(e < 0)
    <2>1. e \in Nat /\ s.pos + 1 <= e /\ e + 1 <= c.len /\ e + 1 \in Nat /\ e \in Int
      BY <1>0, <1>2, <1>5
    <2>2. \/ t = Returned(s, JSMN_ERROR_NOMEM)
          \/ /\ s.toknext < c.num /\ ~t.done
             /\ Added(c, s, m, "STRING", s.pos + 1, e, e + 1, s.toksuper)
      BY <1>0, <2>1, ScannedSound
    <2>. HIDE DEF t
    <2>3. CASE t = Returned(s, JSMN_ERROR_NOMEM)
      <3>1. t.done /\ Sound(c, t)
        <4>1. s \in Parsers /\ JSMN_ERROR_NOMEM \in Int
          BY WorkingFacts DEF JSMN_ERROR_NOMEM
        <4>. QED
          BY <1>0, <2>3, <4>1, ReturnFacts, ReturnSound, Errors
      <3>. QED
        BY <1>3, <1>5, <3>1
    <2>4. CASE s.toknext < c.num /\ ~t.done /\ Added(c, s, m, "STRING", s.pos + 1, e, e + 1, s.toksuper)
      <3>. HIDE DEF m
      <3>1. s.pos + 1 < e + 1 /\ 0 <= e /\ e <= e + 1
        BY <1>0, <2>1
      <3>2. Sound(c, m)
        BY <1>0, <2>1, <2>4, <3>1, AddSound
      <3>. QED
        BY <1>3, <1>5, <2>4, <3>2
    <2>. QED
      BY <2>2, <2>3, <2>4
  <1>. QED
    BY <1>4, <1>5

LEMMA OpenSound ==
    ASSUME NEW c, NEW s, Working(c, s), s.pos < c.len, NEW type \in {"OBJECT", "ARRAY"}
    PROVE  Sound(c, OpenBracket(c, s, type))
  <1>. DEFINE new == jsmn_alloc_token(s)
              g == GrowSuper(jsmn_fill_token(c, new, type, s.pos, -1))
              t == MoveTo(Counted(Super(g, s.toknext)), s.pos + 1)
  <1>0. /\ s \in Parsers /\ Len(s.tokens) = s.toknext /\ s.toksuper \in -1..(s.toknext - 1)
        /\ s.toknext \in Nat /\ s.toknext \in Int /\ c.num \in Nat /\ ~c.null /\ CallOK(c)
        /\ s.pos \in Nat /\ s.pos \in Int /\ c.len \in Nat /\ s.pos + 1 \in Nat
        /\ type \in Types /\ -1 \in Int
    BY WorkingFacts DEF Working, Sound, Types
  <1>1. CASE NoRoom(c, s)
    <2>1. OpenBracket(c, s, type) = Returned(s, JSMN_ERROR_NOMEM)
      BY <1>0, <1>1 DEF OpenBracket
    <2>. QED
      BY <1>0, <2>1, ReturnSound, Errors
  <1>2. CASE ~NoRoom(c, s)
    <2>1. s.toknext < c.num
      BY <1>0, <1>2 DEF NoRoom
    <2>2. \/ OpenBracket(c, s, type) = Returned(new, JSMN_ERROR_INVAL)
          \/ OpenBracket(c, s, type) = t
      BY <1>0, <1>2 DEF OpenBracket
    <2>3. Sound(c, Returned(new, JSMN_ERROR_INVAL))
      BY <2>1, RefusedSound
    <2>4. Added(c, s, t, type, s.pos, -1, s.pos + 1, s.toknext)
      BY <1>0, AddFacts
    <2>5. Sound(c, t)
      <3>. HIDE DEF t
      <3>1. s.pos <= s.pos /\ s.pos < s.pos + 1 /\ s.pos + 1 <= c.len
        BY <1>0
      <3>. QED
        BY <1>0, <2>1, <2>4, <3>1, AddSound
    <2>. HIDE DEF t, new
    <2>. QED
      BY <2>2, <2>3, <2>5
  <1>. QED
    BY <1>1, <1>2

LEMMA CloseBracketSound ==
    ASSUME NEW c, NEW s, Working(c, s), s.pos < c.len, NEW type
    PROVE  Sound(c, CloseBracket(c, s, type))
  <1>0. /\ s \in Parsers /\ Len(s.tokens) = s.toknext /\ s.toknext \in Nat
        /\ c.num \in Nat /\ ~c.null /\ Enclosed(c, s)
    BY WorkingFacts
  <1>1. Sound(c, Returned(s, JSMN_ERROR_INVAL)) /\ Sound(c, MoveTo(s, s.pos + 1))
    BY <1>0, ReturnSound, Errors, PassSound
  <1>2. CASE c.build.links
    <2>. DEFINE i == Partner(s)
    <2>0. CloseBracket(c, s, type) = CloseWithLinks(s, type)
      BY <1>0, <1>2 DEF CloseBracket
    <2>1. CASE s.toknext < 1
      BY <1>1, <2>0, <2>1 DEF CloseWithLinks
    <2>2. CASE ~(s.toknext < 1)
      <3>1. i \in Indices(s) /\ \A u \in Unclosed(s) : u <= i
        <4>1. s.toknext >= 1
          BY <1>0, <2>2
        <4>. QED
          BY <1>2, <4>1, PartnerFacts
      <3>2. \/ CloseWithLinks(s, type) = Returned(s, JSMN_ERROR_INVAL)
            \/ CloseWithLinks(s, type) = MoveTo(s, s.pos + 1)
            \/ i \in Unclosed(s) /\ CloseWithLinks(s, type) = Closed(s, i, Token(s, i).parent)
        BY <2>2 DEF CloseWithLinks
      <3>. HIDE DEF i
      <3>3. ASSUME i \in Unclosed(s) PROVE Sound(c, Closed(s, i, Token(s, i).parent))
        <4>. DEFINE sup == Token(s, i).parent
        <4>1. sup \in -1..(i - 1) /\ sup \in Int /\ i \in Nat /\ i < s.toknext
          BY <1>0, <3>1, FieldsOf DEF Working, Sound, Within
        <4>2. sup \in -1..(s.toknext - 1)
          BY <1>0, <4>1
        <4>3. ASSUME NEW u \in Unclosed(s), u # i PROVE u <= sup
          <5>1. u \in Nat /\ u <= i
            BY <1>0, <3>1, FieldsOf DEF Unclosed
          <5>2. u < i
            BY <4>1, <4>3, <5>1
          <5>. QED
            BY <1>0, <1>2, <3>1, <5>2 DEF Enclosed
        <4>. HIDE DEF sup
        <4>4. c.build.links => \A u \in Unclosed(s) : u # i => u <= sup
          BY <4>3
        <4>5. Sound(c, Closed(s, i, sup))
          BY <3>1, <3>3, <4>2, <4>4, CloseSound
        <4>. QED
          BY <4>5 DEF sup
      <3>. QED
        BY <1>1, <2>0, <3>2, <3>3
    <2>. QED
      BY <2>1, <2>2
  <1>3. CASE ~c.build.links
    <2>. DEFINE i == Innermost(Unclosed(s))
                sup == Innermost(Unclosed(s) \ {i})
    <2>0. CloseBracket(c, s, type) = CloseWithoutLinks(s, type)
      BY <1>0, <1>3 DEF CloseBracket
    <2>1. \/ CloseWithoutLinks(s, type) = Returned(s, JSMN_ERROR_INVAL)
          \/ i # -1 /\ CloseWithoutLinks(s, type) = Closed(s, i, sup)
      BY DEF CloseWithoutLinks
    <2>2. Unclosed(s) \in SUBSET Indices(s)
      BY DEF Unclosed
    <2>3. i # -1 => i \in Unclosed(s) /\ \A u \in Unclosed(s) : u <= i
      BY <1>0, <2>2, InnermostFacts
    <2>. HIDE DEF i
    <2>4. sup \in -1..(s.toknext - 1)
      <3>1. Unclosed(s) \ {i} \in SUBSET Indices(s)
        BY <2>2
      <3>. QED
        BY <1>0, <3>1, InnermostFacts
    <2>. HIDE DEF sup
    <2>5. i # -1 => Sound(c, Closed(s, i, sup))
      BY <1>3, <2>3, <2>4, CloseSound
    <2>. QED
      BY <1>1, <2>0, <2>1, <2>5
  <1>. QED
    BY <1>2, <1>3

LEMMA ColonSound ==
    ASSUME NEW c, NEW s, Working(c, s), s.pos < c.len
    PROVE  Sound(c, Colon(s))
  <1>0. /\ s.pos \in Nat /\ s.toknext \in Nat /\ c.len \in Nat
    BY WorkingFacts
  <1>1. /\ s.toknext - 1 \in -1..(s.toknext - 1) /\ s.pos + 1 \in Nat
        /\ s.pos <= s.pos + 1 /\ s.pos + 1 <= c.len
    BY <1>0
  <1>2. \A u \in Unclosed(s) : u <= s.toknext - 1
    BY <1>0 DEF Unclosed, Indices
  <1>. QED
    BY <1>1, <1>2, MoveSound DEF Colon

LEMMA CommaSound ==
    ASSUME NEW c, NEW s, Working(c, s), s.pos < c.len
    PROVE  Sound(c, Comma(c, s))
  <1>. DEFINE key == ~c.null /\ s.toksuper # -1
                        /\ Token(s, s.toksuper).type \notin {"ARRAY", "OBJECT"}
              open == Innermost(Unclosed(s))
              next == IF ~key THEN s.toksuper
                      ELSE IF c.build.links THEN Token(s, s.toksuper).parent
                      ELSE IF open = -1 THEN s.toksuper
                      ELSE open
  <1>0. /\ s \in Parsers /\ Len(s.tokens) = s.toknext /\ s.toknext \in Nat /\ s.pos \in Nat
        /\ s.toksuper \in -1..(s.toknext - 1) /\ s.toksuper \in Int /\ c.len \in Nat
        /\ Places(s) /\ Enclosed(c, s)
    BY WorkingFacts
  <1>1. s.pos + 1 \in Nat /\ s.pos <= s.pos + 1 /\ s.pos + 1 <= c.len
    BY <1>0
  <1>2. next \in -1..(s.toknext - 1) /\ (c.build.links => \A u \in Unclosed(s) : u <= next)
    <2>1. CASE ~key
      BY <1>0, <2>1 DEF Enclosed
    <2>2. CASE key /\ c.build.links
      <3>1. s.toksuper \in Indices(s)
        BY <1>0, <2>2 DEF Indices
      <3>2. next = Token(s, s.toksuper).parent
        BY <2>2
      <3>3. Token(s, s.toksuper).parent \in -1..(s.toksuper - 1) /\ Token(s, s.toksuper).parent \in Int
        BY <1>0, <3>1, FieldsOf DEF Working, Sound, Within
      <3>4. s.toksuper \notin Unclosed(s)
        BY <1>0, <2>2, <3>1 DEF Places, Unclosed
      <3>5. ASSUME NEW u \in Unclosed(s) PROVE u <= Token(s, s.toksuper).parent
        <4>1. u \in Nat /\ u <= s.toksuper /\ u # s.toksuper
          BY <1>0, <2>2, <3>4, FieldsOf DEF Unclosed, Enclosed
        <4>2. u < s.toksuper
          BY <1>0, <4>1
        <4>. QED
          BY <1>0, <2>2, <3>1, <4>2 DEF Enclosed
      <3>6. Token(s, s.toksuper).parent \in -1..(s.toknext - 1)
        BY <1>0, <3>3
      <3>. QED
        BY <3>2, <3>5, <3>6
    <2>3. CASE key /\ ~c.build.links
      <3>1. Unclosed(s) \in SUBSET Indices(s)
        BY DEF Unclosed
      <3>2. open \in -1..(s.toknext - 1)
        BY <1>0, <3>1, InnermostFacts
      <3>. HIDE DEF open
      <3>3. next = s.toksuper \/ next = open
        BY <2>3
      <3>. QED
        BY <1>0, <2>3, <3>2, <3>3
    <2>. QED
      BY <2>1, <2>2, <2>3
  <1>3. Comma(c, s) = MoveTo(Super(s, next), s.pos + 1)
    BY DEF Comma
  <1>. HIDE DEF next
  <1>. QED
    BY <1>1, <1>2, <1>3, MoveSound

LEMMA FinishSound ==
    ASSUME NEW c, NEW s, Working(c, s)
    PROVE  Sound(c, Finish(c, s))
  <1>0. s.count \in Nat /\ s.count <= s.toknext /\ s.toknext <= c.num /\ c.num \in Nat /\ s.toknext \in Nat
    BY WorkingFacts
  <1>1. s.count \in -3..c.num
    BY <1>0
  <1>2. JSMN_ERROR_PART \in -3..c.num
    BY <1>0, Errors
  <1>. QED
    BY <1>1, <1>2, ReturnSound DEF Finish

(* One iteration of the loop of jsmn_parse, whatever the character. *)
LEMMA StepSound ==
    ASSUME NEW c, NEW s, Working(c, s)
    PROVE  Sound(c, Step(c, s))
  <1>0. s.pos \in Nat /\ c.len \in Nat /\ c.num \in Nat
    BY WorkingFacts
  <1>1. CASE AtEnd(c, s.pos)
    BY <1>1, FinishSound DEF Step
  <1>2. CASE ~AtEnd(c, s.pos)
    <2>. DEFINE ch == Char(c, s.pos)
    <2>0. s.pos < c.len
      BY <1>0, <1>2 DEF AtEnd
    <2>1. /\ Sound(c, OpenBracket(c, s, "OBJECT")) /\ Sound(c, OpenBracket(c, s, "ARRAY"))
          /\ Sound(c, CloseBracket(c, s, "OBJECT")) /\ Sound(c, CloseBracket(c, s, "ARRAY"))
          /\ Sound(c, jsmn_parse_string(c, s)) /\ Sound(c, MoveTo(s, s.pos + 1))
          /\ Sound(c, Colon(s)) /\ Sound(c, Comma(c, s))
      BY <1>2, <2>0, OpenSound, CloseBracketSound, StringSound, PassSound, ColonSound, CommaSound
    <2>2. ASSUME ch \notin {"{", "[", "}", "]", "\"", " ", ":", ","}
          PROVE  Sound(c, Primitive(c, s, ch))
      <3>1. ch \notin Delimiters(c)
        BY <2>2 DEF Delimiters, Blanks
      <3>2. Sound(c, jsmn_parse_primitive(c, s))
        BY <1>2, <3>1, PrimitiveSound
      <3>3. Sound(c, Returned(s, JSMN_ERROR_INVAL))
        BY <1>0, ReturnSound, Errors
      <3>. QED
        BY <3>2, <3>3 DEF Primitive
    <2>3. \/ Step(c, s) \in {OpenBracket(c, s, "OBJECT"), OpenBracket(c, s, "ARRAY"),
                             CloseBracket(c, s, "OBJECT"), CloseBracket(c, s, "ARRAY"),
                             jsmn_parse_string(c, s), MoveTo(s, s.pos + 1), Colon(s), Comma(c, s)}
          \/ /\ ch \notin {"{", "[", "}", "]", "\"", " ", ":", ","}
             /\ Step(c, s) = Primitive(c, s, ch)
      <3>. HIDE DEF ch
      <3>. QED
        BY <1>2 DEF Step, Blanks, ch
    <2>. HIDE DEF ch
    <2>. QED
      BY <2>1, <2>2, <2>3
  <1>. QED
    BY <1>1, <1>2
-----------------------------------------------------------------------------
(* A parser that starts, and one that goes on with more tokens or text. *)
LEMMA StartSound ==
    ASSUME NEW c, CallOK(c)
    PROVE  Sound(c, jsmn_init)
  <1>. DEFINE s == jsmn_init
  <1>1. c.len \in Nat /\ c.num \in Nat
    BY DEF CallOK
  <1>2. /\ s.pos = 0 /\ s.toknext = 0 /\ s.toksuper = -1 /\ s.tokens = <<>> /\ s.count = 0
        /\ s.done = FALSE /\ s.ret = 0 /\ s \in Parsers
    BY DEF jsmn_init, Parsers
  <1>. HIDE DEF s
  <1>3. Indices(s) = {}
    BY <1>2 DEF Indices
  <1>4. Len(s.tokens) = 0
    BY <1>2
  <1>5. Numbers(c, s)
    BY <1>1, <1>2, <1>4 DEF Numbers
  <1>6. Within(c, s) /\ Sizes(c, s) /\ Places(s) /\ Nested(s) /\ Enclosed(c, s)
    BY <1>3 DEF Within, Sizes, Places, Nested, Enclosed, Unclosed
  <1>. QED
    BY <1>5, <1>6 DEF Sound, s

LEMMA ResumeFacts ==
    ASSUME NEW s \in Parsers
    PROVE  LET t == Resumed(s) IN
           /\ t \in Parsers /\ t.tokens = s.tokens /\ t.toknext = s.toknext /\ t.pos = s.pos
           /\ t.toksuper = s.toksuper /\ t.count = s.toknext /\ ~t.done /\ t.ret = 0
  <1>. DEFINE r == [s EXCEPT !.count = s.toknext, !.done = FALSE]
  <1>1. s.toknext \in Nat
    BY ParserFields
  <1>2. /\ r \in Parsers /\ r.tokens = s.tokens /\ r.toknext = s.toknext /\ r.pos = s.pos
        /\ r.toksuper = s.toksuper /\ r.count = s.toknext /\ ~r.done
    BY <1>1 DEF Parsers
  <1>3. Resumed(s) = [r EXCEPT !.ret = 0]
    BY DEF Resumed
  <1>. HIDE DEF r
  <1>. QED
    BY <1>2, <1>3 DEF Parsers

LEMMA AgainSound ==
    ASSUME NEW c, NEW s, Sound(c, s), ~Invalid(s),
           NEW d, CallOK(d), d.build = c.build, c.len <= d.len, c.num <= d.num
    PROVE  Sound(d, Resumed(s))
  <1>. DEFINE t == Resumed(s)
  <1>0. s \in Parsers /\ CallOK(c)
    BY DEF Sound, Numbers
  <1>1. /\ Len(s.tokens) = s.toknext /\ s.toknext \in Nat /\ s.pos \in Nat /\ s.ret \in Int
        /\ c.len \in Nat /\ c.num \in Nat /\ d.len \in Nat /\ d.num \in Nat
        /\ s.pos <= c.len /\ s.toknext <= c.num /\ s.ret \in -3..c.num
        /\ s.toksuper \in -1..(s.toknext - 1) /\ s.toknext <= s.toknext
    BY <1>0, ParserFields DEF Sound, Numbers, CallOK
  <1>2. /\ t \in Parsers /\ t.tokens = s.tokens /\ t.toknext = s.toknext /\ t.pos = s.pos
        /\ t.toksuper = s.toksuper /\ t.count = s.toknext /\ t.ret = 0
    BY <1>0, <1>1, ResumeFacts
  <1>. HIDE DEF t
  <1>3. Numbers(d, t)
    <2>1. s.pos <= d.len /\ s.toknext <= d.num
      BY <1>1, SMTT(30)
    <2>2. 0 \in -3..d.num
      BY <1>1
    <2>. QED
      BY <1>1, <1>2, <2>1, <2>2 DEF Numbers
  <1>4. Indices(t) = Indices(s) /\ \A i : Token(t, i) = Token(s, i)
    BY <1>2 DEF Indices, Token
  <1>5. Unclosed(t) = Unclosed(s) /\ \A i : Children(t, i) = Children(s, i)
    BY <1>4 DEF Unclosed, Children
  <1>6. Within(d, t)
    <2>. SUFFICES ASSUME NEW i \in Indices(s)
                  PROVE  /\ Token(s, i).size <= s.toknext /\ Token(s, i).parent \in -1..(i - 1)
                         /\ Token(s, i).start \in -1..(d.len - 1) /\ Token(s, i).end \in -1..d.len
      BY <1>2, <1>4 DEF Within
    <2>1. /\ Token(s, i).size <= s.toknext /\ Token(s, i).parent \in -1..(i - 1)
          /\ Token(s, i).start \in -1..(c.len - 1) /\ Token(s, i).end \in -1..c.len
      BY DEF Sound, Within
    <2>2. Token(s, i).start \in Int /\ Token(s, i).end \in Int
      BY <1>0, <1>1, FieldsOf
    <2>3. Token(s, i).start \in -1..(d.len - 1)
      BY <1>1, <2>1, <2>2
    <2>4. Token(s, i).end \in -1..d.len
      BY <1>1, <2>1, <2>2, SMTT(30)
    <2>. QED
      BY <2>1, <2>3, <2>4
  <1>7. Sizes(d, t)
    BY <1>4, <1>5 DEF Sound, Sizes
  <1>8. Places(t) /\ Nested(t)
    BY <1>2, <1>4 DEF Sound, Places, Nested
  <1>9. Enclosed(d, t)
    BY <1>2, <1>4, <1>5 DEF Sound, Enclosed
  <1>. QED
    BY <1>3, <1>6, <1>7, <1>8, <1>9 DEF Sound, t

LEMMA InitSound == Init => IndInv
  <1>. SUFFICES ASSUME Init PROVE IndInv
    OBVIOUS
  <1>1. PICK b \in Builds \cup StreamBuilds, js \in Inputs \cup StreamInputs :
          \E len \in 0..Len(js) :
            call = [build |-> b, js |-> js, len |-> len, num |-> 0, null |-> FALSE]
    <2>1. CASE \E b \in Builds, js \in Inputs :
            call = [build |-> b, js |-> js, len |-> Len(js), num |-> 0, null |-> FALSE]
      <3>1. PICK b \in Builds, js \in Inputs :
            call = [build |-> b, js |-> js, len |-> Len(js), num |-> 0, null |-> FALSE]
        BY <2>1
      <3>2. js \in Seq(STRING)
        BY TextsAssumption
      <3>3. Len(js) \in 0..Len(js)
        BY <3>2, LenProperties
      <3>. QED
        BY <3>1, <3>3
    <2>2. CASE \E b \in StreamBuilds, js \in StreamInputs : \E len \in 0..Len(js) :
            call = [build |-> b, js |-> js, len |-> len, num |-> 0, null |-> FALSE]
      BY <2>2
    <2>. QED
      BY <2>1, <2>2 DEF Init
  <1>2. PICK len \in 0..Len(js) :
            call = [build |-> b, js |-> js, len |-> len, num |-> 0, null |-> FALSE]
    BY <1>1
  <1>3. b \in [strict : BOOLEAN, links : BOOLEAN] /\ js \in Seq(STRING)
    BY BuildsAssumption, TextsAssumption
  <1>4. Len(js) \in Nat /\ len \in Nat /\ len <= Len(js)
    BY <1>3, LenProperties
  <1>5. CallOK(call)
    BY <1>2, <1>3, <1>4 DEF CallOK
  <1>6. st = jsmn_init
    BY DEF Init
  <1>. QED
    BY <1>5, <1>6, StartSound DEF IndInv

LEMMA NextSound == IndInv /\ [Next]_jsmnVars => IndInv'
  <1>. SUFFICES ASSUME IndInv, [Next]_jsmnVars PROVE IndInv'
    OBVIOUS
  <1>0. /\ Sound(call, st) /\ CallOK(call) /\ call.len \in Nat /\ call.num \in Nat /\ st \in Parsers
        /\ call.len <= Len(call.js) /\ Len(call.js) \in Nat
    BY LenProperties DEF IndInv, Sound, CallOK, Numbers
  <1>1. CASE Iterate
    <2>1. Working(call, st) /\ call' = call /\ st' = Step(call, st)
      BY <1>0, <1>1 DEF Iterate, Working
    <2>2. Sound(call, Step(call, st))
      BY <2>1, StepSound
    <2>. QED
      BY <2>1, <2>2 DEF IndInv
  <1>2. CASE MoreTokens
    <2>1. /\ ~Invalid(st) /\ st' = Resumed(st)
          /\ call' = [call EXCEPT !.num = @ + 1]
      BY <1>2 DEF MoreTokens, Again, Invalid, JSMN_ERROR_NOMEM, JSMN_ERROR_INVAL
    <2>. DEFINE d == [call EXCEPT !.num = @ + 1]
    <2>2. /\ CallOK(d) /\ d.build = call.build /\ d.len = call.len /\ d.num = call.num + 1
      BY <1>0 DEF CallOK
    <2>. HIDE DEF d
    <2>3. call.len <= d.len /\ call.num <= d.num
      BY <1>0, <2>2
    <2>4. Sound(d, Resumed(st))
      BY <1>0, <2>1, <2>2, <2>3, AgainSound
    <2>. QED
      BY <2>1, <2>4 DEF IndInv, d
  <1>3. CASE MoreText
    <2>1. PICK len \in (call.len + 1)..Len(call.js) :
          /\ ~Invalid(st) /\ st' = Resumed(st)
          /\ call' = [call EXCEPT !.len = len]
      BY <1>3 DEF MoreText, Again, Invalid, JSMN_ERROR_PART, JSMN_ERROR_INVAL
    <2>. DEFINE d == [call EXCEPT !.len = len]
    <2>2. len \in Nat /\ call.len <= len /\ len <= Len(call.js)
      BY <1>0
    <2>3. /\ CallOK(d) /\ d.build = call.build /\ d.len = len /\ d.num = call.num
      BY <1>0, <2>2 DEF CallOK
    <2>. HIDE DEF d
    <2>4. call.len <= d.len /\ call.num <= d.num
      BY <1>0, <2>2, <2>3
    <2>5. Sound(d, Resumed(st))
      BY <1>0, <2>1, <2>3, <2>4, AgainSound
    <2>. QED
      BY <2>1, <2>5 DEF IndInv, d
  <1>4. CASE UNCHANGED jsmnVars
    BY <1>0, <1>4 DEF IndInv, jsmnVars
  <1>. QED
    BY <1>1, <1>2, <1>3, <1>4 DEF Next

(* The parser is sound at every point of every parse: one call after the   *)
(* other with more tokens or more text, and malformed text too             *)
(* (jsmn.h:105-459).                                                       *)
THEOREM Inductive == Spec => []IndInv
  BY InitSound, NextSound, PTL DEF Spec

(* toksuper, the links and the index of the last token are always indices  *)
(* of tokens that are there, and every position is within the text,        *)
(* although jsmn_parse checks none of them (jsmn.h:297, 339, 373, 389).    *)
THEOREM IndicesStayInBounds == Spec => []TypeOK
  <1>1. ASSUME IndInv PROVE TypeOK
    <2>0. Numbers(call, st) /\ Within(call, st)
      BY <1>1 DEF IndInv, Sound
    <2>1. /\ st \in Parsers /\ Len(st.tokens) = st.toknext /\ st.pos <= call.len
          /\ st.toknext <= call.num /\ st.toksuper \in -1..(st.toknext - 1) /\ st.ret \in -3..call.num
          /\ call.len \in Nat /\ call.num \in Nat
      BY <1>1 DEF IndInv, Sound, Numbers, CallOK
    <2>2. st.pos \in 0..call.len /\ st.toknext \in 0..call.num /\ st.done \in BOOLEAN
      BY <2>1, ParserFields
    <2>3. ASSUME NEW i \in Indices(st)
          PROVE  /\ Token(st, i).type \in Types /\ Token(st, i).size \in 0..st.toknext
                 /\ Token(st, i).parent \in -1..(i - 1)
                 /\ Token(st, i).start \in -1..(call.len - 1) /\ Token(st, i).end \in -1..call.len
      <3>1. Token(st, i).type \in Types /\ Token(st, i).size \in Nat
        BY <2>1, FieldsOf
      <3>2. /\ Token(st, i).size <= st.toknext /\ Token(st, i).parent \in -1..(i - 1)
            /\ Token(st, i).start \in -1..(call.len - 1) /\ Token(st, i).end \in -1..call.len
        BY <2>0 DEF Within
      <3>3. Token(st, i).size \in 0..st.toknext
        BY <2>1, <3>1, <3>2, ParserFields
      <3>. QED
        BY <3>1, <3>2, <3>3
    <2>. QED
      BY <2>1, <2>2, <2>3 DEF TypeOK
  <1>. QED
    BY <1>1, Inductive, PTL

(* With parent links, every size is the number of links to its token, at   *)
(* every point of every parse (jsmn.h:187, 222, 296-307, 372-373, 435-436).*)
THEOREM SizesAreRight == Spec => []SizeCountsChildren
  <1>1. IndInv => SizeCountsChildren
    BY DEF IndInv, Sound, Sizes, Children, SizeCountsChildren
  <1>. QED
    BY <1>1, Inductive, PTL

(* Tokens nest as brackets do, in every build: a closing bracket ends the  *)
(* innermost object or array also where its partner is found by following  *)
(* the links (jsmn.h:314-366).                                             *)
THEOREM TokensAlwaysNest == Spec => []TokensNest
  <1>1. IndInv => TokensNest
    BY DEF IndInv, Sound, Nested, Invalid, TokensNest
  <1>. QED
    BY <1>1, Inductive, PTL
===============================================================================
