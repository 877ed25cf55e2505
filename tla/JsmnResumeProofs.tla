--------------------------- MODULE JsmnResumeProofs ---------------------------
(***************************************************************************)
(* Proofs that compare whole parses: one that is interrupted for lack of   *)
(* tokens or text with one that is not, and one that fills tokens with one *)
(* that counts them.  A parse that comes to a state steps on from there    *)
(* alike with more text and more tokens, so the states of the interrupted  *)
(* parse are states of the uninterrupted one.                              *)
(***************************************************************************)
EXTENDS JsmnProofs

(* d has the text of c, and maybe more of it. *)
SameText(c, d) ==
    /\ c.js = d.js /\ c.build = d.build
    /\ c.len \in Nat /\ d.len \in Nat /\ c.len <= d.len

LEMMA EndFacts ==
    ASSUME NEW c, NEW d, SameText(c, d)
    PROVE  /\ \A k : Char(d, k) = Char(c, k)
           /\ \A k \in Nat : AtEnd(d, k) => AtEnd(c, k)
           /\ c.len = d.len => \A k : AtEnd(d, k) = AtEnd(c, k)
           /\ Delimiters(d) = Delimiters(c)
  <1>1. \A k : Char(d, k) = Char(c, k)
    BY DEF SameText, Char
  <1>2. c.len = d.len => \A k : AtEnd(d, k) = AtEnd(c, k)
    BY <1>1 DEF AtEnd
  <1>3. \A k \in Nat : AtEnd(d, k) => AtEnd(c, k)
    BY <1>1 DEF AtEnd, SameText
  <1>. QED
    BY <1>1, <1>2, <1>3 DEF SameText, Delimiters

(* The digits of an escape end at the same place, unless the text of c     *)
(* ends among them.                                                        *)
LEMMA AfterAgrees ==
    ASSUME NEW c, NEW d, SameText(c, d), NEW k \in Nat, k <= c.len
    PROVE  \/ AfterDigits(d, k) = AfterDigits(c, k)
           \/ c.len # d.len /\ AtEnd(c, AfterDigits(c, k))
  <1>. DEFINE a == AfterDigits(c, k)
              b == AfterDigits(d, k)
  <1>0. c.len \in Nat /\ d.len \in Nat /\ k <= d.len
    BY DEF SameText
  <1>1. CASE c.len = d.len
    <2>1. \A m : AtEnd(d, m) = AtEnd(c, m)
      BY <1>1, EndFacts
    <2>2. {m \in k..(k + 4) : m = k + 4 \/ AtEnd(d, m)}
            = {m \in k..(k + 4) : m = k + 4 \/ AtEnd(c, m)}
      BY <2>1
    <2>. QED
      BY <2>2 DEF AfterDigits
  <1>2. CASE c.len # d.len /\ ~AtEnd(c, a)
    <2>1. /\ a \in Nat /\ a = k + 4 /\ \A m \in k..(a - 1) : ~AtEnd(c, m)
      BY <1>0, <1>2, AfterFacts
    <2>2. b \in Nat /\ k <= b /\ b <= k + 4 /\ (b = k + 4 \/ AtEnd(d, b))
      BY <1>0, AfterFacts
    <2>. HIDE DEF a, b
    <2>3. b # k + 4 => b \in k..(a - 1)
      BY <2>1, <2>2
    <2>4. b # k + 4 => FALSE
      BY <2>1, <2>2, <2>3, EndFacts
    <2>5. b = a
      BY <2>1, <2>4
    <2>. QED
      BY <2>5 DEF a, b
  <1>. QED
    BY <1>1, <1>2

(* One step of the scan of a string. *)
LEMMA ScanStepAgrees ==
    ASSUME NEW c, NEW d, SameText(c, d), NEW k \in 0..c.len,
           c.len = d.len \/ StringEnd(c, k) >= 0,
           \A j \in 0..c.len : k < j /\ (c.len = d.len \/ StringEnd(c, j) >= 0)
                                  => StringEnd(d, j) = StringEnd(c, j)
    PROVE  StringEnd(d, k) = StringEnd(c, k)
  <1>0. /\ c.len \in Nat /\ d.len \in Nat /\ c.len <= d.len /\ k \in Nat /\ k <= c.len
        /\ Char(d, k) = Char(c, k) /\ Char(d, k + 1) = Char(c, k + 1)
    BY EndFacts DEF SameText
  <1>1. StringEnd(c, k) = ScanStep(c, k)
    BY <1>0, StringEndFacts
  <1>2. StringEnd(d, k) = ScanStep(d, k)
    <2>1. k \in 0..d.len
      BY <1>0
    <2>. QED
      BY <1>0, <2>1, StringEndFacts
  <1>3. CASE AtEnd(c, k)
    <2>1. StringEnd(c, k) = -3
      BY <1>1, <1>3 DEF ScanStep, JSMN_ERROR_PART
    <2>2. AtEnd(d, k)
      BY <1>3, <2>1, EndFacts
    <2>3. StringEnd(d, k) = -3
      BY <1>2, <2>2 DEF ScanStep, JSMN_ERROR_PART
    <2>. QED
      BY <2>1, <2>3
  <1>4. CASE ~AtEnd(c, k) /\ Char(c, k) = "\""
    <2>1. ~AtEnd(d, k)
      BY <1>0, <1>4, EndFacts
    <2>. QED
      BY <1>0, <1>1, <1>2, <1>4, <2>1 DEF ScanStep
  <1>5. CASE ~AtEnd(c, k) /\ Char(c, k) # "\"" /\ (Char(c, k) # "\\" \/ k + 1 >= c.len)
    <2>1. ~AtEnd(d, k) /\ k < c.len
      <3>1. ~AtEnd(d, k)
        BY <1>0, <1>5, EndFacts
      <3>2. ~(k >= c.len)
        BY <1>5, Zenon DEF AtEnd
      <3>3. k < c.len
        BY <1>0, <3>2
      <3>. QED
        BY <3>1, <3>3
    <2>2. StringEnd(c, k) = StringEnd(c, k + 1)
      BY <1>1, <1>5 DEF ScanStep
    <2>3. k + 1 \in 0..c.len /\ k < k + 1
      BY <1>0, <2>1
    <2>4. k + 1 >= c.len => c.len = d.len
      <3>. SUFFICES ASSUME k + 1 >= c.len PROVE c.len = d.len
        OBVIOUS
      <3>1. AtEnd(c, k + 1)
        BY DEF AtEnd
      <3>2. StringEnd(c, k + 1) = ScanStep(c, k + 1)
        BY <1>0, <2>3, StringEndFacts
      <3>3. StringEnd(c, k + 1) = -3
        BY <3>1, <3>2 DEF ScanStep, JSMN_ERROR_PART
      <3>. QED
        BY <2>2, <3>3
    <2>5. Char(d, k) # "\"" /\ (Char(d, k) # "\\" \/ k + 1 >= d.len)
      BY <1>0, <1>5, <2>4
    <2>6. StringEnd(d, k) = StringEnd(d, k + 1)
      BY <1>2, <2>1, <2>5 DEF ScanStep
    <2>. QED
      BY <2>2, <2>3, <2>6
  <1>6. CASE ~AtEnd(c, k) /\ Char(c, k) # "\"" /\ ~(Char(c, k) # "\\" \/ k + 1 >= c.len)
    <2>1. ~AtEnd(d, k) /\ k + 2 <= c.len /\ ~(k + 1 >= d.len) /\ k + 2 \in Nat
      <3>1. ~AtEnd(d, k)
        BY <1>0, <1>6, EndFacts
      <3>2. ~(k + 1 >= c.len)
        BY <1>6, Zenon
      <3>3. k + 2 <= c.len /\ ~(k + 1 >= d.len) /\ k + 2 \in Nat
        BY <1>0, <3>2
      <3>. QED
        BY <3>1, <3>3
    <2>2. CASE Char(c, k + 1) \in Escapable
      <3>1. StringEnd(c, k) = StringEnd(c, k + 2) /\ StringEnd(d, k) = StringEnd(d, k + 2)
        BY <1>0, <1>1, <1>2, <1>6, <2>1, <2>2 DEF ScanStep
      <3>2. k + 2 \in 0..c.len /\ k < k + 2
        BY <1>0, <2>1
      <3>. QED
        BY <3>1, <3>2
    <2>3. CASE Char(c, k + 1) \notin Escapable
      <3>. DEFINE a == AfterDigits(c, k + 2)
                  b == AfterDigits(d, k + 2)
                  Uni(x) == Char(c, k + 1) = "u" /\ \A m \in (k + 2)..(x - 1) : Char(c, m) \in Hex
      <3>1. a \in Nat /\ k + 2 <= a /\ a <= c.len
        BY <1>0, <2>1, AfterFacts
      <3>2. StringEnd(c, k) = IF Uni(a) THEN StringEnd(c, a) ELSE -2
        BY <1>0, <1>1, <1>6, <2>1, <2>3 DEF ScanStep, JSMN_ERROR_INVAL
      <3>3. StringEnd(d, k) = IF Uni(b) THEN StringEnd(d, b) ELSE -2
        <4>1. \A m : Char(d, m) = Char(c, m)
          BY EndFacts
        <4>. QED
          BY <1>0, <1>2, <1>6, <2>1, <2>3, <4>1 DEF ScanStep, JSMN_ERROR_INVAL
      <3>4. a = b \/ (c.len # d.len /\ AtEnd(c, a))
        BY <2>1, AfterAgrees
      <3>5. AtEnd(c, a) => StringEnd(c, a) = -3
        <4>1. a \in 0..c.len
          BY <1>0, <3>1
        <4>2. StringEnd(c, a) = ScanStep(c, a)
          BY <1>0, <4>1, StringEndFacts
        <4>. QED
          BY <4>2 DEF ScanStep, JSMN_ERROR_PART
      <3>. HIDE DEF a, b
      <3>6. a = b
        BY <3>2, <3>4, <3>5
      <3>7. CASE Uni(a)
        <4>1. StringEnd(c, k) = StringEnd(c, a) /\ StringEnd(d, k) = StringEnd(d, a)
          BY <3>2, <3>3, <3>6, <3>7
        <4>2. a \in 0..c.len /\ k < a
          BY <1>0, <3>1
        <4>. QED
          BY <4>1, <4>2
      <3>8. CASE ~Uni(a)
        BY <3>2, <3>3, <3>6, <3>8
      <3>. QED
        BY <3>7, <3>8
    <2>. QED
      BY <2>2, <2>3
  <1>. QED
    BY <1>3, <1>4, <1>5, <1>6

(* A string that ends within the text ends there with more text too. *)
LEMMA StringEndAgrees ==
    ASSUME NEW c, NEW d, SameText(c, d), NEW from \in 0..c.len,
           c.len = d.len \/ StringEnd(c, from) >= 0
    PROVE  StringEnd(d, from) = StringEnd(c, from)
  <1>. DEFINE Same(k) == (c.len = d.len \/ StringEnd(c, k) >= 0)
                           => StringEnd(d, k) = StringEnd(c, k)
              S == {r \in Nat : \A k \in 0..c.len : c.len - k < r => Same(k)}
  <1>0. c.len \in Nat
    BY DEF SameText
  <1>1. 0 \in S
    BY <1>0
  <1>2. ASSUME NEW r \in S PROVE r + 1 \in S
    <2>1. r \in Nat /\ \A k \in 0..c.len : c.len - k < r => Same(k)
      OBVIOUS
    <2>2. ASSUME NEW k \in 0..c.len, c.len - k < r + 1, c.len = d.len \/ StringEnd(c, k) >= 0
          PROVE  StringEnd(d, k) = StringEnd(c, k)
      <3>1. \A j \in 0..c.len : k < j => c.len - j < r
        BY <1>0, <2>1, <2>2
      <3>2. \A j \in 0..c.len : k < j /\ (c.len = d.len \/ StringEnd(c, j) >= 0)
                                  => StringEnd(d, j) = StringEnd(c, j)
        BY <2>1, <3>1
      <3>. QED
        BY <2>2, <3>2, ScanStepAgrees
    <2>3. \A k \in 0..c.len : c.len - k < r + 1 => Same(k)
      BY <2>2
    <2>. QED
      BY <2>1, <2>3
  <1>3. S = Nat
    <2>1. S \in SUBSET Nat
      OBVIOUS
    <2>. HIDE DEF S
    <2>. QED
      BY <1>1, <1>2, <2>1, Induction
  <1>4. c.len + 1 \in S
    <2>. HIDE DEF S
    <2>. QED
      BY <1>0, <1>3
  <1>5. c.len - from < c.len + 1
    BY <1>0
  <1>6. Same(from)
    BY <1>4, <1>5
  <1>. QED
    BY <1>6

(* Where a primitive may end. *)
PrimitiveEnds(c, p) ==
    {k \in p..c.len : AtEnd(c, k) \/ Char(c, k) \in Delimiters(c) \cup {"BAD"}}

LEMMA PrimitiveEndFacts ==
    ASSUME NEW c, c.len \in Nat, NEW p \in Nat, p <= c.len
    PROVE  LET e == Min(PrimitiveEnds(c, p)) IN
           /\ e \in Nat /\ p <= e /\ e <= c.len /\ e \in PrimitiveEnds(c, p)
           /\ AtEnd(c, e) \/ Char(c, e) \in Delimiters(c) \cup {"BAD"}
           /\ \A k \in PrimitiveEnds(c, p) : e <= k
  <1>1. PrimitiveEnds(c, p) \in SUBSET Nat /\ c.len \in PrimitiveEnds(c, p)
    BY DEF PrimitiveEnds, AtEnd
  <1>. DEFINE e == Min(PrimitiveEnds(c, p))
  <1>2. e \in PrimitiveEnds(c, p) /\ \A k \in PrimitiveEnds(c, p) : e <= k
    BY <1>1, Least
  <1>. HIDE DEF e
  <1>3. /\ e \in Nat /\ p <= e /\ e <= c.len
        /\ AtEnd(c, e) \/ Char(c, e) \in Delimiters(c) \cup {"BAD"}
    BY <1>2 DEF PrimitiveEnds
  <1>. QED
    BY <1>2, <1>3 DEF e

(* A primitive that ends within the text ends there with more text too. *)
LEMMA PrimitiveEndAgrees ==
    ASSUME NEW c, NEW d, SameText(c, d), NEW p \in Nat, p <= c.len,
           c.len = d.len \/ ~AtEnd(c, Min(PrimitiveEnds(c, p)))
    PROVE  Min(PrimitiveEnds(d, p)) = Min(PrimitiveEnds(c, p))
  <1>0. c.len \in Nat /\ d.len \in Nat /\ c.len <= d.len /\ p <= d.len
    BY DEF SameText
  <1>1. CASE c.len = d.len
    <2>1. PrimitiveEnds(d, p) = PrimitiveEnds(c, p)
      BY <1>1, EndFacts DEF PrimitiveEnds
    <2>. QED
      BY <2>1
  <1>2. CASE ~AtEnd(c, Min(PrimitiveEnds(c, p)))
    <2>. DEFINE e == Min(PrimitiveEnds(c, p))
                f == Min(PrimitiveEnds(d, p))
    <2>1. /\ e \in Nat /\ p <= e /\ e <= c.len
          /\ AtEnd(c, e) \/ Char(c, e) \in Delimiters(c) \cup {"BAD"}
          /\ \A k \in PrimitiveEnds(c, p) : e <= k
      BY <1>0, PrimitiveEndFacts
    <2>2. /\ f \in Nat /\ p <= f /\ f <= d.len
          /\ AtEnd(d, f) \/ Char(d, f) \in Delimiters(d) \cup {"BAD"}
          /\ \A k \in PrimitiveEnds(d, p) : f <= k
      BY <1>0, PrimitiveEndFacts
    <2>3. ~AtEnd(c, e)
      BY <1>2
    <2>. HIDE DEF e, f
    <2>4. e \in PrimitiveEnds(d, p)
      <3>1. e \in p..d.len
        BY <1>0, <2>1
      <3>2. Char(d, e) \in Delimiters(d) \cup {"BAD"}
        BY <2>1, <2>3, EndFacts
      <3>. QED
        BY <3>1, <3>2 DEF PrimitiveEnds
    <2>5. f <= e
      BY <2>2, <2>4
    <2>6. f \in PrimitiveEnds(c, p)
      <3>1. f \in p..c.len
        BY <1>0, <2>1, <2>2, <2>5
      <3>2. AtEnd(c, f) \/ Char(c, f) \in Delimiters(c) \cup {"BAD"}
        BY <2>2, EndFacts
      <3>. QED
        BY <3>1, <3>2 DEF PrimitiveEnds
    <2>7. f = e
      BY <2>1, <2>2, <2>5, <2>6
    <2>. QED
      BY <2>7 DEF e, f
  <1>. QED
    BY <1>1, <1>2
-----------------------------------------------------------------------------
(* A state of the call c that may be a state of d as well: d has room for  *)
(* another token.                                                          *)
Comparable(c, d, s) ==
    /\ SameText(c, d) /\ c.null = d.null /\ (c.build.strict \/ c.len = d.len)
    /\ s \in Parsers /\ s.pos <= c.len /\ (c.null \/ ~NoRoom(d, s))

(* The step to t is no return that d could avoid. *)
Kept(c, d, t) == t.done => c.len = d.len /\ t.ret # JSMN_ERROR_NOMEM

LEMMA OutOfTokens ==
    ASSUME NEW c, NEW d, NEW s \in Parsers
    PROVE  ~Kept(c, d, Returned(s, JSMN_ERROR_NOMEM))
  <1>1. JSMN_ERROR_NOMEM \in Int
    BY DEF JSMN_ERROR_NOMEM
  <1>. QED
    BY <1>1, ReturnFacts DEF Kept

LEMMA FillAgrees ==
    ASSUME NEW c, NEW d, c.build = d.build, NEW s, NEW type, NEW start, NEW end
    PROVE  jsmn_fill_token(d, s, type, start, end) = jsmn_fill_token(c, s, type, start, end)
  BY DEF jsmn_fill_token

LEMMA ScannedAgrees ==
    ASSUME NEW c, NEW d, NEW s, Comparable(c, d, s), NEW type, NEW start, NEW e,
           Kept(c, d, Scanned(c, s, type, start, e))
    PROVE  Scanned(d, s, type, start, e) = Scanned(c, s, type, start, e)
  <1>0. /\ c.null = d.null /\ c.build = d.build /\ s \in Parsers /\ (c.null \/ ~NoRoom(d, s))
    BY DEF Comparable, SameText
  <1>1. CASE c.null
    BY <1>0, <1>1 DEF Scanned
  <1>2. CASE ~c.null
    <2>1. ~NoRoom(c, s)
      <3>. SUFFICES ASSUME NoRoom(c, s) PROVE FALSE
        OBVIOUS
      <3>1. Scanned(c, s, type, start, e) = Returned(s, JSMN_ERROR_NOMEM)
        BY <1>2 DEF Scanned
      <3>. QED
        BY <1>0, <3>1, OutOfTokens
    <2>2. jsmn_fill_token(d, jsmn_alloc_token(s), type, start, e)
            = jsmn_fill_token(c, jsmn_alloc_token(s), type, start, e)
      BY <1>0, FillAgrees
    <2>. QED
      BY <1>0, <1>2, <2>1, <2>2, Zenon DEF Scanned
  <1>. QED
    BY <1>1, <1>2

LEMMA OpenAgrees ==
    ASSUME NEW c, NEW d, NEW s, Comparable(c, d, s), NEW type,
           Kept(c, d, OpenBracket(c, s, type))
    PROVE  OpenBracket(d, s, type) = OpenBracket(c, s, type)
  <1>0. /\ c.null = d.null /\ c.build = d.build /\ s \in Parsers /\ (c.null \/ ~NoRoom(d, s))
    BY DEF Comparable, SameText
  <1>1. CASE c.null
    BY <1>0, <1>1 DEF OpenBracket
  <1>2. CASE ~c.null
    <2>1. ~NoRoom(c, s)
      <3>. SUFFICES ASSUME NoRoom(c, s) PROVE FALSE
        OBVIOUS
      <3>1. OpenBracket(c, s, type) = Returned(s, JSMN_ERROR_NOMEM)
        BY <1>2 DEF OpenBracket
      <3>. QED
        BY <1>0, <3>1, OutOfTokens
    <2>2. jsmn_fill_token(d, jsmn_alloc_token(s), type, s.pos, -1)
            = jsmn_fill_token(c, jsmn_alloc_token(s), type, s.pos, -1)
      BY <1>0, FillAgrees
    <2>. QED
      BY <1>0, <1>2, <2>1, <2>2, Zenon DEF OpenBracket
  <1>. QED
    BY <1>1, <1>2

(* The value an error returns. *)
LEMMA ErrorReturns ==
    ASSUME NEW s \in Parsers, NEW r \in {JSMN_ERROR_INVAL, JSMN_ERROR_PART, -3, -2}
    PROVE  Returned(s, r).done
  <1>1. r \in Int
    BY DEF JSMN_ERROR_INVAL, JSMN_ERROR_PART
  <1>. QED
    BY <1>1, ReturnFacts

LEMMA StringAgrees ==
    ASSUME NEW c, NEW d, NEW s, Comparable(c, d, s), ~AtEnd(c, s.pos),
           Kept(c, d, jsmn_parse_string(c, s))
    PROVE  jsmn_parse_string(d, s) = jsmn_parse_string(c, s)
  <1>. DEFINE e == StringEnd(c, s.pos + 1)
              t == Scanned(c, s, "STRING", s.pos + 1, e)
  <1>0. /\ SameText(c, d) /\ c.len \in Nat /\ d.len \in Nat /\ s \in Parsers /\ s.pos \in Nat
        /\ s.pos <= c.len
    BY ParserFields DEF Comparable, SameText
  <1>1. s.pos + 1 \in 0..c.len
    BY <1>0 DEF AtEnd
  <1>2. e \in {-3, -2} \cup ((s.pos + 1)..(c.len - 1))
    BY <1>0, <1>1, StringEndFacts
  <1>3. CASE e < 0
    <2>1. e \in {-3, -2}
      <3>. HIDE DEF e
      <3>. QED
        BY <1>0, <1>2, <1>3
    <2>2. jsmn_parse_string(c, s) = Returned(s, e)
      BY <1>3 DEF jsmn_parse_string
    <2>3. c.len = d.len
      <3>. HIDE DEF e
      <3>. QED
        BY <1>0, <2>1, <2>2, ErrorReturns DEF Kept
    <2>4. StringEnd(d, s.pos + 1) = e
      BY <1>0, <1>1, <2>3, StringEndAgrees
    <2>5. jsmn_parse_string(d, s) = Returned(s, e)
      BY <1>3, <2>4 DEF jsmn_parse_string
    <2>. QED
      BY <2>2, <2>5
  <1>4. CASE ~(e < 0)
    <2>1. StringEnd(c, s.pos + 1) >= 0
      <3>1. e >= 0
        <4>. HIDE DEF e
        <4>. QED
          BY <1>0, <1>2, <1>4
      <3>. QED
        BY <3>1
    <2>2. StringEnd(d, s.pos + 1) = e
      BY <1>0, <1>1, <2>1, StringEndAgrees
    <2>3. jsmn_parse_string(c, s) = IF t.done THEN t ELSE MoveTo(t, e + 1)
      BY <1>4 DEF jsmn_parse_string
    <2>4. Kept(c, d, t)
      BY <2>3 DEF Kept
    <2>5. Scanned(d, s, "STRING", s.pos + 1, e) = t
      BY <2>4, ScannedAgrees
    <2>6. jsmn_parse_string(d, s) = IF t.done THEN t ELSE MoveTo(t, e + 1)
      BY <1>4, <2>2, <2>5 DEF jsmn_parse_string
    <2>. QED
      BY <2>3, <2>6
  <1>. QED
    BY <1>3, <1>4

LEMMA PrimitiveAgrees ==
    ASSUME NEW c, NEW d, NEW s, Comparable(c, d, s), Kept(c, d, jsmn_parse_primitive(c, s))
    PROVE  jsmn_parse_primitive(d, s) = jsmn_parse_primitive(c, s)
  <1>. DEFINE e == Min(PrimitiveEnds(c, s.pos))
              f == Min(PrimitiveEnds(d, s.pos))
  <1>0. /\ SameText(c, d) /\ s \in Parsers /\ s.pos \in Nat /\ s.pos <= c.len /\ c.build = d.build
        /\ c.build.strict \/ c.len = d.len
    BY ParserFields DEF Comparable, SameText
  <1>1. jsmn_parse_primitive(c, s) =
          IF ~AtEnd(c, e) /\ Char(c, e) = "BAD" THEN Returned(s, JSMN_ERROR_INVAL)
          ELSE IF AtEnd(c, e) /\ c.build.strict THEN Returned(s, JSMN_ERROR_PART)
          ELSE Scanned(c, s, "PRIMITIVE", s.pos, e)
    BY DEF jsmn_parse_primitive, PrimitiveEnds
  <1>2. jsmn_parse_primitive(d, s) =
          IF ~AtEnd(d, f) /\ Char(d, f) = "BAD" THEN Returned(s, JSMN_ERROR_INVAL)
          ELSE IF AtEnd(d, f) /\ d.build.strict THEN Returned(s, JSMN_ERROR_PART)
          ELSE Scanned(d, s, "PRIMITIVE", s.pos, f)
    BY DEF jsmn_parse_primitive, PrimitiveEnds
  <1>3. c.len = d.len \/ ~AtEnd(c, e)
    <2>. SUFFICES ASSUME AtEnd(c, e), c.len # d.len PROVE FALSE
      OBVIOUS
    <2>1. jsmn_parse_primitive(c, s) = Returned(s, JSMN_ERROR_PART)
      <3>. HIDE DEF e
      <3>. QED
        BY <1>0, <1>1
    <2>. QED
      BY <1>0, <2>1, ErrorReturns DEF Kept
  <1>4. f = e /\ e \in Nat
    <2>1. f = e
      BY <1>0, <1>3, PrimitiveEndAgrees
    <2>2. e \in Nat
      BY <1>0, PrimitiveEndFacts DEF SameText
    <2>. QED
      BY <2>1, <2>2
  <1>. HIDE DEF e, f
  <1>5. AtEnd(d, e) = AtEnd(c, e) /\ Char(d, e) = Char(c, e)
    <2>1. Char(d, e) = Char(c, e)
      BY <1>0, EndFacts
    <2>2. CASE c.len = d.len
      BY <1>0, <2>1, <2>2, EndFacts
    <2>3. CASE ~AtEnd(c, e)
      <3>1. ~AtEnd(d, e)
        BY <1>0, <1>4, <2>3, EndFacts
      <3>. QED
        BY <2>1, <2>3, <3>1 DEF AtEnd
    <2>. QED
      BY <1>3, <2>2, <2>3
  <1>6. CASE ~AtEnd(c, e) /\ Char(c, e) = "BAD"
    BY <1>1, <1>2, <1>4, <1>5, <1>6
  <1>7. CASE ~(~AtEnd(c, e) /\ Char(c, e) = "BAD") /\ AtEnd(c, e) /\ c.build.strict
    BY <1>0, <1>1, <1>2, <1>4, <1>5, <1>7
  <1>8. CASE ~(~AtEnd(c, e) /\ Char(c, e) = "BAD") /\ ~(AtEnd(c, e) /\ c.build.strict)
    <2>1. jsmn_parse_primitive(c, s) = Scanned(c, s, "PRIMITIVE", s.pos, e)
      BY <1>1, <1>8
    <2>2. jsmn_parse_primitive(d, s) = Scanned(d, s, "PRIMITIVE", s.pos, e)
      BY <1>0, <1>2, <1>4, <1>5, <1>8
    <2>. QED
      BY <2>1, <2>2, ScannedAgrees
  <1>. QED
    BY <1>6, <1>7, <1>8

(* What a step does depends on the character. *)
Marks == {"{", "[", "}", "]", "\"", " ", ":", ","}

LEMMA StepCases ==
    ASSUME NEW c, NEW s, ~AtEnd(c, s.pos)
    PROVE  LET ch == Char(c, s.pos) IN
           /\ ch = "{" => Step(c, s) = OpenBracket(c, s, "OBJECT")
           /\ ch = "[" => Step(c, s) = OpenBracket(c, s, "ARRAY")
           /\ ch = "}" => Step(c, s) = CloseBracket(c, s, "OBJECT")
           /\ ch = "]" => Step(c, s) = CloseBracket(c, s, "ARRAY")
           /\ ch = "\"" => Step(c, s) = jsmn_parse_string(c, s)
           /\ ch = " " => Step(c, s) = MoveTo(s, s.pos + 1)
           /\ ch = ":" => Step(c, s) = Colon(s)
           /\ ch = "," => Step(c, s) = Comma(c, s)
           /\ ch \notin Marks => Step(c, s) = Primitive(c, s, ch)
  <1>. DEFINE ch == Char(c, s.pos)
  <1>. HIDE DEF ch
  <1>1. ch = "{" => Step(c, s) = OpenBracket(c, s, "OBJECT")
    BY DEF Step, Blanks, ch
  <1>2. ch = "[" => Step(c, s) = OpenBracket(c, s, "ARRAY")
    BY DEF Step, Blanks, ch
  <1>3. ch = "}" => Step(c, s) = CloseBracket(c, s, "OBJECT")
    BY DEF Step, Blanks, ch
  <1>4. ch = "]" => Step(c, s) = CloseBracket(c, s, "ARRAY")
    BY DEF Step, Blanks, ch
  <1>5. ch = "\"" => Step(c, s) = jsmn_parse_string(c, s)
    BY DEF Step, Blanks, ch
  <1>6. ch = " " => Step(c, s) = MoveTo(s, s.pos + 1)
    BY DEF Step, Blanks, ch
  <1>7. ch = ":" => Step(c, s) = Colon(s)
    BY DEF Step, Blanks, ch
  <1>8. ch = "," => Step(c, s) = Comma(c, s)
    BY DEF Step, Blanks, ch
  <1>9. ch \notin Marks => Step(c, s) = Primitive(c, s, ch)
    BY DEF Step, Blanks, Marks, ch
  <1>. QED
    BY <1>1, <1>2, <1>3, <1>4, <1>5, <1>6, <1>7, <1>8, <1>9 DEF ch

(* With more text and more tokens a step is the same step, unless it ends  *)
(* the call for lack of them.                                              *)
LEMMA StepAgrees ==
    ASSUME NEW c, NEW d, NEW s, Comparable(c, d, s), Kept(c, d, Step(c, s))
    PROVE  Step(d, s) = Step(c, s)
  <1>. DEFINE ch == Char(c, s.pos)
  <1>0. /\ SameText(c, d) /\ s \in Parsers /\ s.pos \in Nat /\ c.null = d.null /\ c.build = d.build
        /\ Char(d, s.pos) = ch
    BY ParserFields, EndFacts DEF Comparable, SameText
  <1>1. CASE AtEnd(c, s.pos)
    <2>1. Step(c, s) = Finish(c, s)
      BY <1>1 DEF Step
    <2>2. Finish(c, s).done
      <3>1. s.count \in Int /\ JSMN_ERROR_PART \in Int
        BY <1>0, ParserFields DEF JSMN_ERROR_PART
      <3>. QED
        BY <1>0, <3>1, ReturnFacts DEF Finish
    <2>3. c.len = d.len
      BY <2>1, <2>2 DEF Kept
    <2>4. AtEnd(d, s.pos)
      BY <1>0, <1>1, <2>3, EndFacts
    <2>5. Step(d, s) = Finish(d, s)
      BY <2>4 DEF Step
    <2>. QED
      BY <1>0, <2>1, <2>5 DEF Finish
  <1>2. CASE ~AtEnd(c, s.pos)
    <2>0. ~AtEnd(d, s.pos)
      BY <1>0, <1>2, EndFacts
    <2>1. /\ \A type : CloseBracket(d, s, type) = CloseBracket(c, s, type)
          /\ Comma(d, s) = Comma(c, s)
      BY <1>0, Zenon DEF CloseBracket, Comma
    <2>. DEFINE C == Step(c, s)
                D == Step(d, s)
    <2>2. CASE ch = "{"
      <3>1. C = OpenBracket(c, s, "OBJECT") /\ D = OpenBracket(d, s, "OBJECT")
        BY <1>0, <1>2, <2>0, <2>2, StepCases
      <3>. QED
        BY <3>1, OpenAgrees
    <2>3. CASE ch = "["
      <3>1. C = OpenBracket(c, s, "ARRAY") /\ D = OpenBracket(d, s, "ARRAY")
        BY <1>0, <1>2, <2>0, <2>3, StepCases
      <3>. QED
        BY <3>1, OpenAgrees
    <2>4. CASE ch = "}" \/ ch = "]"
      <3>1. \/ C = CloseBracket(c, s, "OBJECT") /\ D = CloseBracket(d, s, "OBJECT")
            \/ C = CloseBracket(c, s, "ARRAY") /\ D = CloseBracket(d, s, "ARRAY")
        BY <1>0, <1>2, <2>0, <2>4, StepCases
      <3>. QED
        BY <2>1, <3>1
    <2>5. CASE ch = "\""
      <3>1. C = jsmn_parse_string(c, s) /\ D = jsmn_parse_string(d, s)
        BY <1>0, <1>2, <2>0, <2>5, StepCases
      <3>. QED
        BY <1>2, <3>1, StringAgrees
    <2>6. CASE ch = " " \/ ch = ":" \/ ch = ","
      <3>1. \/ C = MoveTo(s, s.pos + 1) /\ D = MoveTo(s, s.pos + 1)
            \/ C = Colon(s) /\ D = Colon(s)
            \/ C = Comma(c, s) /\ D = Comma(d, s)
        BY <1>0, <1>2, <2>0, <2>6, StepCases
      <3>. QED
        BY <2>1, <3>1
    <2>7. CASE ch \notin Marks
      <3>1. C = Primitive(c, s, ch) /\ D = Primitive(d, s, ch)
        BY <1>0, <1>2, <2>0, <2>7, StepCases
      <3>2. \/ Primitive(c, s, ch) = Primitive(d, s, ch)
            \/ Primitive(c, s, ch) = jsmn_parse_primitive(c, s)
                 /\ Primitive(d, s, ch) = jsmn_parse_primitive(d, s)
        <4>. HIDE DEF ch
        <4>. QED
          BY <1>0, Zenon DEF Primitive
      <3>3. CASE Primitive(c, s, ch) = jsmn_parse_primitive(c, s)
                   /\ Primitive(d, s, ch) = jsmn_parse_primitive(d, s)
        <4>1. Kept(c, d, jsmn_parse_primitive(c, s))
          BY <3>1, <3>3
        <4>. QED
          BY <3>1, <3>3, <4>1, PrimitiveAgrees
      <3>. QED
        BY <3>1, <3>2, <3>3
    <2>. QED
      BY <2>2, <2>3, <2>4, <2>5, <2>6, <2>7 DEF Marks
  <1>. QED
    BY <1>1, <1>2
-----------------------------------------------------------------------------
(* What the text alone decides: the step at k goes on to p and needs m     *)
(* tokens.                                                                 *)
Opening == {"{", "["}
Passing == {"}", "]", " ", ":", ","}

GoesString(c, k, p, m) ==
    Char(c, k) = "\"" /\ StringEnd(c, k + 1) >= 0 /\ p = StringEnd(c, k + 1) + 1 /\ m = 1

GoesPrimitive(c, k, p, m) ==
    /\ Char(c, k) \notin Marks /\ m = 1
    /\ ~(c.build.strict /\ Char(c, k) \notin Literals)
    /\ p = Min(PrimitiveEnds(c, k))
    /\ ~(~AtEnd(c, p) /\ Char(c, p) = "BAD") /\ ~(AtEnd(c, p) /\ c.build.strict)

Goes(c, k, p, m) ==
    \/ Char(c, k) \in Opening /\ p = k + 1 /\ m = 1
    \/ Char(c, k) \in Passing /\ p = k + 1 /\ m = 0
    \/ GoesString(c, k, p, m)
    \/ GoesPrimitive(c, k, p, m)

(* It goes forward, and not past the end. *)
LEMMA GoesFacts ==
    ASSUME NEW c, c.len \in Nat, NEW k \in Nat, ~AtEnd(c, k), NEW p, NEW m, Goes(c, k, p, m)
    PROVE  p \in Nat /\ k < p /\ p <= c.len /\ m \in {0, 1}
  <1>1. k < c.len /\ k + 1 \in Nat /\ k + 1 <= c.len /\ k + 1 \in 0..c.len
    BY DEF AtEnd
  <1>2. CASE p = k + 1 /\ (m = 0 \/ m = 1)
    BY <1>1, <1>2
  <1>3. CASE GoesString(c, k, p, m)
    <2>. DEFINE e == StringEnd(c, k + 1)
    <2>1. e \in {-3, -2} \cup ((k + 1)..(c.len - 1))
      BY <1>1, StringEndFacts
    <2>2. e >= 0 /\ p = e + 1 /\ m = 1
      BY <1>3, Zenon DEF GoesString
    <2>. HIDE DEF e
    <2>. QED
      BY <1>1, <2>1, <2>2
  <1>4. CASE GoesPrimitive(c, k, p, m)
    <2>0. Char(c, k) \notin Delimiters(c)
      BY <1>4 DEF GoesPrimitive, Delimiters, Blanks, Marks
    <2>1. /\ p \in Nat /\ k <= p /\ p <= c.len /\ m = 1
          /\ AtEnd(c, p) \/ Char(c, p) \in Delimiters(c) \cup {"BAD"}
      BY <1>1, <1>4, PrimitiveEndFacts DEF GoesPrimitive
    <2>2. ~(~AtEnd(c, p) /\ Char(c, p) = "BAD")
      BY <1>4 DEF GoesPrimitive
    <2>3. p # k
      BY <2>0, <2>1, <2>2
    <2>. QED
      BY <2>1, <2>3
  <1>. QED
    BY <1>2, <1>3, <1>4 DEF Goes

(* The same text goes the same way. *)
LEMMA GoesSame ==
    ASSUME NEW c, NEW d, SameText(c, d), c.len = d.len, NEW k \in Nat, ~AtEnd(c, k),
           NEW p, NEW m, Goes(c, k, p, m)
    PROVE  Goes(d, k, p, m)
  <1>0. /\ c.len \in Nat /\ d.len \in Nat /\ c.build = d.build /\ \A i : Char(d, i) = Char(c, i)
        /\ \A i : AtEnd(d, i) = AtEnd(c, i)
    BY EndFacts DEF SameText
  <1>1. k \in Nat /\ k <= c.len /\ k + 1 \in 0..c.len
    BY <1>0 DEF AtEnd
  <1>2. StringEnd(d, k + 1) = StringEnd(c, k + 1)
    BY <1>1, StringEndAgrees
  <1>3. Min(PrimitiveEnds(d, k)) = Min(PrimitiveEnds(c, k))
    BY <1>1, PrimitiveEndAgrees
  <1>4. GoesString(c, k, p, m) => GoesString(d, k, p, m)
    BY <1>0, <1>2, Zenon DEF GoesString
  <1>5. GoesPrimitive(c, k, p, m) => GoesPrimitive(d, k, p, m)
    BY <1>0, <1>3, Zenon DEF GoesPrimitive
  <1>. QED
    BY <1>0, <1>4, <1>5 DEF Goes

(* A step that goes on. *)
Stepped(s, t, p, m) ==
    /\ t \in Parsers /\ ~t.done /\ t.pos = p /\ t.toknext = s.toknext + m
    /\ t.count = s.count + m /\ t.ret = s.ret

(* A step that does not. *)
Refused(t) == t \in Parsers /\ t.done /\ t.ret = JSMN_ERROR_INVAL

LEMMA MoveStepped ==
    ASSUME NEW s \in Parsers, ~s.done, NEW p \in Nat, NEW i \in Int
    PROVE  Stepped(s, MoveTo(s, p), p, 0) /\ Stepped(s, MoveTo(Super(s, i), p), p, 0)
  <1>1. s.toknext + 0 = s.toknext /\ s.count + 0 = s.count
    BY ParserFields
  <1>2. Stepped(s, MoveTo(s, p), p, 0)
    <2>. DEFINE t == MoveTo(s, p)
    <2>1. /\ t \in Parsers /\ t.toknext = s.toknext /\ t.count = s.count /\ t.ret = s.ret
          /\ t.done = s.done /\ t.pos = p
      BY MoveFacts
    <2>. HIDE DEF t
    <2>2. Stepped(s, t, p, 0)
      BY <1>1, <2>1, Zenon DEF Stepped
    <2>. QED
      BY <2>2 DEF t
  <1>. DEFINE r == Super(s, i)
  <1>3. r \in Parsers /\ r.toknext = s.toknext /\ r.count = s.count /\ r.ret = s.ret /\ r.done = s.done
    BY SuperFacts
  <1>. HIDE DEF r
  <1>4. Stepped(s, MoveTo(r, p), p, 0)
    BY <1>1, <1>3, MoveFacts, Zenon DEF Stepped
  <1>. QED
    BY <1>2, <1>4 DEF r

LEMMA RefusedReturn ==
    ASSUME NEW s \in Parsers
    PROVE  Refused(Returned(s, JSMN_ERROR_INVAL))
  <1>1. JSMN_ERROR_INVAL \in Int
    BY DEF JSMN_ERROR_INVAL
  <1>. QED
    BY <1>1, ReturnFacts DEF Refused

(* A step of a parse without tokens that goes on. *)
Passed(u, v, p, m) ==
    /\ v \in Parsers /\ ~v.done /\ v.pos = p /\ v.count = u.count + m /\ v.ret = u.ret

LEMMA SteppedPassed ==
    ASSUME NEW s, NEW t, NEW p, NEW m, Stepped(s, t, p, m)
    PROVE  Passed(s, t, p, m)
  BY DEF Stepped, Passed

LEMMA CountPassed ==
    ASSUME NEW u \in Parsers, ~u.done, NEW p \in Nat, NEW q \in Nat
    PROVE  /\ Passed(u, MoveTo(Counted(u), p), p, 1)
           /\ ~MoveTo(Counted(u), q).done
           /\ Passed(u, MoveTo(MoveTo(Counted(u), q), p), p, 1)
  <1>. DEFINE r == Counted(u)
              w == MoveTo(r, q)
  <1>1. r \in Parsers /\ r.count = u.count + 1 /\ r.ret = u.ret /\ r.done = u.done
    BY CountFacts
  <1>. HIDE DEF r
  <1>2. Passed(u, MoveTo(r, p), p, 1)
    BY <1>1, MoveFacts, Zenon DEF Passed
  <1>3. w \in Parsers /\ w.count = u.count + 1 /\ w.ret = u.ret /\ w.done = u.done
    BY <1>1, MoveFacts
  <1>. HIDE DEF w
  <1>4. Passed(u, MoveTo(w, p), p, 1)
    BY <1>3, MoveFacts, Zenon DEF Passed
  <1>. QED
    BY <1>2, <1>3, <1>4, Zenon DEF r, w

(* A parse without tokens goes where the text lets it, or ends with an     *)
(* error.                                                                  *)
NullResult(c, u, v) ==
    /\ \A p, m : Goes(c, u.pos, p, m) => Passed(u, v, p, m)
    /\ \/ \E p, m : Goes(c, u.pos, p, m)
       \/ v \in Parsers /\ v.done /\ v.ret \in {-3, -2}

LEMMA NullStep ==
    ASSUME NEW c, c.len \in Nat, c.null, NEW u \in Parsers, ~u.done, ~AtEnd(c, u.pos)
    PROVE  NullResult(c, u, Step(c, u))
  <1>. DEFINE v == Step(c, u)
              ch == Char(c, u.pos)
  <1>0. u.pos \in Nat /\ u.pos + 1 \in Nat /\ u.toknext - 1 \in Int /\ u.toksuper \in Int
    BY ParserFields
  <1>1. u.pos <= c.len /\ u.pos + 1 \in 0..c.len
    BY <1>0 DEF AtEnd
  <1>2. CASE ch \in Opening
    <2>1. v = MoveTo(Counted(u), u.pos + 1)
      <3>1. v = OpenBracket(c, u, "OBJECT") \/ v = OpenBracket(c, u, "ARRAY")
        BY <1>2, StepCases DEF Opening
      <3>. QED
        BY <3>1, Zenon DEF OpenBracket
    <2>2. Passed(u, v, u.pos + 1, 1)
      BY <1>0, <2>1, CountPassed
    <2>3. \A p, m : Goes(c, u.pos, p, m) <=> p = u.pos + 1 /\ m = 1
      <3>1. ch \notin Passing /\ ch # "\"" /\ ch \in Marks
        BY <1>2 DEF Opening, Passing, Marks
      <3>. QED
        BY <1>2, <3>1, Zenon DEF Goes, GoesString, GoesPrimitive
    <2>. QED
      BY <2>2, <2>3, Zenon DEF NullResult
  <1>3. CASE ch \in Passing
    <2>1. \/ v = MoveTo(u, u.pos + 1) \/ v = MoveTo(Super(u, u.toknext - 1), u.pos + 1)
          \/ v = MoveTo(Super(u, u.toksuper), u.pos + 1)
      <3>1. \/ v = CloseBracket(c, u, "OBJECT") \/ v = CloseBracket(c, u, "ARRAY")
            \/ v = MoveTo(u, u.pos + 1) \/ v = Colon(u) \/ v = Comma(c, u)
        BY <1>3, StepCases DEF Passing
      <3>2. Comma(c, u) = MoveTo(Super(u, u.toksuper), u.pos + 1)
        BY Zenon DEF Comma
      <3>. QED
        BY <3>1, <3>2, Zenon DEF CloseBracket, Colon
    <2>2. Stepped(u, v, u.pos + 1, 0)
      BY <1>0, <2>1, MoveStepped
    <2>3. Passed(u, v, u.pos + 1, 0)
      BY <2>2, SteppedPassed
    <2>4. \A p, m : Goes(c, u.pos, p, m) <=> p = u.pos + 1 /\ m = 0
      <3>1. ch \notin Opening /\ ch # "\"" /\ ch \in Marks
        BY <1>3 DEF Opening, Passing, Marks
      <3>. QED
        BY <1>3, <3>1, Zenon DEF Goes, GoesString, GoesPrimitive
    <2>. QED
      BY <2>3, <2>4, Zenon DEF NullResult
  <1>4. CASE ch = "\""
    <2>. DEFINE e == StringEnd(c, u.pos + 1)
    <2>0. v = jsmn_parse_string(c, u)
      BY <1>4, StepCases
    <2>1. e \in {-3, -2} \cup ((u.pos + 1)..(c.len - 1))
      BY <1>1, StringEndFacts
    <2>2. \A p, m : Goes(c, u.pos, p, m) <=> e >= 0 /\ p = e + 1 /\ m = 1
      <3>1. ch \notin Opening /\ ch \notin Passing /\ ch \in Marks
        BY <1>4 DEF Opening, Passing, Marks
      <3>. QED
        BY <1>4, <3>1, Zenon DEF Goes, GoesString, GoesPrimitive
    <2>3. v = IF e < 0 THEN Returned(u, e)
              ELSE LET t == Scanned(c, u, "STRING", u.pos + 1, e)
                   IN  IF t.done THEN t ELSE MoveTo(t, e + 1)
      BY <2>0 DEF jsmn_parse_string
    <2>4. Scanned(c, u, "STRING", u.pos + 1, e) = MoveTo(Counted(u), e)
      BY Zenon DEF Scanned
    <2>. HIDE DEF e, v
    <2>5. ASSUME e \in {-3, -2} PROVE NullResult(c, u, v)
      <3>1. e < 0 /\ ~(e >= 0) /\ e \in Int
        BY <2>5
      <3>2. v = Returned(u, e)
        BY <2>3, <3>1
      <3>3. v \in Parsers /\ v.done /\ v.ret = e
        BY <3>1, <3>2, ReturnFacts
      <3>. QED
        BY <2>2, <2>5, <3>1, <3>3, Zenon DEF NullResult
    <2>6. ASSUME e \in (u.pos + 1)..(c.len - 1) PROVE NullResult(c, u, v)
      <3>1. e \in Nat /\ e + 1 \in Nat /\ ~(e < 0) /\ e >= 0
        BY <1>0, <2>6
      <3>2. v = MoveTo(MoveTo(Counted(u), e), e + 1)
        BY <2>3, <2>4, <3>1, CountPassed
      <3>3. Passed(u, v, e + 1, 1)
        BY <3>1, <3>2, CountPassed
      <3>. QED
        BY <2>2, <3>1, <3>3, Zenon DEF NullResult
    <2>. QED
      BY <2>1, <2>5, <2>6 DEF v
  <1>5. CASE ch \notin Marks
    <2>. DEFINE e == Min(PrimitiveEnds(c, u.pos))
    <2>0. v = Primitive(c, u, ch)
      BY <1>5, StepCases
    <2>1. e \in Nat
      BY <1>0, <1>1, PrimitiveEndFacts
    <2>2. \A p, m : Goes(c, u.pos, p, m) <=>
            /\ p = e /\ m = 1 /\ ~(c.build.strict /\ ch \notin Literals)
            /\ ~(~AtEnd(c, e) /\ Char(c, e) = "BAD") /\ ~(AtEnd(c, e) /\ c.build.strict)
      <3>1. ch \notin Opening /\ ch \notin Passing /\ ch # "\""
        BY <1>5 DEF Opening, Passing, Marks
      <3>. QED
        BY <1>5, <3>1, Zenon DEF Goes, GoesString, GoesPrimitive
    <2>3. v = IF c.build.strict /\ ch \notin Literals THEN Returned(u, JSMN_ERROR_INVAL)
              ELSE jsmn_parse_primitive(c, u)
      BY <2>0, Zenon DEF Primitive
    <2>4. jsmn_parse_primitive(c, u) =
            IF ~AtEnd(c, e) /\ Char(c, e) = "BAD" THEN Returned(u, JSMN_ERROR_INVAL)
            ELSE IF AtEnd(c, e) /\ c.build.strict THEN Returned(u, JSMN_ERROR_PART)
            ELSE MoveTo(Counted(u), e)
      <3>1. Scanned(c, u, "PRIMITIVE", u.pos, e) = MoveTo(Counted(u), e)
        BY Zenon DEF Scanned
      <3>. QED
        BY <3>1 DEF jsmn_parse_primitive, PrimitiveEnds
    <2>5. Passed(u, MoveTo(Counted(u), e), e, 1)
      BY <2>1, CountPassed
    <2>6. \A r \in {JSMN_ERROR_INVAL, JSMN_ERROR_PART} :
            Returned(u, r) \in Parsers /\ Returned(u, r).done /\ Returned(u, r).ret \in {-3, -2}
      <3>1. JSMN_ERROR_INVAL = -2 /\ JSMN_ERROR_PART = -3 /\ -2 \in Int /\ -3 \in Int
        BY DEF JSMN_ERROR_INVAL, JSMN_ERROR_PART
      <3>2. \A r \in {-3, -2} :
              Returned(u, r) \in Parsers /\ Returned(u, r).done /\ Returned(u, r).ret = r
        <4>1. ASSUME NEW r \in {-3, -2} PROVE r \in Int
          OBVIOUS
        <4>. QED
          BY <4>1, ReturnFacts, ZenonT(30)
      <3>. QED
        BY <3>1, <3>2
    <2>. HIDE DEF e, v, ch
    <2>7. ASSUME v = MoveTo(Counted(u), e), ~(c.build.strict /\ ch \notin Literals),
                 ~(~AtEnd(c, e) /\ Char(c, e) = "BAD"), ~(AtEnd(c, e) /\ c.build.strict)
          PROVE  NullResult(c, u, v)
      <3>1. Goes(c, u.pos, e, 1)
        BY <2>2, <2>7, Zenon
      <3>2. \A p, m : Goes(c, u.pos, p, m) => p = e /\ m = 1
        BY <2>2, Zenon
      <3>3. Passed(u, v, e, 1)
        BY <2>5, <2>7, Zenon
      <3>. QED
        BY <3>1, <3>2, <3>3, Zenon DEF NullResult
    <2>8. ASSUME v = Returned(u, JSMN_ERROR_INVAL) \/ v = Returned(u, JSMN_ERROR_PART),
                 \/ c.build.strict /\ ch \notin Literals
                 \/ ~AtEnd(c, e) /\ Char(c, e) = "BAD"
                 \/ AtEnd(c, e) /\ c.build.strict
          PROVE  NullResult(c, u, v)
      <3>1. v \in Parsers /\ v.done /\ v.ret \in {-3, -2}
        BY <2>6, <2>8
      <3>. QED
        BY <2>2, <2>8, <3>1, Zenon DEF NullResult
    <2>. QED
      BY <2>3, <2>4, <2>7, <2>8, Zenon DEF v
  <1>. QED
    <2>1. ch \in Opening \/ ch \in Passing \/ ch = "\"" \/ ch \notin Marks
      BY DEF Opening, Passing, Marks
    <2>. QED
      BY <1>2, <1>3, <1>4, <1>5, <2>1

(* A parse with tokens goes the same way, unless it runs out of tokens or  *)
(* text or finds an error.                                                 *)
FullResult(c, s, t) ==
    \/ \E p, m : Goes(c, s.pos, p, m) /\ Stepped(s, t, p, m)
    \/ t = Returned(s, JSMN_ERROR_NOMEM) /\ NoRoom(c, s) /\ \E p : Goes(c, s.pos, p, 1)
    \/ t = Returned(s, JSMN_ERROR_PART)
    \/ Refused(t)

LEMMA AddedStepped ==
    ASSUME NEW c, NEW s, ~s.done, NEW t, NEW type, NEW start, NEW end, NEW p, NEW sup,
           Added(c, s, t, type, start, end, p, sup)
    PROVE  Stepped(s, t, p, 1)
  BY Zenon DEF Added, Stepped

LEMMA OpenStep ==
    ASSUME NEW c, NEW s, Working(c, s), NEW type \in {"OBJECT", "ARRAY"}
    PROVE  LET t == OpenBracket(c, s, type) IN
           \/ Stepped(s, t, s.pos + 1, 1)
           \/ t = Returned(s, JSMN_ERROR_NOMEM) /\ NoRoom(c, s)
           \/ Refused(t)
  <1>. DEFINE new == jsmn_alloc_token(s)
              g == GrowSuper(jsmn_fill_token(c, new, type, s.pos, -1))
              o == MoveTo(Counted(Super(g, s.toknext)), s.pos + 1)
              t == OpenBracket(c, s, type)
  <1>0. /\ s \in Parsers /\ Len(s.tokens) = s.toknext /\ s.toknext \in Int /\ s.pos \in Int
        /\ s.pos + 1 \in Nat /\ s.toksuper \in -1..(s.toknext - 1) /\ CallOK(c) /\ ~c.null
        /\ ~s.done /\ type \in Types /\ -1 \in Int
    BY WorkingFacts DEF Working, Sound, Types
  <1>1. Added(c, s, o, type, s.pos, -1, s.pos + 1, s.toknext)
    BY <1>0, AddFacts
  <1>2. new \in Parsers
    BY <1>0, AllocFacts
  <1>3. \/ t = Returned(s, JSMN_ERROR_NOMEM) /\ NoRoom(c, s)
        \/ t = Returned(new, JSMN_ERROR_INVAL)
        \/ t = o
    BY <1>0 DEF OpenBracket
  <1>. HIDE DEF new, o, t
  <1>4. Refused(Returned(new, JSMN_ERROR_INVAL)) /\ Stepped(s, o, s.pos + 1, 1)
    BY <1>0, <1>1, <1>2, RefusedReturn, AddedStepped
  <1>5. \/ Stepped(s, t, s.pos + 1, 1)
        \/ t = Returned(s, JSMN_ERROR_NOMEM) /\ NoRoom(c, s)
        \/ Refused(t)
    BY <1>3, <1>4
  <1>. QED
    BY <1>5 DEF t

LEMMA CloseStep ==
    ASSUME NEW c, NEW s, Working(c, s), NEW type
    PROVE  LET t == CloseBracket(c, s, type) IN Stepped(s, t, s.pos + 1, 0) \/ Refused(t)
  <1>. DEFINE t == CloseBracket(c, s, type)
  <1>0. /\ s \in Parsers /\ Len(s.tokens) = s.toknext /\ s.toknext \in Nat /\ s.pos + 1 \in Nat
        /\ ~c.null /\ ~s.done /\ s.toknext + 0 = s.toknext /\ s.count + 0 = s.count
    BY WorkingFacts DEF Working
  <1>1. Refused(Returned(s, JSMN_ERROR_INVAL)) /\ Stepped(s, MoveTo(s, s.pos + 1), s.pos + 1, 0)
    BY <1>0, RefusedReturn, MoveStepped
  <1>2. ASSUME NEW i \in Indices(s), NEW sup \in Int
        PROVE  Stepped(s, Closed(s, i, sup), s.pos + 1, 0)
    <2>. DEFINE x == Closed(s, i, sup)
    <2>1. /\ x \in Parsers /\ x.toknext = s.toknext /\ x.count = s.count /\ x.pos = s.pos + 1
          /\ x.ret = s.ret /\ x.done = s.done
      BY <1>0, ClosedFacts
    <2>. HIDE DEF x
    <2>2. Stepped(s, x, s.pos + 1, 0)
      BY <1>0, <2>1, Zenon DEF Stepped
    <2>. QED
      BY <2>2 DEF x
  <1>3. CASE c.build.links
    <2>. DEFINE i == Partner(s)
    <2>1. t = CloseWithLinks(s, type)
      BY <1>0, <1>3 DEF CloseBracket
    <2>2. \/ t = Returned(s, JSMN_ERROR_INVAL)
          \/ t = MoveTo(s, s.pos + 1)
          \/ i \in Unclosed(s) /\ t = Closed(s, i, Token(s, i).parent)
      BY <2>1 DEF CloseWithLinks
    <2>. HIDE DEF i, t
    <2>3. i \in Unclosed(s) => i \in Indices(s) /\ Token(s, i).parent \in Int
      BY <1>0, FieldsOf DEF Unclosed
    <2>4. Stepped(s, t, s.pos + 1, 0) \/ Refused(t)
      BY <1>1, <1>2, <2>2, <2>3
    <2>. QED
      BY <2>4 DEF t
  <1>4. CASE ~c.build.links
    <2>. DEFINE i == Innermost(Unclosed(s))
                sup == Innermost(Unclosed(s) \ {i})
    <2>1. t = CloseWithoutLinks(s, type)
      BY <1>0, <1>4 DEF CloseBracket
    <2>2. \/ t = Returned(s, JSMN_ERROR_INVAL)
          \/ i # -1 /\ t = Closed(s, i, sup)
      BY <2>1 DEF CloseWithoutLinks
    <2>3. Unclosed(s) \in SUBSET Indices(s)
      BY DEF Unclosed
    <2>4. i # -1 => i \in Indices(s)
      BY <1>0, <2>3, InnermostFacts
    <2>. HIDE DEF i, t
    <2>5. sup \in Int
      <3>1. Unclosed(s) \ {i} \in SUBSET Indices(s)
        BY <2>3
      <3>2. sup \in -1..(s.toknext - 1)
        BY <1>0, <3>1, InnermostFacts
      <3>. HIDE DEF sup
      <3>. QED
        BY <1>0, <3>2
    <2>. HIDE DEF sup
    <2>6. Stepped(s, t, s.pos + 1, 0) \/ Refused(t)
      BY <1>1, <1>2, <2>2, <2>4, <2>5
    <2>. QED
      BY <2>6 DEF t
  <1>. QED
    BY <1>3, <1>4

LEMMA CommaStep ==
    ASSUME NEW c, NEW s, Working(c, s)
    PROVE  Stepped(s, Comma(c, s), s.pos + 1, 0) /\ Stepped(s, Colon(s), s.pos + 1, 0)
  <1>. DEFINE open == Innermost(Unclosed(s))
  <1>0. /\ s \in Parsers /\ ~s.done /\ s.pos + 1 \in Nat /\ s.toknext \in Nat
        /\ s.toksuper \in -1..(s.toknext - 1) /\ s.toksuper \in Int /\ Len(s.tokens) = s.toknext
    BY WorkingFacts DEF Working
  <1>1. open \in Int
    <2>1. Unclosed(s) \in SUBSET Indices(s)
      BY DEF Unclosed
    <2>2. open \in -1..(s.toknext - 1)
      BY <1>0, <2>1, InnermostFacts
    <2>. HIDE DEF open
    <2>. QED
      BY <1>0, <2>2
  <1>2. \E i \in Int : Comma(c, s) = MoveTo(Super(s, i), s.pos + 1)
    <2>1. s.toksuper # -1 => Token(s, s.toksuper).parent \in Int
      <3>1. s.toksuper # -1 => s.toksuper \in Indices(s)
        BY <1>0 DEF Indices
      <3>. QED
        BY <1>0, <3>1, FieldsOf
    <2>2. \/ Comma(c, s) = MoveTo(Super(s, s.toksuper), s.pos + 1)
          \/ /\ s.toksuper # -1
             /\ Comma(c, s) = MoveTo(Super(s, Token(s, s.toksuper).parent), s.pos + 1)
          \/ Comma(c, s) = MoveTo(Super(s, open), s.pos + 1)
      BY DEF Comma
    <2>. HIDE DEF open
    <2>. QED
      BY <1>0, <1>1, <2>1, <2>2
  <1>3. s.toknext - 1 \in Int
    BY <1>0
  <1>. QED
    BY <1>0, <1>2, <1>3, MoveStepped DEF Colon

Quoted(c, k) == Char(c, k) = "\""

LEMMA StringStep ==
    ASSUME NEW c, NEW s, Working(c, s), ~AtEnd(c, s.pos), Quoted(c, s.pos)
    PROVE  FullResult(c, s, jsmn_parse_string(c, s))
  <1>. DEFINE e == StringEnd(c, s.pos + 1)
              x == Scanned(c, s, "STRING", s.pos + 1, e)
              t == jsmn_parse_string(c, s)
  <1>0. /\ s \in Parsers /\ s.pos \in Nat /\ s.pos + 1 \in Nat /\ s.pos <= s.pos + 1
        /\ "STRING" \in Types /\ ~s.done /\ c.len \in Nat
    BY WorkingFacts DEF Working, Types
  <1>1. s.pos + 1 \in 0..c.len
    BY <1>0 DEF AtEnd
  <1>2. e \in {-3, -2} \cup ((s.pos + 1)..(c.len - 1))
    BY <1>0, <1>1, StringEndFacts
  <1>3. t = IF e < 0 THEN Returned(s, e) ELSE IF x.done THEN x ELSE MoveTo(x, e + 1)
    BY DEF jsmn_parse_string
  <1>4. e >= 0 => Goes(c, s.pos, e + 1, 1)
    BY Zenon DEF Goes, GoesString, Quoted
  <1>. HIDE DEF t
  <1>5. CASE e \in {-3, -2}
    <2>1. t = Returned(s, JSMN_ERROR_PART) \/ t = Returned(s, JSMN_ERROR_INVAL)
      <3>. HIDE DEF e, x
      <3>. QED
        BY <1>3, <1>5 DEF JSMN_ERROR_PART, JSMN_ERROR_INVAL
    <2>2. FullResult(c, s, t)
      BY <1>0, <2>1, RefusedReturn DEF FullResult
    <2>. QED
      BY <2>2 DEF t
  <1>6. CASE e \in (s.pos + 1)..(c.len - 1)
    <2>1. e \in Nat /\ ~(e < 0) /\ e >= 0
      <3>. HIDE DEF e
      <3>. QED
        BY <1>0, <1>6
    <2>2. \/ x = Returned(s, JSMN_ERROR_NOMEM) /\ NoRoom(c, s)
          \/ ~x.done /\ Added(c, s, MoveTo(x, e + 1), "STRING", s.pos + 1, e, e + 1, s.toksuper)
      BY <1>0, <2>1, ScannedSound
    <2>3. Goes(c, s.pos, e + 1, 1)
      BY <1>4, <2>1
    <2>4. x = Returned(s, JSMN_ERROR_NOMEM) => x.done
      <3>1. JSMN_ERROR_NOMEM \in Int
        BY DEF JSMN_ERROR_NOMEM
      <3>. HIDE DEF x
      <3>. QED
        BY <1>0, <3>1, ReturnFacts
    <2>. HIDE DEF e, x
    <2>5. CASE x = Returned(s, JSMN_ERROR_NOMEM) /\ NoRoom(c, s)
      <3>1. t = x
        BY <1>3, <2>1, <2>4, <2>5
      <3>2. FullResult(c, s, t)
        BY <2>3, <2>5, <3>1, Zenon DEF FullResult
      <3>. QED
        BY <3>2 DEF t
    <2>6. CASE ~x.done /\ Added(c, s, MoveTo(x, e + 1), "STRING", s.pos + 1, e, e + 1, s.toksuper)
      <3>1. t = MoveTo(x, e + 1)
        BY <1>3, <2>1, <2>6
      <3>2. Stepped(s, t, e + 1, 1)
        BY <1>0, <2>6, <3>1, AddedStepped
      <3>3. FullResult(c, s, t)
        BY <2>3, <3>2, Zenon DEF FullResult
      <3>. QED
        BY <3>3 DEF t
    <2>. QED
      BY <2>2, <2>5, <2>6
  <1>. QED
    BY <1>2, <1>5, <1>6

LEMMA PrimitiveStep ==
    ASSUME NEW c, NEW s, Working(c, s), ~AtEnd(c, s.pos), Char(c, s.pos) \notin Marks
    PROVE  FullResult(c, s, Primitive(c, s, Char(c, s.pos)))
  <1>. DEFINE ch == Char(c, s.pos)
              e == Min(PrimitiveEnds(c, s.pos))
              x == Scanned(c, s, "PRIMITIVE", s.pos, e)
              t == Primitive(c, s, ch)
  <1>0. /\ s \in Parsers /\ s.pos \in Nat /\ s.pos <= s.pos /\ s.pos <= c.len
        /\ "PRIMITIVE" \in Types /\ ~s.done /\ c.len \in Nat
    BY WorkingFacts DEF Working, Types
  <1>1. e \in Nat
    BY <1>0, PrimitiveEndFacts
  <1>2. \/ t = Returned(s, JSMN_ERROR_INVAL)
        \/ ~(c.build.strict /\ ch \notin Literals) /\ t = jsmn_parse_primitive(c, s)
    BY Zenon DEF Primitive
  <1>3. jsmn_parse_primitive(c, s) =
          IF ~AtEnd(c, e) /\ Char(c, e) = "BAD" THEN Returned(s, JSMN_ERROR_INVAL)
          ELSE IF AtEnd(c, e) /\ c.build.strict THEN Returned(s, JSMN_ERROR_PART)
          ELSE x
    BY DEF jsmn_parse_primitive, PrimitiveEnds
  <1>4. ASSUME ~(c.build.strict /\ ch \notin Literals),
               ~(~AtEnd(c, e) /\ Char(c, e) = "BAD"), ~(AtEnd(c, e) /\ c.build.strict)
        PROVE  Goes(c, s.pos, e, 1)
    BY <1>4, Zenon DEF Goes, GoesPrimitive
  <1>5. \/ x = Returned(s, JSMN_ERROR_NOMEM) /\ NoRoom(c, s)
        \/ ~x.done /\ Added(c, s, x, "PRIMITIVE", s.pos, e, e, s.toksuper)
    BY <1>0, <1>1, ScannedSound
  <1>. HIDE DEF t, e, x, ch
  <1>6. \/ t = Returned(s, JSMN_ERROR_INVAL)
        \/ t = Returned(s, JSMN_ERROR_PART)
        \/ t = x /\ Goes(c, s.pos, e, 1)
    BY <1>2, <1>3, <1>4, Zenon
  <1>7. Refused(Returned(s, JSMN_ERROR_INVAL))
    BY <1>0, RefusedReturn
  <1>8. ~x.done /\ Added(c, s, x, "PRIMITIVE", s.pos, e, e, s.toksuper) => Stepped(s, x, e, 1)
    BY <1>0, AddedStepped
  <1>9. FullResult(c, s, t)
    BY <1>5, <1>6, <1>7, <1>8, Zenon DEF FullResult
  <1>. QED
    BY <1>9 DEF t, ch

LEMMA FullStep ==
    ASSUME NEW c, NEW s, Working(c, s), ~AtEnd(c, s.pos)
    PROVE  FullResult(c, s, Step(c, s))
  <1>. DEFINE t == Step(c, s)
              ch == Char(c, s.pos)
  <1>0. s \in Parsers /\ ~s.done /\ s.pos + 1 \in Nat /\ s.toksuper \in Int
    BY WorkingFacts DEF Working
  <1>1. CASE ch \in Opening
    <2>1. Goes(c, s.pos, s.pos + 1, 1)
      BY <1>1, Zenon DEF Goes
    <2>2. t = OpenBracket(c, s, "OBJECT") \/ t = OpenBracket(c, s, "ARRAY")
      BY <1>1, StepCases DEF Opening
    <2>. HIDE DEF t
    <2>3. \/ Stepped(s, t, s.pos + 1, 1)
          \/ t = Returned(s, JSMN_ERROR_NOMEM) /\ NoRoom(c, s)
          \/ Refused(t)
      BY <2>2, OpenStep
    <2>4. FullResult(c, s, t)
      BY <2>1, <2>3, Zenon DEF FullResult
    <2>. QED
      BY <2>4 DEF t
  <1>2. CASE ch \in Passing
    <2>1. Goes(c, s.pos, s.pos + 1, 0)
      BY <1>2, Zenon DEF Goes
    <2>2. \/ t = CloseBracket(c, s, "OBJECT") \/ t = CloseBracket(c, s, "ARRAY")
          \/ t = MoveTo(s, s.pos + 1) \/ t = Colon(s) \/ t = Comma(c, s)
      BY <1>2, StepCases DEF Passing
    <2>. HIDE DEF t
    <2>3. Stepped(s, t, s.pos + 1, 0) \/ Refused(t)
      BY <1>0, <2>2, CloseStep, CommaStep, MoveStepped
    <2>4. FullResult(c, s, t)
      BY <2>1, <2>3, Zenon DEF FullResult
    <2>. QED
      BY <2>4 DEF t
  <1>3. CASE ch = "\""
    <2>1. t = jsmn_parse_string(c, s)
      BY <1>3, StepCases
    <2>. QED
      BY <1>3, <2>1, StringStep, Zenon DEF Quoted
  <1>4. CASE ch \notin Marks
    <2>1. t = Primitive(c, s, ch)
      BY <1>4, StepCases
    <2>. QED
      BY <1>4, <2>1, PrimitiveStep
  <1>. QED
    <2>1. ch \in Opening \/ ch \in Passing \/ ch = "\"" \/ ch \notin Marks
      BY DEF Opening, Passing, Marks
    <2>. QED
      BY <1>1, <1>2, <1>3, <1>4, <2>1

(* Both at once.  s and u are at the same place, with tokens and without.  *)
LEMMA Together ==
    ASSUME NEW c, NEW s, Working(c, s), s.count = s.toknext, s.ret = 0, s.toknext <= s.pos,
           NEW d, SameText(c, d), c.len = d.len, d.null,
           NEW u \in Parsers, ~u.done, u.pos = s.pos
    PROVE  LET t == Step(c, s)
               v == Step(d, u) IN
           \/ /\ \E m \in {0, 1} : Stepped(s, t, t.pos, m) /\ Passed(u, v, t.pos, m)
              /\ s.pos < t.pos /\ t.pos <= c.len
              /\ t.count = t.toknext /\ t.ret = 0 /\ t.toknext <= t.pos
           \/ /\ t = Returned(s, JSMN_ERROR_NOMEM) /\ NoRoom(c, s)
              /\ \E p \in Nat : s.pos < p /\ p <= c.len /\ Passed(u, v, p, 1)
           \/ t = Returned(s, JSMN_ERROR_PART)
           \/ Refused(t)
           \/ t = Returned(s, s.count) /\ v = Returned(u, u.count) /\ AtEnd(c, s.pos)
  <1>. DEFINE t == Step(c, s)
              v == Step(d, u)
  <1>0. /\ s \in Parsers /\ s.pos \in Nat /\ ~s.done /\ c.len \in Nat /\ s.toknext \in Nat
        /\ d.len \in Nat /\ ~c.null
    BY WorkingFacts DEF Working, SameText
  <1>1. CASE AtEnd(c, s.pos)
    <2>1. AtEnd(d, u.pos)
      BY <1>1, EndFacts
    <2>2. t = Finish(c, s) /\ v = Finish(d, u)
      BY <1>1, <2>1 DEF Step
    <2>3. v = Returned(u, u.count) /\ (t = Returned(s, JSMN_ERROR_PART) \/ t = Returned(s, s.count))
      BY <2>2 DEF Finish
    <2>. QED
      BY <1>1, <2>3, Zenon
  <1>2. CASE ~AtEnd(c, s.pos)
    <2>0. ~AtEnd(d, u.pos)
      BY <1>2, EndFacts
    <2>1. NullResult(d, u, v)
      BY <1>0, <2>0, NullStep
    <2>2. FullResult(c, s, t)
      BY <1>2, FullStep
    <2>. HIDE DEF t, v
    <2>3. ASSUME NEW p, NEW m, Goes(c, s.pos, p, m)
          PROVE  Passed(u, v, p, m) /\ p \in Nat /\ s.pos < p /\ p <= c.len /\ m \in {0, 1}
      <3>1. Goes(d, u.pos, p, m)
        BY <1>0, <1>2, <2>3, GoesSame
      <3>2. p \in Nat /\ s.pos < p /\ p <= c.len /\ m \in {0, 1}
        BY <1>0, <1>2, <2>3, GoesFacts
      <3>. QED
        BY <2>1, <3>1, <3>2, Zenon DEF NullResult
    <2>4. ASSUME NEW p, NEW m, Goes(c, s.pos, p, m), Stepped(s, t, p, m)
          PROVE  /\ \E i \in {0, 1} : Stepped(s, t, t.pos, i) /\ Passed(u, v, t.pos, i)
                 /\ s.pos < t.pos /\ t.pos <= c.len
                 /\ t.count = t.toknext /\ t.ret = 0 /\ t.toknext <= t.pos
      <3>1. /\ t.pos = p /\ t.toknext = s.toknext + m /\ t.count = s.count + m /\ t.ret = s.ret
        BY <2>4, Zenon DEF Stepped
      <3>2. Passed(u, v, p, m) /\ p \in Nat /\ s.pos < p /\ p <= c.len /\ m \in {0, 1}
        BY <2>3, <2>4
      <3>3. \E i \in {0, 1} : Stepped(s, t, t.pos, i) /\ Passed(u, v, t.pos, i)
        BY <2>4, <3>1, <3>2, Zenon
      <3>4. t.count = t.toknext /\ t.ret = 0 /\ s.pos < t.pos /\ t.pos <= c.len
        BY <3>1, <3>2
      <3>5. t.toknext <= t.pos
        BY <1>0, <3>1, <3>2
      <3>. QED
        BY <3>3, <3>4, <3>5
    <2>5. ASSUME NEW p, Goes(c, s.pos, p, 1)
          PROVE  \E q \in Nat : s.pos < q /\ q <= c.len /\ Passed(u, v, q, 1)
      BY <2>3, <2>5
    <2>6. \/ /\ \E m \in {0, 1} : Stepped(s, t, t.pos, m) /\ Passed(u, v, t.pos, m)
             /\ s.pos < t.pos /\ t.pos <= c.len
             /\ t.count = t.toknext /\ t.ret = 0 /\ t.toknext <= t.pos
          \/ /\ t = Returned(s, JSMN_ERROR_NOMEM) /\ NoRoom(c, s)
             /\ \E p \in Nat : s.pos < p /\ p <= c.len /\ Passed(u, v, p, 1)
          \/ t = Returned(s, JSMN_ERROR_PART)
          \/ Refused(t)
      BY <2>2, <2>4, <2>5, Zenon DEF FullResult
    <2>. QED
      BY <2>6, Zenon DEF t, v
  <1>. QED
    BY <1>1, <1>2
-----------------------------------------------------------------------------
(* jsmn_parse as a sequence of states: the first m of them. *)
StepOrStay(c, s) == IF s.done THEN s ELSE Step(c, s)

Follows(c, s, f, m) == f[0] = s /\ \A n \in 1..m : f[n] = StepOrStay(c, f[n - 1])

LEMMA FollowsExists ==
    ASSUME NEW c, NEW s, NEW m \in Nat
    PROVE  \E f : f = [n \in 0..m |-> f[n]] /\ Follows(c, s, f, m)
  <1>. DEFINE P(i) == \E f : f = [n \in 0..i |-> f[n]] /\ Follows(c, s, f, i)
              S == {i \in Nat : P(i)}
  <1>1. 0 \in S
    <2>. DEFINE f == [n \in 0..0 |-> s]
    <2>1. f = [n \in 0..0 |-> f[n]] /\ f[0] = s
      OBVIOUS
    <2>2. \A n \in 1..0 : f[n] = StepOrStay(c, f[n - 1])
      OBVIOUS
    <2>. HIDE DEF f
    <2>3. P(0)
      BY <2>1, <2>2 DEF Follows
    <2>. QED
      BY <2>3
  <1>2. ASSUME NEW i \in S PROVE i + 1 \in S
    <2>0. i \in Nat /\ P(i)
      OBVIOUS
    <2>1. PICK f : f = [n \in 0..i |-> f[n]] /\ Follows(c, s, f, i)
      BY <2>0
    <2>. DEFINE g == [n \in 0..(i + 1) |-> IF n = i + 1 THEN StepOrStay(c, f[i]) ELSE f[n]]
    <2>2. g = [n \in 0..(i + 1) |-> g[n]]
      OBVIOUS
    <2>3. g[i + 1] = StepOrStay(c, f[i]) /\ \A n \in 0..i : g[n] = f[n]
      BY <2>0
    <2>. HIDE DEF g
    <2>4. g[0] = s
      BY <2>0, <2>1, <2>3 DEF Follows
    <2>5. ASSUME NEW n \in 1..(i + 1) PROVE g[n] = StepOrStay(c, g[n - 1])
      <3>1. CASE n = i + 1
        <4>1. n - 1 = i /\ i \in 0..i
          BY <2>0, <3>1
        <4>2. g[n - 1] = f[i]
          BY <2>3, <4>1
        <4>. QED
          BY <2>3, <3>1, <4>2
      <3>2. CASE n # i + 1
        <4>1. n \in 1..i /\ n \in 0..i /\ n - 1 \in 0..i
          BY <2>0, <3>2
        <4>. QED
          BY <2>1, <2>3, <4>1 DEF Follows
      <3>. QED
        BY <3>1, <3>2
    <2>6. P(i + 1)
      BY <2>2, <2>4, <2>5 DEF Follows
    <2>. HIDE DEF P
    <2>. QED
      BY <2>0, <2>6
  <1>3. S = Nat
    <2>1. S \in SUBSET Nat
      OBVIOUS
    <2>. HIDE DEF S
    <2>. QED
      BY <1>1, <1>2, <2>1, Induction
  <1>4. m \in S
    <2>. HIDE DEF S
    <2>. QED
      BY <1>3
  <1>. QED
    BY <1>4

LEMMA RunExists ==
    ASSUME NEW c, NEW s, Len(c.js) \in Nat
    PROVE  \E f : Follows(c, s, f, Len(c.js) + 1) /\ jsmn_parse(c, s) = f[Len(c.js) + 1]
  <1>. DEFINE N == Len(c.js) + 1
              R(f) == [n \in 0..(Len(c.js) + 1) |->
                        IF n = 0 THEN s
                        ELSE LET prev == f[n - 1] IN IF prev.done THEN prev ELSE Step(c, prev)]
              run == CHOOSE f : f = R(f)
  <1>0. N \in Nat
    OBVIOUS
  <1>1. \E f : f = R(f)
    <2>1. PICK f : f = [n \in 0..N |-> f[n]] /\ Follows(c, s, f, N)
      <3>. HIDE DEF N
      <3>. QED
        BY <1>0, FollowsExists
    <2>2. ASSUME NEW n \in 0..N
          PROVE  f[n] = IF n = 0 THEN s
                        ELSE LET prev == f[n - 1] IN IF prev.done THEN prev ELSE Step(c, prev)
      <3>1. CASE n = 0
        BY <2>1, <3>1 DEF Follows
      <3>2. CASE n # 0
        <4>1. n \in 1..N
          BY <1>0, <3>2
        <4>2. f[n] = StepOrStay(c, f[n - 1])
          BY <2>1, <4>1 DEF Follows
        <4>. QED
          BY <3>2, <4>2 DEF StepOrStay
      <3>. QED
        BY <3>1, <3>2
    <2>3. f = R(f)
      BY <2>1, <2>2
    <2>. QED
      BY <2>3
  <1>2. run = R(run)
    BY <1>1
  <1>3. jsmn_parse(c, s) = run[N]
    BY DEF jsmn_parse
  <1>. HIDE DEF run
  <1>4. run[0] = s
    BY <1>0, <1>2
  <1>5. ASSUME NEW n \in 1..N PROVE run[n] = StepOrStay(c, run[n - 1])
    <2>1. n \in 0..N /\ n # 0
      BY <1>0
    <2>2. R(run)[n] = IF n = 0 THEN s
                      ELSE LET prev == run[n - 1] IN IF prev.done THEN prev ELSE Step(c, prev)
      BY <2>1
    <2>. QED
      BY <1>2, <2>1, <2>2 DEF StepOrStay
  <1>. QED
    BY <1>3, <1>4, <1>5 DEF Follows

(* A state that a call passes through, never at a place twice. *)
PathTo(c, u, n, f) ==
    /\ n \in Nat /\ n <= u.pos /\ f[0] = jsmn_init /\ f[n] = u
    /\ \A k \in 0..n : /\ f[k] \in Parsers /\ ~f[k].done /\ f[k].pos <= c.len
                       /\ c.null \/ f[k].toknext <= f[k].pos
    /\ \A k \in 1..n : f[k] = Step(c, f[k - 1])

Path(c, u) == \E n, f : PathTo(c, u, n, f)

LEMMA PathFacts ==
    ASSUME NEW c, NEW u, Path(c, u)
    PROVE  u \in Parsers /\ ~u.done /\ u.pos <= c.len /\ (c.null \/ u.toknext <= u.pos)
  <1>1. PICK n, f : PathTo(c, u, n, f)
    BY DEF Path
  <1>2. n \in 0..n /\ f[n] = u
    BY <1>1 DEF PathTo
  <1>. QED
    BY <1>1, <1>2 DEF PathTo

LEMMA PathStart ==
    ASSUME NEW c, c.len \in Nat
    PROVE  Path(c, jsmn_init)
  <1>. DEFINE f == [k \in 0..0 |-> jsmn_init]
  <1>1. /\ jsmn_init.pos = 0 /\ jsmn_init.toknext = 0 /\ jsmn_init.done = FALSE
        /\ jsmn_init \in Parsers
    BY DEF jsmn_init, Parsers
  <1>2. \A k \in 0..0 : f[k] = jsmn_init
    OBVIOUS
  <1>3. 0 \in 0..0 /\ 1..0 = {}
    OBVIOUS
  <1>. HIDE DEF f
  <1>4. PathTo(c, jsmn_init, 0, f)
    BY <1>1, <1>2, <1>3 DEF PathTo
  <1>. QED
    BY <1>4 DEF Path

LEMMA PathStep ==
    ASSUME NEW c, NEW u, Path(c, u), NEW v, v = Step(c, u), v \in Parsers, ~v.done,
           v.pos <= c.len, u.pos < v.pos, c.null \/ v.toknext <= v.pos
    PROVE  Path(c, v)
  <1>1. PICK n, f : PathTo(c, u, n, f)
    BY DEF Path
  <1>. DEFINE g == [k \in 0..(n + 1) |-> IF k = n + 1 THEN v ELSE f[k]]
  <1>2. n \in Nat /\ n <= u.pos /\ f[n] = u /\ f[0] = jsmn_init /\ u \in Parsers /\ u.pos \in Nat
    BY <1>1, PathFacts, ParserFields DEF PathTo
  <1>3. v.pos \in Nat
    BY ParserFields
  <1>4. g[n + 1] = v /\ \A k \in 0..n : g[k] = f[k]
    BY <1>2
  <1>. HIDE DEF g
  <1>5. n + 1 \in Nat /\ n + 1 <= v.pos /\ g[0] = jsmn_init
    BY <1>2, <1>3, <1>4
  <1>6. ASSUME NEW k \in 0..(n + 1)
        PROVE  g[k] \in Parsers /\ ~g[k].done /\ g[k].pos <= c.len /\ (c.null \/ g[k].toknext <= g[k].pos)
    <2>1. CASE k = n + 1
      BY <1>4, <2>1
    <2>2. CASE k # n + 1
      <3>1. k \in 0..n
        BY <1>2, <2>2
      <3>. QED
        BY <1>1, <1>4, <3>1 DEF PathTo
    <2>. QED
      BY <2>1, <2>2
  <1>7. ASSUME NEW k \in 1..(n + 1) PROVE g[k] = Step(c, g[k - 1])
    <2>1. CASE k = n + 1
      <3>1. k - 1 = n /\ n \in 0..n
        BY <1>2, <2>1
      <3>2. g[k - 1] = u
        BY <1>2, <1>4, <3>1
      <3>. QED
        BY <1>4, <2>1, <3>2
    <2>2. CASE k # n + 1
      <3>1. k \in 1..n /\ k \in 0..n /\ k - 1 \in 0..n
        BY <1>2, <2>2
      <3>. QED
        BY <1>1, <1>4, <3>1 DEF PathTo
    <2>. QED
      BY <2>1, <2>2
  <1>8. PathTo(c, v, n + 1, g)
    BY <1>4, <1>5, <1>6, <1>7 DEF PathTo
  <1>. QED
    BY <1>8 DEF Path

(* With more text a call passes through the same states. *)
LEMMA PathLonger ==
    ASSUME NEW c, NEW d, NEW u, Path(c, u), SameText(c, d), c.null = d.null,
           c.build.strict \/ c.len = d.len,
           c.null \/ (c.len <= d.num /\ d.num \in Nat)
    PROVE  Path(d, u)
  <1>0. c.len \in Nat /\ d.len \in Nat /\ c.len <= d.len
    BY DEF SameText
  <1>1. PICK n, f : PathTo(c, u, n, f)
    BY DEF Path
  <1>2. n \in Nat
    BY <1>1 DEF PathTo
  <1>3. ASSUME NEW k \in 0..n
        PROVE  f[k] \in Parsers /\ ~f[k].done /\ f[k].pos <= d.len /\ (d.null \/ f[k].toknext <= f[k].pos)
    <2>1. f[k] \in Parsers /\ ~f[k].done /\ f[k].pos <= c.len /\ (c.null \/ f[k].toknext <= f[k].pos)
      BY <1>1 DEF PathTo
    <2>2. f[k].pos \in Nat
      BY <2>1, ParserFields
    <2>3. f[k].pos <= d.len
      BY <1>0, <2>1, <2>2
    <2>. QED
      BY <2>1, <2>3
  <1>4. ASSUME NEW k \in 1..n PROVE f[k] = Step(d, f[k - 1])
    <2>. DEFINE s == f[k - 1]
    <2>1. k \in 0..n /\ k - 1 \in 0..n
      BY <1>2
    <2>2. f[k] = Step(c, s) /\ ~f[k].done
      BY <1>1, <2>1 DEF PathTo
    <2>3. s \in Parsers /\ ~s.done /\ s.pos <= c.len /\ (c.null \/ s.toknext <= s.pos)
      BY <1>1, <2>1 DEF PathTo
    <2>. HIDE DEF s
    <2>4. s.pos \in Nat /\ s.toknext \in Nat
      BY <2>3, ParserFields
    <2>5. ~AtEnd(c, s.pos)
      <3>. SUFFICES ASSUME AtEnd(c, s.pos) PROVE FALSE
        OBVIOUS
      <3>1. Step(c, s) = Finish(c, s)
        BY DEF Step
      <3>2. s.count \in Int /\ JSMN_ERROR_PART \in Int
        BY <2>3, ParserFields DEF JSMN_ERROR_PART
      <3>3. Finish(c, s).done
        BY <2>3, <3>2, ReturnFacts DEF Finish
      <3>. QED
        BY <2>2, <3>1, <3>3
    <2>6. s.pos < c.len
      BY <1>0, <2>4, <2>5 DEF AtEnd
    <2>7. c.null \/ ~NoRoom(d, s)
      BY <1>0, <2>3, <2>4, <2>6 DEF NoRoom
    <2>8. Comparable(c, d, s) /\ Kept(c, d, Step(c, s))
      BY <2>2, <2>3, <2>7 DEF Comparable, Kept
    <2>9. Step(d, s) = Step(c, s)
      BY <2>8, StepAgrees
    <2>. QED
      BY <2>2, <2>9 DEF s
  <1>5. PathTo(d, u, n, f)
    BY <1>1, <1>3, <1>4 DEF PathTo
  <1>. QED
    BY <1>5 DEF Path

(* A run comes to every state of a path. *)
LEMMA PathRun ==
    ASSUME NEW c, NEW u, Path(c, u), NEW N \in Nat, u.pos <= N,
           NEW run, Follows(c, jsmn_init, run, N)
    PROVE  \E n \in 0..u.pos : run[n] = u
  <1>1. PICK n, f : PathTo(c, u, n, f)
    BY DEF Path
  <1>2. n \in Nat /\ n <= u.pos /\ f[n] = u /\ u.pos \in Nat /\ n <= N
    BY <1>1, PathFacts, ParserFields DEF PathTo
  <1>. DEFINE S == {k \in Nat : k <= n => run[k] = f[k]}
  <1>3. 0 \in S
    BY <1>1 DEF PathTo, Follows
  <1>4. ASSUME NEW k \in S PROVE k + 1 \in S
    <2>0. k \in Nat
      OBVIOUS
    <2>. SUFFICES ASSUME k + 1 <= n PROVE run[k + 1] = f[k + 1]
      OBVIOUS
    <2>1. /\ k + 1 \in 1..n /\ k \in 0..n /\ k <= n /\ (k + 1) - 1 = k /\ k + 1 \in 1..N
      BY <1>2, <2>0
    <2>2. run[k] = f[k]
      BY <2>1
    <2>3. f[k + 1] = Step(c, f[k]) /\ ~f[k].done
      BY <1>1, <2>1 DEF PathTo
    <2>4. run[k + 1] = StepOrStay(c, run[k])
      BY <2>1 DEF Follows
    <2>. QED
      BY <2>2, <2>3, <2>4 DEF StepOrStay
  <1>5. S = Nat
    <2>1. S \in SUBSET Nat
      OBVIOUS
    <2>. HIDE DEF S
    <2>. QED
      BY <1>3, <1>4, <2>1, Induction
  <1>6. run[n] = f[n]
    BY <1>2, <1>5
  <1>7. n \in 0..u.pos
    BY <1>2
  <1>. QED
    BY <1>2, <1>6, <1>7

(* A run that is over stays so. *)
LEMMA RunStays ==
    ASSUME NEW c, NEW s, NEW N \in Nat, NEW run, Follows(c, s, run, N),
           NEW n \in 0..N, run[n].done
    PROVE  run[N] = run[n]
  <1>. DEFINE S == {k \in Nat : n + k <= N => run[n + k] = run[n]}
  <1>1. 0 \in S
    <2>1. n + 0 = n
      OBVIOUS
    <2>. QED
      BY <2>1
  <1>2. ASSUME NEW k \in S PROVE k + 1 \in S
    <2>0. k \in Nat /\ k + 1 \in Nat
      OBVIOUS
    <2>. SUFFICES ASSUME n + (k + 1) <= N PROVE run[n + (k + 1)] = run[n]
      BY <2>0
    <2>1. n + k <= N /\ n + (k + 1) \in 1..N /\ (n + (k + 1)) - 1 = n + k
      BY <2>0
    <2>2. run[n + k] = run[n]
      BY <2>1
    <2>3. run[n + (k + 1)] = StepOrStay(c, run[n + k])
      BY <2>1 DEF Follows
    <2>. QED
      BY <2>2, <2>3 DEF StepOrStay
  <1>3. S = Nat
    <2>1. S \in SUBSET Nat
      OBVIOUS
    <2>. HIDE DEF S
    <2>. QED
      BY <1>1, <1>2, <2>1, Induction
  <1>4. N - n \in Nat /\ n + (N - n) = N
    OBVIOUS
  <1>5. N - n \in S
    <2>. HIDE DEF S
    <2>. QED
      BY <1>3, <1>4
  <1>. QED
    BY <1>4, <1>5

(* The last step of a path is the result of the call. *)
LEMMA PathEnds ==
    ASSUME NEW c, NEW u, Path(c, u), Step(c, u).done,
           c.len \in Nat, Len(c.js) \in Nat, c.len <= Len(c.js)
    PROVE  jsmn_parse(c, jsmn_init) = Step(c, u)
  <1>. DEFINE N == Len(c.js) + 1
  <1>1. PICK run : Follows(c, jsmn_init, run, N) /\ jsmn_parse(c, jsmn_init) = run[N]
    BY RunExists
  <1>2. u \in Parsers /\ ~u.done /\ u.pos <= c.len
    BY PathFacts
  <1>3. N \in Nat /\ u.pos \in Nat /\ u.pos < N /\ u.pos <= N
    BY <1>2, ParserFields
  <1>. HIDE DEF N
  <1>4. PICK n \in 0..u.pos : run[n] = u
    BY <1>1, <1>3, PathRun
  <1>5. n + 1 \in 1..N /\ n + 1 \in 0..N /\ (n + 1) - 1 = n
    BY <1>3
  <1>6. run[n + 1] = Step(c, u)
    <2>1. run[n + 1] = StepOrStay(c, run[n])
      BY <1>1, <1>5 DEF Follows
    <2>. QED
      BY <1>2, <1>4, <2>1 DEF StepOrStay
  <1>7. run[N] = run[n + 1]
    <2>. DEFINE m == n + 1
    <2>1. m \in 0..N /\ run[m].done /\ N \in Nat
      BY <1>3, <1>5, <1>6
    <2>2. Follows(c, jsmn_init, run, N)
      BY <1>1
    <2>. HIDE DEF m
    <2>3. run[N] = run[m]
      BY <2>1, <2>2, RunStays
    <2>. QED
      BY <2>3 DEF m
  <1>. QED
    BY <1>1, <1>6, <1>7

(* A parse without tokens that has counted enough of them returns enough,  *)
(* or an error.                                                            *)
Enough(c, w, k, m) ==
    /\ w \in Parsers
    /\ ~w.done => w.pos <= c.len /\ w.pos >= k /\ w.count >= m
    /\ w.done => w.ret \in {-3, -2} \/ w.ret >= m

LEMMA EnoughStays ==
    ASSUME NEW c, c.len \in Nat, c.null, NEW w, NEW k \in Nat, NEW m \in Nat, Enough(c, w, k, m)
    PROVE  Enough(c, StepOrStay(c, w), k + 1, m)
  <1>0. w \in Parsers /\ w.pos \in Nat /\ w.count \in Nat
    BY ParserFields DEF Enough
  <1>1. CASE w.done
    BY <1>0, <1>1 DEF Enough, StepOrStay
  <1>2. CASE ~w.done /\ AtEnd(c, w.pos)
    <2>1. StepOrStay(c, w) = Returned(w, w.count)
      BY <1>2 DEF StepOrStay, Step, Finish
    <2>2. w.count >= m
      BY <1>2 DEF Enough
    <2>. DEFINE v == Returned(w, w.count)
    <2>3. v \in Parsers /\ v.done /\ v.ret = w.count
      <3>1. w.count \in Int
        BY <1>0
      <3>. QED
        BY <1>0, <3>1, ReturnFacts
    <2>. HIDE DEF v
    <2>4. Enough(c, v, k + 1, m)
      BY <2>2, <2>3 DEF Enough
    <2>. QED
      BY <2>1, <2>4 DEF v
  <1>3. CASE ~w.done /\ ~AtEnd(c, w.pos)
    <2>. DEFINE v == Step(c, w)
    <2>0. StepOrStay(c, w) = v
      BY <1>3 DEF StepOrStay
    <2>1. NullResult(c, w, v)
      BY <1>0, <1>3, NullStep
    <2>. HIDE DEF v
    <2>2. w.pos >= k /\ w.count >= m
      BY <1>3 DEF Enough
    <2>3. ASSUME NEW p, NEW i, Goes(c, w.pos, p, i) PROVE Enough(c, v, k + 1, m)
      <3>1. Passed(w, v, p, i)
        BY <2>1, <2>3, Zenon DEF NullResult
      <3>2. p \in Nat /\ w.pos < p /\ p <= c.len /\ i \in {0, 1}
        BY <1>0, <1>3, <2>3, GoesFacts
      <3>3. v \in Parsers /\ ~v.done /\ v.pos = p /\ v.count = w.count + i
        BY <3>1, Zenon DEF Passed
      <3>4. v.pos <= c.len /\ v.pos >= k + 1 /\ v.count >= m
        BY <1>0, <2>2, <3>2, <3>3
      <3>. QED
        BY <3>3, <3>4, Zenon DEF Enough
    <2>4. Enough(c, v, k + 1, m)
      BY <2>1, <2>3, Zenon DEF NullResult, Enough
    <2>. QED
      BY <2>0, <2>4
  <1>. QED
    BY <1>1, <1>2, <1>3

(* A call without tokens that gets past u with one more counted.           *)
LEMMA NullBound ==
    ASSUME NEW c, c.null, c.len \in Nat, Len(c.js) \in Nat, c.len <= Len(c.js),
           NEW u, Path(c, u), NEW p \in Nat, u.pos < p, p <= c.len, Passed(u, Step(c, u), p, 1)
    PROVE  LET r == jsmn_parse(c, jsmn_init).ret
           IN  r \in Int /\ (r \in {-3, -2} \/ r >= u.count + 1)
  <1>. DEFINE N == Len(c.js) + 1
              m == u.count + 1
  <1>1. PICK run : Follows(c, jsmn_init, run, N) /\ jsmn_parse(c, jsmn_init) = run[N]
    BY RunExists
  <1>2. u \in Parsers /\ ~u.done /\ u.pos <= c.len
    BY PathFacts
  <1>3. N \in Nat /\ u.pos \in Nat /\ u.pos < N /\ u.pos <= N /\ c.len < N /\ u.count \in Nat /\ m \in Nat
    BY <1>2, ParserFields
  <1>. HIDE DEF N
  <1>4. PICK n \in 0..u.pos : run[n] = u
    BY <1>1, <1>3, PathRun
  <1>5. n \in Nat /\ n + 1 \in 1..N /\ (n + 1) - 1 = n /\ n + 1 <= p
    BY <1>3
  <1>. DEFINE S == {k \in Nat : (n + 1) + k <= N => Enough(c, run[(n + 1) + k], (n + 1) + k, m)}
  <1>6. 0 \in S
    <2>1. run[n + 1] = Step(c, u)
      <3>1. run[n + 1] = StepOrStay(c, run[n])
        BY <1>1, <1>5 DEF Follows
      <3>. QED
        BY <1>2, <1>4, <3>1 DEF StepOrStay
    <2>. DEFINE v == Step(c, u)
    <2>2. v \in Parsers /\ ~v.done /\ v.pos = p /\ v.count = m
      BY Zenon DEF Passed
    <2>. HIDE DEF v, m
    <2>3. Enough(c, v, n + 1, m)
      BY <1>3, <1>5, <2>2 DEF Enough
    <2>4. (n + 1) + 0 = n + 1
      BY <1>5
    <2>. QED
      BY <2>1, <2>3, <2>4 DEF v
  <1>7. ASSUME NEW k \in S PROVE k + 1 \in S
    <2>0. k \in Nat /\ k + 1 \in Nat
      OBVIOUS
    <2>. DEFINE i == (n + 1) + k
    <2>1. (n + 1) + (k + 1) = i + 1 /\ i \in Nat /\ (i + 1) - 1 = i
      BY <1>5, <2>0
    <2>. SUFFICES ASSUME i + 1 <= N PROVE Enough(c, run[i + 1], i + 1, m)
      BY <2>0, <2>1
    <2>2. i <= N /\ i + 1 \in 1..N
      BY <1>3, <2>1
    <2>3. Enough(c, run[i], i, m)
      BY <2>2
    <2>4. run[i + 1] = StepOrStay(c, run[i])
      BY <1>1, <2>1, <2>2 DEF Follows
    <2>. HIDE DEF i, m
    <2>. QED
      BY <1>3, <2>1, <2>3, <2>4, EnoughStays
  <1>8. S = Nat
    <2>1. S \in SUBSET Nat
      OBVIOUS
    <2>. HIDE DEF S
    <2>. QED
      BY <1>6, <1>7, <2>1, Induction
  <1>9. Enough(c, run[N], N, m)
    <2>1. N - (n + 1) \in Nat /\ (n + 1) + (N - (n + 1)) = N
      BY <1>3, <1>5
    <2>2. N - (n + 1) \in S
      <3>. HIDE DEF S
      <3>. QED
        BY <1>8, <2>1
    <2>. QED
      BY <1>3, <2>1, <2>2
  <1>10. run[N].done
    <2>. HIDE DEF m
    <2>. QED
      BY <1>3, <1>9, ParserFields DEF Enough
  <1>. QED
    BY <1>1, <1>9, <1>10, ParserFields DEF Enough
-----------------------------------------------------------------------------
(* The call that has tokens enough, and the one that counts them. *)
Amply(c) == [c EXCEPT !.num = Len(c.js)]
Counting(c) == [Amply(c) EXCEPT !.null = TRUE]

LEMMA AmpleFacts ==
    ASSUME NEW c, CallOK(c)
    PROVE  /\ Len(c.js) \in Nat
           /\ LET d == Amply(c) IN
              /\ SameText(c, d) /\ d.len = c.len /\ d.js = c.js /\ d.build = c.build
              /\ d.null = c.null /\ ~d.null /\ d.num = Len(c.js)
           /\ LET d == Counting(c) IN
              /\ SameText(c, d) /\ d.len = c.len /\ d.js = c.js /\ d.build = c.build /\ d.null
  <1>1. Len(c.js) \in Nat
    BY LenProperties DEF CallOK
  <1>2. c.len \in Nat /\ c.len <= c.len /\ ~c.null
    BY DEF CallOK
  <1>. DEFINE a == Amply(c)
  <1>3. /\ a \in [build : [strict : BOOLEAN, links : BOOLEAN], js : Seq(STRING),
                  len : Nat, num : Nat, null : BOOLEAN]
        /\ a.len = c.len /\ a.js = c.js /\ a.build = c.build /\ a.null = c.null /\ a.num = Len(c.js)
    BY <1>1 DEF CallOK, Amply
  <1>. HIDE DEF a
  <1>. DEFINE b == [a EXCEPT !.null = TRUE]
  <1>4. b.len = c.len /\ b.js = c.js /\ b.build = c.build /\ b.null
    BY <1>3
  <1>5. b = Counting(c)
    BY DEF a, Counting
  <1>. HIDE DEF b
  <1>6. SameText(c, a) /\ SameText(c, b)
    BY <1>2, <1>3, <1>4 DEF SameText
  <1>. QED
    BY <1>1, <1>2, <1>3, <1>4, <1>5, <1>6 DEF a

(* Parsers with the same fields are the same. *)
LEMMA SameParser ==
    ASSUME NEW s \in Parsers, NEW t \in Parsers, s.pos = t.pos, s.toknext = t.toknext,
           s.toksuper = t.toksuper, s.tokens = t.tokens, s.count = t.count,
           s.done = t.done, s.ret = t.ret
    PROVE  s = t
  BY DEF Parsers

(* A call that goes on as if it had not returned. *)
LEMMA ResumeSame ==
    ASSUME NEW s \in Parsers
    PROVE  /\ Resumed(s) = s <=> (s.count = s.toknext /\ ~s.done /\ s.ret = 0)
           /\ Resumed(Resumed(s)) = Resumed(s)
           /\ \A r \in Int : Resumed(Returned(s, r)) = Resumed(s)
  <1>. DEFINE t == Resumed(s)
  <1>1. /\ t \in Parsers /\ t.tokens = s.tokens /\ t.toknext = s.toknext /\ t.pos = s.pos
        /\ t.toksuper = s.toksuper /\ t.count = s.toknext /\ ~t.done /\ t.ret = 0
    BY ResumeFacts
  <1>2. t.done \in BOOLEAN /\ s.done \in BOOLEAN
    BY <1>1, ParserFields
  <1>. HIDE DEF t
  <1>3. ASSUME NEW x \in Parsers, x.tokens = s.tokens, x.toknext = s.toknext, x.pos = s.pos,
               x.toksuper = s.toksuper
        PROVE  Resumed(x) = t
    <2>. DEFINE y == Resumed(x)
    <2>1. /\ y \in Parsers /\ y.tokens = x.tokens /\ y.toknext = x.toknext /\ y.pos = x.pos
          /\ y.toksuper = x.toksuper /\ y.count = x.toknext /\ ~y.done /\ y.ret = 0
      BY ResumeFacts
    <2>2. y.done \in BOOLEAN
      BY <2>1, ParserFields
    <2>. HIDE DEF y
    <2>3. y = t
      BY <1>1, <1>2, <1>3, <2>1, <2>2, SameParser
    <2>. QED
      BY <2>3 DEF y
  <1>4. t = s <=> (s.count = s.toknext /\ ~s.done /\ s.ret = 0)
    <2>1. ASSUME s.count = s.toknext, ~s.done, s.ret = 0 PROVE t = s
      BY <1>1, <1>2, <2>1, SameParser
    <2>2. ASSUME t = s PROVE s.count = s.toknext /\ ~s.done /\ s.ret = 0
      BY <1>1, <2>2
    <2>. QED
      BY <2>1, <2>2
  <1>5. Resumed(t) = t
    BY <1>1, <1>3
  <1>6. ASSUME NEW r \in Int PROVE Resumed(Returned(s, r)) = t
    BY <1>3, ReturnFacts
  <1>. QED
    BY <1>4, <1>5, <1>6 DEF t

(* With tokens enough a step is the same. *)
LEMMA AmpleStep ==
    ASSUME NEW c, NEW s, Working(c, s), s.toknext <= s.pos,
           Step(c, s).done => Step(c, s).ret # JSMN_ERROR_NOMEM
    PROVE  Step(Amply(c), s) = Step(c, s)
  <1>. DEFINE d == Amply(c)
  <1>0. CallOK(c) /\ c.len <= Len(c.js)
    BY DEF Working, Sound, CallOK
  <1>1. /\ Len(c.js) \in Nat /\ SameText(c, d) /\ d.len = c.len /\ d.js = c.js /\ d.build = c.build
        /\ d.null = c.null /\ d.num = Len(c.js)
    BY <1>0, AmpleFacts
  <1>2. s \in Parsers /\ s.pos \in Nat /\ s.toknext \in Nat /\ c.len \in Nat /\ s.pos <= c.len
    BY WorkingFacts
  <1>. HIDE DEF d
  <1>3. CASE AtEnd(c, s.pos)
    <2>1. AtEnd(d, s.pos)
      BY <1>1, <1>3 DEF AtEnd, Char
    <2>2. Step(c, s) = Finish(c, s) /\ Step(d, s) = Finish(d, s)
      BY <1>3, <2>1 DEF Step
    <2>. QED
      BY <1>1, <2>2 DEF Finish, d
  <1>4. CASE ~AtEnd(c, s.pos)
    <2>1. s.pos < c.len
      BY <1>2, <1>4 DEF AtEnd
    <2>2. ~NoRoom(d, s)
      BY <1>0, <1>1, <1>2, <2>1 DEF NoRoom
    <2>3. Comparable(c, d, s) /\ Kept(c, d, Step(c, s))
      BY <1>1, <1>2, <2>2 DEF Comparable, Kept
    <2>. QED
      BY <2>3, StepAgrees DEF d
  <1>. QED
    BY <1>3, <1>4
-----------------------------------------------------------------------------
(* A parser that goes on from s is where both calls pass through. *)
OnCourse(c, s) ==
    /\ Path(Amply(c), Resumed(s))
    /\ \E u : Path(Counting(c), u) /\ u.pos = s.pos /\ u.count = s.toknext

Going(s) == ~s.done \/ s.ret \in {JSMN_ERROR_NOMEM, JSMN_ERROR_PART}

(* The results of both calls agree with what was returned. *)
OneResult(c, s) ==
    s.done /\ s.ret # JSMN_ERROR_NOMEM =>
        LET r == jsmn_parse(Amply(c), jsmn_init) IN s.tokens = r.tokens /\ s.ret = r.ret

CountResult(c, s) ==
    s.done /\ jsmn_parse(Counting(c), jsmn_init).ret >= 0 =>
        /\ s.ret = JSMN_ERROR_NOMEM => c.num < jsmn_parse(Counting(c), jsmn_init).ret
        /\ s.ret >= 0 => s.ret = jsmn_parse(Counting(c), jsmn_init).ret

Compares(c, s) ==
    /\ ~s.done => Resumed(s) = s
    /\ Going(s) => OnCourse(c, s)
    /\ OneResult(c, s) /\ CountResult(c, s)

(* One iteration of the loop, next to the iterations of the other calls. *)
LEMMA StepCompares ==
    ASSUME NEW c, NEW s, Working(c, s), Compares(c, s)
    PROVE  Compares(c, Step(c, s))
  <1>. DEFINE t == Step(c, s)
              a == Amply(c)
              b == Counting(c)
  <1>0. CallOK(c) /\ c.len <= Len(c.js) /\ c.len \in Nat /\ c.num \in Nat
    BY DEF Working, Sound, CallOK
  <1>1. /\ Len(c.js) \in Nat /\ a.len = c.len /\ a.js = c.js /\ ~a.null
        /\ SameText(c, b) /\ b.len = c.len /\ b.js = c.js /\ b.null
    BY <1>0, AmpleFacts
  <1>2. /\ s \in Parsers /\ ~s.done /\ s.toknext \in Nat /\ s.count \in Nat /\ s.pos \in Nat
        /\ s.count \in Int
    BY WorkingFacts DEF Working
  <1>3. Resumed(s) = s /\ OnCourse(c, s)
    BY <1>2 DEF Compares, Going
  <1>4. s.count = s.toknext /\ s.ret = 0
    BY <1>2, <1>3, ResumeSame
  <1>5. Path(a, s)
    BY <1>3 DEF OnCourse
  <1>6. PICK u : Path(b, u) /\ u.pos = s.pos /\ u.count = s.toknext
    BY <1>3 DEF OnCourse
  <1>. DEFINE v == Step(b, u)
  <1>. HIDE DEF a, b
  <1>7. s.toknext <= s.pos
    BY <1>1, <1>5, PathFacts
  <1>8. u \in Parsers /\ ~u.done /\ u.count \in Int
    BY <1>2, <1>6, PathFacts
  <1>9. \/ /\ \E m \in {0, 1} : Stepped(s, t, t.pos, m) /\ Passed(u, v, t.pos, m)
           /\ s.pos < t.pos /\ t.pos <= c.len
           /\ t.count = t.toknext /\ t.ret = 0 /\ t.toknext <= t.pos
        \/ /\ t = Returned(s, JSMN_ERROR_NOMEM) /\ NoRoom(c, s)
           /\ \E p \in Nat : s.pos < p /\ p <= c.len /\ Passed(u, v, p, 1)
        \/ t = Returned(s, JSMN_ERROR_PART)
        \/ Refused(t)
        \/ t = Returned(s, s.count) /\ v = Returned(u, u.count) /\ AtEnd(c, s.pos)
    BY <1>1, <1>4, <1>6, <1>7, <1>8, Together
  <1>10. ASSUME t.done => t.ret # JSMN_ERROR_NOMEM PROVE Step(a, s) = t
    BY <1>7, <1>10, AmpleStep DEF a
  <1>11. ASSUME t.done, t.ret # JSMN_ERROR_NOMEM PROVE jsmn_parse(a, jsmn_init) = t
    <2>1. Step(a, s) = t
      BY <1>10, <1>11
    <2>. HIDE DEF t
    <2>. QED
      BY <1>0, <1>1, <1>5, <1>11, <2>1, PathEnds
  <1>12. OneResult(c, t)
    <2>. HIDE DEF t
    <2>. QED
      BY <1>11 DEF OneResult, a
  <1>13. ASSUME NEW r \in Int, t = Returned(s, r)
         PROVE  t.done /\ t.ret = r /\ Resumed(t) = s /\ OnCourse(c, t)
    <2>. HIDE DEF t
    <2>1. t.done /\ t.ret = r /\ t.pos = s.pos /\ t.toknext = s.toknext
      BY <1>2, <1>13, ReturnFacts
    <2>2. Resumed(t) = s
      BY <1>2, <1>3, <1>13, ResumeSame
    <2>3. OnCourse(c, t)
      BY <1>3, <2>1, <2>2 DEF OnCourse
    <2>. QED
      BY <2>1, <2>2, <2>3
  <1>14. JSMN_ERROR_NOMEM = -1 /\ JSMN_ERROR_PART = -3 /\ JSMN_ERROR_INVAL = -2
    BY DEF JSMN_ERROR_NOMEM, JSMN_ERROR_PART, JSMN_ERROR_INVAL
  <1>15. CASE /\ \E m \in {0, 1} : Stepped(s, t, t.pos, m) /\ Passed(u, v, t.pos, m)
              /\ s.pos < t.pos /\ t.pos <= c.len
              /\ t.count = t.toknext /\ t.ret = 0 /\ t.toknext <= t.pos
    <2>1. PICK m \in {0, 1} : Stepped(s, t, t.pos, m) /\ Passed(u, v, t.pos, m)
      BY <1>15
    <2>2. t \in Parsers /\ ~t.done /\ t.toknext = s.toknext + m
      BY <2>1, Zenon DEF Stepped
    <2>3. v \in Parsers /\ ~v.done /\ v.pos = t.pos /\ v.count = u.count + m
      BY <2>1, Zenon DEF Passed
    <2>4. Step(a, s) = t
      BY <1>10, <2>2
    <2>. HIDE DEF t, v
    <2>5. Resumed(t) = t
      BY <1>15, <2>2, ResumeSame
    <2>6. Path(a, t)
      BY <1>1, <1>5, <1>15, <2>2, <2>4, PathStep
    <2>7. Path(b, v)
      <3>1. v.pos <= b.len /\ u.pos < v.pos
        BY <1>1, <1>6, <1>15, <2>3
      <3>. QED
        BY <1>1, <1>6, <2>3, <3>1, PathStep DEF v
    <2>8. OnCourse(c, t)
      BY <1>6, <2>2, <2>3, <2>5, <2>6, <2>7 DEF OnCourse, a, b
    <2>9. Compares(c, t)
      BY <2>2, <2>5, <2>8 DEF Compares, OneResult, CountResult
    <2>. QED
      BY <2>9 DEF t
  <1>16. CASE /\ t = Returned(s, JSMN_ERROR_NOMEM) /\ NoRoom(c, s)
              /\ \E p \in Nat : s.pos < p /\ p <= c.len /\ Passed(u, v, p, 1)
    <2>1. PICK p \in Nat : s.pos < p /\ p <= c.len /\ Passed(u, v, p, 1)
      BY <1>16
    <2>. DEFINE r == jsmn_parse(b, jsmn_init).ret
    <2>2. r \in Int /\ (r \in {-3, -2} \/ r >= u.count + 1)
      BY <1>0, <1>1, <1>6, <2>1, NullBound
    <2>3. t.done /\ t.ret = JSMN_ERROR_NOMEM /\ OnCourse(c, t)
      BY <1>13, <1>14, <1>16
    <2>. HIDE DEF r, t
    <2>4. s.toknext >= c.num
      BY <1>16 DEF NoRoom
    <2>5. ASSUME r >= 0 PROVE c.num < r
      BY <1>0, <1>2, <1>6, <2>2, <2>4, <2>5
    <2>6. CountResult(c, t)
      BY <1>14, <2>3, <2>5 DEF CountResult, r, b
    <2>7. Compares(c, t)
      BY <1>12, <2>3, <2>6 DEF Compares
    <2>. QED
      BY <2>7 DEF t
  <1>17. CASE t = Returned(s, JSMN_ERROR_PART)
    <2>1. t.done /\ t.ret = JSMN_ERROR_PART /\ OnCourse(c, t)
      BY <1>13, <1>14, <1>17
    <2>. HIDE DEF t
    <2>2. CountResult(c, t)
      BY <1>14, <2>1 DEF CountResult
    <2>3. Compares(c, t)
      BY <1>12, <2>1, <2>2 DEF Compares
    <2>. QED
      BY <2>3 DEF t
  <1>18. CASE Refused(t)
    <2>1. t.done /\ t.ret = JSMN_ERROR_INVAL
      BY <1>18, Zenon DEF Refused
    <2>. HIDE DEF t
    <2>2. CountResult(c, t)
      BY <1>14, <2>1 DEF CountResult
    <2>3. Compares(c, t)
      BY <1>12, <1>14, <2>1, <2>2 DEF Compares, Going
    <2>. QED
      BY <2>3 DEF t
  <1>19. CASE t = Returned(s, s.count) /\ v = Returned(u, u.count) /\ AtEnd(c, s.pos)
    <2>1. t.done /\ t.ret = s.count /\ OnCourse(c, t)
      BY <1>2, <1>13, <1>19
    <2>2. v.done /\ v.ret = u.count
      <3>. HIDE DEF t, v
      <3>. QED
        BY <1>8, <1>19, ReturnFacts
    <2>3. jsmn_parse(b, jsmn_init) = v
      BY <1>0, <1>1, <1>6, <2>2, PathEnds
    <2>. HIDE DEF t, v
    <2>4. t.ret = v.ret /\ t.ret # JSMN_ERROR_NOMEM
      BY <1>2, <1>4, <1>6, <1>14, <2>1, <2>2
    <2>5. CountResult(c, t)
      BY <2>3, <2>4 DEF CountResult, b
    <2>6. Compares(c, t)
      BY <1>12, <2>1, <2>5 DEF Compares
    <2>. QED
      BY <2>6 DEF t
  <1>. QED
    BY <1>9, <1>15, <1>16, <1>17, <1>18, <1>19
-----------------------------------------------------------------------------
(* A call is made again: with one token more, ... *)
LEMMA TokensCompare ==
    ASSUME NEW c, CallOK(c), NEW s \in Parsers, OnCourse(c, s),
           NEW d, d = [c EXCEPT !.num = @ + 1]
    PROVE  Compares(d, Resumed(s))
  <1>. DEFINE t == Resumed(s)
  <1>1. d.js = c.js
    BY DEF CallOK
  <1>2. Amply(d) = Amply(c)
    BY <1>1 DEF CallOK, Amply
  <1>3. Counting(d) = Counting(c)
    BY <1>2 DEF Counting
  <1>4. t.pos = s.pos /\ t.toknext = s.toknext /\ ~t.done /\ Resumed(t) = t
    BY ResumeFacts, ResumeSame
  <1>. HIDE DEF t
  <1>5. OnCourse(d, t)
    BY <1>2, <1>3, <1>4 DEF OnCourse, t
  <1>6. Compares(d, t)
    BY <1>4, <1>5 DEF Compares, OneResult, CountResult
  <1>. QED
    BY <1>6 DEF t

(* ... or with more text. *)
LEMMA TextCompares ==
    ASSUME NEW c, CallOK(c), c.build.strict, NEW s \in Parsers, OnCourse(c, s),
           NEW d, CallOK(d), d.js = c.js, d.build = c.build, c.len <= d.len
    PROVE  Compares(d, Resumed(s))
  <1>. DEFINE t == Resumed(s)
  <1>1. /\ Len(c.js) \in Nat /\ c.len \in Nat /\ c.len <= Len(c.js) /\ d.len \in Nat
    BY AmpleFacts DEF CallOK
  <1>2. /\ Amply(c).len = c.len /\ Amply(c).js = c.js /\ Amply(c).build = c.build /\ ~Amply(c).null
        /\ Counting(c).len = c.len /\ Counting(c).js = c.js /\ Counting(c).build = c.build
        /\ Counting(c).null
    BY AmpleFacts
  <1>3. /\ Amply(d).len = d.len /\ Amply(d).js = d.js /\ Amply(d).build = d.build /\ ~Amply(d).null
        /\ Amply(d).num = Len(c.js) /\ Amply(d).null = d.null /\ Amply(c).null = c.null
        /\ Counting(d).len = d.len /\ Counting(d).js = d.js /\ Counting(d).build = d.build
        /\ Counting(d).null
    BY AmpleFacts
  <1>4. Amply(c).null = Amply(d).null /\ Counting(c).null = Counting(d).null
    BY <1>3 DEF CallOK, Counting, Amply
  <1>5. SameText(Amply(c), Amply(d)) /\ SameText(Counting(c), Counting(d))
    BY <1>1, <1>2, <1>3 DEF SameText
  <1>6. t.pos = s.pos /\ t.toknext = s.toknext /\ ~t.done /\ Resumed(t) = t
    BY ResumeFacts, ResumeSame
  <1>. HIDE DEF t
  <1>7. Path(Amply(d), t)
    <2>1. Path(Amply(c), t)
      BY DEF OnCourse, t
    <2>2. Amply(c).len <= Amply(d).num /\ Amply(d).num \in Nat
      BY <1>1, <1>2, <1>3
    <2>. QED
      BY <1>2, <1>4, <1>5, <2>1, <2>2, PathLonger
  <1>8. \E u : Path(Counting(d), u) /\ u.pos = t.pos /\ u.count = t.toknext
    <2>1. PICK u : Path(Counting(c), u) /\ u.pos = s.pos /\ u.count = s.toknext
      BY DEF OnCourse
    <2>2. Path(Counting(d), u)
      BY <1>2, <1>4, <1>5, <2>1, PathLonger
    <2>. QED
      BY <1>6, <2>1, <2>2
  <1>9. OnCourse(d, t)
    BY <1>6, <1>7, <1>8 DEF OnCourse
  <1>10. Compares(d, t)
    BY <1>6, <1>9 DEF Compares, OneResult, CountResult
  <1>. QED
    BY <1>10 DEF t

(* What holds at every point: the parser is sound, it has all of its text  *)
(* or the build is strict, and it is on the course of both other calls.    *)
ResumeInv ==
    /\ IndInv
    /\ call.build.strict \/ call.len = Len(call.js)
    /\ Compares(call, st)

LEMMA InitCompares ==
    ASSUME \A b \in StreamBuilds : b.strict, Init
    PROVE  ResumeInv
  <1>1. IndInv
    BY InitSound
  <1>2. CallOK(call)
    BY <1>1 DEF IndInv, Sound
  <1>3. call.build.strict \/ call.len = Len(call.js)
    BY DEF Init
  <1>4. st = jsmn_init
    BY DEF Init
  <1>5. st \in Parsers /\ st.pos = 0 /\ st.toknext = 0 /\ st.count = 0 /\ ~st.done /\ st.ret = 0
    BY <1>4 DEF jsmn_init, Parsers
  <1>6. Resumed(st) = st
    BY <1>5, ResumeSame
  <1>7. Path(Amply(call), st) /\ Path(Counting(call), st)
    <2>1. Amply(call).len \in Nat /\ Counting(call).len \in Nat
      BY <1>2, AmpleFacts DEF SameText
    <2>. QED
      BY <1>4, <2>1, PathStart
  <1>8. OnCourse(call, st)
    BY <1>5, <1>6, <1>7 DEF OnCourse
  <1>9. Compares(call, st)
    BY <1>5, <1>6, <1>8 DEF Compares, OneResult, CountResult
  <1>. QED
    BY <1>1, <1>3, <1>9 DEF ResumeInv

LEMMA NextCompares == ResumeInv /\ [Next]_jsmnVars => ResumeInv'
  <1>. SUFFICES ASSUME ResumeInv, [Next]_jsmnVars PROVE ResumeInv'
    OBVIOUS
  <1>0. IndInv' /\ (call.build.strict \/ call.len = Len(call.js)) /\ Compares(call, st)
    BY NextSound DEF ResumeInv
  <1>1. /\ Sound(call, st) /\ CallOK(call) /\ st \in Parsers /\ call.len \in Nat
        /\ Len(call.js) \in Nat /\ CallOK(call')
    BY <1>0, AmpleFacts DEF ResumeInv, IndInv, Sound, Numbers, CallOK
  <1>2. CASE Iterate
    <2>1. Working(call, st) /\ call' = call /\ st' = Step(call, st)
      BY <1>1, <1>2 DEF Iterate, Working
    <2>2. Compares(call, Step(call, st))
      BY <1>0, <2>1, StepCompares
    <2>3. Compares(call, st)'
      BY <2>1, <2>2
    <2>. QED
      BY <1>0, <2>1, <2>3 DEF ResumeInv
  <1>3. CASE MoreTokens
    <2>1. OnCourse(call, st)
      BY <1>0, <1>3 DEF MoreTokens, Compares, Going
    <2>2. call' = [call EXCEPT !.num = @ + 1] /\ st' = Resumed(st)
      BY <1>3 DEF MoreTokens, Again
    <2>3. Compares(call', Resumed(st))
      BY <1>1, <2>1, <2>2, TokensCompare
    <2>4. call'.build = call.build /\ call'.len = call.len /\ call'.js = call.js
      BY <1>1, <2>2 DEF CallOK
    <2>5. Compares(call, st)'
      BY <2>2, <2>3
    <2>. QED
      BY <1>0, <2>4, <2>5 DEF ResumeInv
  <1>4. CASE MoreText
    <2>1. OnCourse(call, st)
      BY <1>0, <1>4 DEF MoreText, Compares, Going
    <2>2. PICK len \in (call.len + 1)..Len(call.js) : call' = [call EXCEPT !.len = len]
      BY <1>4 DEF MoreText
    <2>3. st' = Resumed(st)
      BY <1>4 DEF MoreText, Again
    <2>4. call.len < Len(call.js) /\ call.len <= len
      BY <1>1
    <2>5. call.build.strict
      BY <1>0, <1>1, <2>4
    <2>6. call'.build = call.build /\ call'.js = call.js /\ call'.len = len
      BY <1>1, <2>2 DEF CallOK
    <2>7. Compares(call', Resumed(st))
      BY <1>1, <2>1, <2>4, <2>5, <2>6, TextCompares
    <2>8. Compares(call, st)'
      BY <2>3, <2>7
    <2>. QED
      BY <1>0, <2>5, <2>6, <2>8 DEF ResumeInv
  <1>5. CASE UNCHANGED jsmnVars
    <2>1. call' = call /\ st' = st
      BY <1>5 DEF jsmnVars
    <2>2. Compares(call, st)'
      BY <1>0, <2>1
    <2>. QED
      BY <1>0, <2>1, <2>2 DEF ResumeInv
  <1>. QED
    BY <1>2, <1>3, <1>4, <1>5 DEF Next

(* A parse that ran out of tokens or text any number of times leaves the   *)
(* tokens and returns the result of one call that had everything from the  *)
(* start (the README.md of jsmn, 170-173; jsmn.h:181-184, 265-266, 278).   *)
(* Text that arrives in pieces needs a strict build: the others end a      *)
(* primitive where the piece ends (jsmn.h:169-175).                        *)
THEOREM ResumingIsInvisible ==
    ASSUME \A b \in StreamBuilds : b.strict
    PROVE  Spec => []ResumeIsInvisible
  <1>1. Init => ResumeInv
    BY InitCompares
  <1>2. ResumeInv => ResumeIsInvisible
    BY DEF ResumeInv, Compares, OneResult, ResumeIsInvisible, OneCall, Ample, Amply
  <1>. QED
    BY <1>1, <1>2, NextCompares, PTL DEF Spec

(* A call without tokens tells how many are needed: with as many the parse *)
(* does not run out of them, and it returns that number (the README.md of  *)
(* jsmn, 160-162; jsmn.h:176-179, 212-214, 288-291, 457).                  *)
THEOREM CountingIsRight ==
    ASSUME \A b \in StreamBuilds : b.strict
    PROVE  Spec => []NullCountAgrees
  <1>1. Init => ResumeInv
    BY InitCompares
  <1>2. ResumeInv => NullCountAgrees
    BY DEF ResumeInv, Compares, CountResult, NullCountAgrees, CountCall, Ample, Counting, Amply
  <1>. QED
    BY <1>1, <1>2, NextCompares, PTL DEF Spec
===============================================================================
