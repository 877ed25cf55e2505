--------------------------------- MODULE Jsmn ---------------------------------
(***************************************************************************)
(* The JSON tokenizer of managed_components/espressif__jsmn/include/jsmn.h *)
(* and a caller that uses it as its README.md describes: after             *)
(* JSMN_ERROR_NOMEM it calls again with one token more, and when it reads  *)
(* from a stream it calls again after JSMN_ERROR_PART when more text has   *)
(* arrived.  Both keep the parser, so each call goes on where the last one *)
(* returned.  One step is one iteration of the loop of jsmn_parse.         *)
(*                                                                         *)
(* A character stands for its class:  1 (a digit), f and n start a         *)
(* primitive in strict mode, 1 and f are hexadecimal, f and n may follow   *)
(* a backslash, x is any other printable character, BAD is not printable.  *)
(***************************************************************************)
EXTENDS Integers, Sequences, FiniteSetsExt

CONSTANTS Builds,         \* [strict, links]: JSMN_STRICT, JSMN_PARENT_LINKS
          Inputs,         \* the texts that are there as a whole
          StreamBuilds,
          StreamInputs    \* the texts that arrive piece by piece, in which builds

ASSUME BuildsAssumption ==
    Builds \cup StreamBuilds \subseteq [strict : BOOLEAN, links : BOOLEAN]
ASSUME TextsAssumption == Inputs \cup StreamInputs \subseteq Seq(STRING)

VARIABLES call,  \* arguments of jsmn_parse: build, js, len, num_tokens, tokens = NULL
          st     \* jsmn_parser, the token array, and count / the value returned

jsmnVars == <<call, st>>

JSMN_ERROR_NOMEM == -1
JSMN_ERROR_INVAL == -2
JSMN_ERROR_PART  == -3

Blanks    == {" "}
Hex       == {"1", "f"}
Escapable == {"\"", "\\", "n", "f"}
Literals  == {"1", "n", "f"}
-----------------------------------------------------------------------------
jsmn_init == [pos |-> 0, toknext |-> 0, toksuper |-> -1, tokens |-> <<>>,
              count |-> 0, done |-> FALSE, ret |-> 0]

(* js[k] counts from 0; the text ends at len or at a NUL. *)
Char(c, k)  == c.js[k + 1]
AtEnd(c, k) == k >= c.len \/ Char(c, k) = "NUL"

Token(s, i) == s.tokens[i + 1]
Indices(s)  == 0..(s.toknext - 1)

(* Tokens of objects and arrays that have been opened and not closed. *)
Unclosed(s) == {i \in Indices(s) : Token(s, i).start # -1 /\ Token(s, i).end = -1}
Innermost(I) == IF I = {} THEN -1 ELSE Max(I)

Returned(s, r) == [s EXCEPT !.done = TRUE, !.ret = r]
MoveTo(s, k)   == [s EXCEPT !.pos = k]
Counted(s)     == [s EXCEPT !.count = @ + 1]
Super(s, i)    == [s EXCEPT !.toksuper = i]

(* A fresh token.  Its type is left as it was; nothing reads it before it is set. *)
jsmn_alloc_token(s) ==
    [s EXCEPT !.toknext = @ + 1,
              !.tokens = Append(@, [type |-> "UNDEFINED", start |-> -1, end |-> -1,
                                    size |-> 0, parent |-> -1])]

(* The last token gets its type, its place and, where there are links, its parent. *)
jsmn_fill_token(c, s, type, start, end) ==
    [s EXCEPT !.tokens[s.toknext] =
        [type |-> type, start |-> start, end |-> end, size |-> 0,
         parent |-> IF c.build.links THEN s.toksuper ELSE -1]]

NoRoom(c, s) == s.toknext >= c.num

(* Fault: only objects and arrays count their children. *)
GrowContainer(s) ==
    IF s.toksuper = -1 \/ Token(s, s.toksuper).type \notin {"OBJECT", "ARRAY"} THEN s
    ELSE [s EXCEPT !.tokens[s.toksuper + 1].size = @ + 1]

(* tokens[parser->toksuper].size++ *)
GrowSuper(s) ==
    IF s.toksuper = -1 THEN s
    ELSE [s EXCEPT !.tokens[s.toksuper + 1].size = @ + 1]

(* Fault: without a token array nothing is counted. *)
ScannedUncounted(c, s, type, start, e) ==
    IF c.null THEN MoveTo(s, e)
    ELSE IF NoRoom(c, s) THEN Returned(s, JSMN_ERROR_NOMEM)
    ELSE MoveTo(Counted(GrowSuper(
            jsmn_fill_token(c, jsmn_alloc_token(s), type, start, e))), e)

(* A string or primitive that was scanned up to position e becomes a token. *)
Scanned(c, s, type, start, e) ==
    IF c.null THEN MoveTo(Counted(s), e)
    ELSE IF NoRoom(c, s) THEN Returned(s, JSMN_ERROR_NOMEM)
    ELSE MoveTo(Counted(GrowSuper(
            jsmn_fill_token(c, jsmn_alloc_token(s), type, start, e))), e)

(* Where a primitive ends: at a delimiter, at the end, or at a bad character. *)
Delimiters(c) == Blanks \cup {",", "]", "}"} \cup (IF c.build.strict THEN {} ELSE {":"})

(* Fault: in strict mode too the end of the text ends a primitive. *)
PrimitiveToEnd(c, s) ==
    LET e == Min({k \in s.pos..c.len :
                    AtEnd(c, k) \/ Char(c, k) \in Delimiters(c) \cup {"BAD"}})
    IN  IF ~AtEnd(c, e) /\ Char(c, e) = "BAD" THEN Returned(s, JSMN_ERROR_INVAL)
        ELSE Scanned(c, s, "PRIMITIVE", s.pos, e)

jsmn_parse_primitive(c, s) ==
    LET e == Min({k \in s.pos..c.len :
                    AtEnd(c, k) \/ Char(c, k) \in Delimiters(c) \cup {"BAD"}})
    IN  IF ~AtEnd(c, e) /\ Char(c, e) = "BAD" THEN Returned(s, JSMN_ERROR_INVAL)
        ELSE IF AtEnd(c, e) /\ c.build.strict THEN Returned(s, JSMN_ERROR_PART)
        ELSE Scanned(c, s, "PRIMITIVE", s.pos, e)

(* Fault: an escaped quote ends the string. *)
AnyQuote(c, from) ==
    LET scan[k \in 0..c.len] ==
            IF AtEnd(c, k) THEN JSMN_ERROR_PART
            ELSE IF Char(c, k) = "\"" THEN k
            ELSE scan[k + 1]
    IN  scan[from]

(* The position of the closing quote of the string whose text is at k, or  *)
(* an error.  The four digits after \u may be cut short by the end.        *)
StringEnd(c, from) ==
    LET After(k) == Min({m \in k..(k + 4) : m = k + 4 \/ AtEnd(c, m)})
        scan[k \in 0..c.len] ==
            IF AtEnd(c, k) THEN JSMN_ERROR_PART
            ELSE IF Char(c, k) = "\"" THEN k
            ELSE IF Char(c, k) # "\\" \/ k + 1 >= c.len THEN scan[k + 1]
            ELSE IF Char(c, k + 1) \in Escapable THEN scan[k + 2]
            ELSE IF Char(c, k + 1) = "u" /\ \A m \in (k + 2)..(After(k + 2) - 1) : Char(c, m) \in Hex
                 THEN scan[After(k + 2)]
            ELSE JSMN_ERROR_INVAL
    IN  scan[from]

jsmn_parse_string(c, s) ==
    LET e == StringEnd(c, s.pos + 1)
    IN  IF e < 0 THEN Returned(s, e)
        ELSE LET t == Scanned(c, s, "STRING", s.pos + 1, e)
             IN  IF t.done THEN t ELSE MoveTo(t, e + 1)
-----------------------------------------------------------------------------
(* The cases of the switch in jsmn_parse. *)
OpenBracket(c, s, type) ==
    LET new == jsmn_alloc_token(s)
        opened == GrowSuper(jsmn_fill_token(c, new, type, s.pos, -1))
    IN  IF c.null THEN MoveTo(Counted(s), s.pos + 1)
        ELSE IF NoRoom(c, s) THEN Returned(s, JSMN_ERROR_NOMEM)
        ELSE IF c.build.strict /\ s.toksuper # -1 /\ Token(s, s.toksuper).type = "OBJECT"
             THEN Returned(new, JSMN_ERROR_INVAL)
        ELSE MoveTo(Counted(Super(opened, s.toknext)), s.pos + 1)

(* With parent links the search for the bracket's partner starts at the    *)
(* last token and follows the links up to an unclosed token or a root.     *)
Partner(s) ==
    LET up[i \in Indices(s)] ==
            IF i \in Unclosed(s) \/ Token(s, i).parent = -1 THEN i
            ELSE up[Token(s, i).parent]
    IN  up[s.toknext - 1]

Closed(s, i, super) ==
    MoveTo(Super([s EXCEPT !.tokens[i + 1].end = s.pos + 1], super), s.pos + 1)

CloseWithLinks(s, type) ==
    LET i == Partner(s)
    IN  IF s.toknext < 1 THEN Returned(s, JSMN_ERROR_INVAL)
        ELSE IF Token(s, i).type # type THEN Returned(s, JSMN_ERROR_INVAL)
        ELSE IF i \in Unclosed(s) THEN Closed(s, i, Token(s, i).parent)
        ELSE IF s.toksuper = -1 THEN Returned(s, JSMN_ERROR_INVAL)
        ELSE MoveTo(s, s.pos + 1)

(* Fault: a bracket closes the outermost object or array. *)
CloseOutermost(s, type) ==
    IF Unclosed(s) = {} THEN Returned(s, JSMN_ERROR_INVAL)
    ELSE LET i == Min(Unclosed(s))
         IN  IF Token(s, i).type # type THEN Returned(s, JSMN_ERROR_INVAL)
             ELSE Closed(s, i, Innermost(Unclosed(s) \ {i}))

CloseWithoutLinks(s, type) ==
    LET i == Innermost(Unclosed(s))
    IN  IF i = -1 THEN Returned(s, JSMN_ERROR_INVAL)
        ELSE IF Token(s, i).type # type THEN Returned(s, JSMN_ERROR_INVAL)
        ELSE Closed(s, i, Innermost(Unclosed(s) \ {i}))

CloseBracket(c, s, type) ==
    IF c.null THEN MoveTo(s, s.pos + 1)
    ELSE IF c.build.links THEN CloseWithLinks(s, type)
    ELSE CloseWithoutLinks(s, type)

(* Faults: the index of the key is off by one; the colon is not passed. *)
ColonBeyond(s) == MoveTo(Super(s, s.toknext), s.pos + 1)
ColonStays(s) == Super(s, s.toknext - 1)

Colon(s) == MoveTo(Super(s, s.toknext - 1), s.pos + 1)

(* Fault: a comma does not end a key. *)
CommaKeepsKey(c, s) == MoveTo(s, s.pos + 1)

(* A comma after a value ends the key the value belongs to. *)
Comma(c, s) ==
    LET key  == ~c.null /\ s.toksuper # -1
                    /\ Token(s, s.toksuper).type \notin {"ARRAY", "OBJECT"}
        open == Innermost(Unclosed(s))
        next == IF ~key THEN s.toksuper
                ELSE IF c.build.links THEN Token(s, s.toksuper).parent
                ELSE IF open = -1 THEN s.toksuper
                ELSE open
    IN  MoveTo(Super(s, next), s.pos + 1)

(* In strict mode a primitive is a literal and never a key. *)
Primitive(c, s, ch) ==
    LET t == Token(s, s.toksuper)
        taken == ~c.null /\ s.toksuper # -1
                    /\ (t.type = "OBJECT" \/ (t.type = "STRING" /\ t.size # 0))
    IN  IF c.build.strict /\ (ch \notin Literals \/ taken)
        THEN Returned(s, JSMN_ERROR_INVAL)
        ELSE jsmn_parse_primitive(c, s)

(* The end of the text: an unclosed object or array means that text is missing. *)
Finish(c, s) ==
    Returned(s, IF ~c.null /\ Unclosed(s) # {} THEN JSMN_ERROR_PART ELSE s.count)

(* One iteration of the loop of jsmn_parse, or its end. *)
Step(c, s) ==
    IF AtEnd(c, s.pos) THEN Finish(c, s)
    ELSE LET ch == Char(c, s.pos)
         IN  CASE ch = "{"  -> OpenBracket(c, s, "OBJECT")
               [] ch = "["  -> OpenBracket(c, s, "ARRAY")
               [] ch = "}"  -> CloseBracket(c, s, "OBJECT")
               [] ch = "]"  -> CloseBracket(c, s, "ARRAY")
               [] ch = "\"" -> jsmn_parse_string(c, s)
               [] ch \in Blanks -> MoveTo(s, s.pos + 1)
               [] ch = ":"  -> Colon(s)
               [] ch = ","  -> Comma(c, s)
               [] OTHER     -> Primitive(c, s, ch)

(* A whole call: at most one iteration for each character, and the end. *)
jsmn_parse(c, s) ==
    LET run[n \in 0..(Len(c.js) + 1)] ==
            IF n = 0 THEN s
            ELSE LET prev == run[n - 1] IN IF prev.done THEN prev ELSE Step(c, prev)
    IN  run[Len(c.js) + 1]
-----------------------------------------------------------------------------
Init ==
    /\ st = jsmn_init
    /\ \/ \E b \in Builds, js \in Inputs :
            call = [build |-> b, js |-> js, len |-> Len(js), num |-> 0, null |-> FALSE]
       \/ \E b \in StreamBuilds, js \in StreamInputs : \E len \in 0..Len(js) :
            call = [build |-> b, js |-> js, len |-> len, num |-> 0, null |-> FALSE]

Iterate ==
    /\ ~st.done
    /\ st' = Step(call, st)
    /\ UNCHANGED call

(* The next call: jsmn_parse counts on from the tokens it already has. *)
Resumed(s) == [s EXCEPT !.count = s.toknext, !.done = FALSE, !.ret = 0]

Again == st' = Resumed(st)

MoreTokens ==
    /\ st.done /\ st.ret = JSMN_ERROR_NOMEM
    /\ call' = [call EXCEPT !.num = @ + 1]
    /\ Again

MoreText ==
    /\ st.done /\ st.ret = JSMN_ERROR_PART
    /\ \E len \in (call.len + 1)..Len(call.js) : call' = [call EXCEPT !.len = len]
    /\ Again

Next == Iterate \/ MoreTokens \/ MoreText

Spec == Init /\ [][Next]_jsmnVars

(* The caller's thread runs. *)
FairSpec == Spec /\ WF_jsmnVars(Next)
-----------------------------------------------------------------------------
(* What one call with the text that is there and tokens enough would       *)
(* return, and what a call without a token array returns.                  *)
Ample     == [call EXCEPT !.num = Len(call.js)]
OneCall   == jsmn_parse(Ample, jsmn_init)
CountCall == jsmn_parse([Ample EXCEPT !.null = TRUE], jsmn_init)

(* The caller is through: it has an answer it will not retry. *)
Answered ==
    st.done /\ st.ret # JSMN_ERROR_NOMEM
            /\ (st.ret = JSMN_ERROR_PART => call.len = Len(call.js))

Types == {"UNDEFINED", "OBJECT", "ARRAY", "STRING", "PRIMITIVE"}

(* Every position, index and size within the text and the token array.     *)
(* toksuper and the links are used as indices of tokens without a check    *)
(* (jsmn.h:297, 339, 373, 388).                                            *)
TypeOK ==
    /\ st.pos \in 0..call.len /\ st.toknext \in 0..call.num
    /\ st.toksuper \in -1..(st.toknext - 1)
    /\ Len(st.tokens) = st.toknext
    /\ \A i \in Indices(st) :
         /\ Token(st, i).type \in Types /\ Token(st, i).size \in 0..st.toknext
         /\ Token(st, i).parent \in -1..(i - 1)
         /\ Token(st, i).start \in -1..(call.len - 1) /\ Token(st, i).end \in -1..call.len
    /\ st.done \in BOOLEAN /\ st.ret \in -3..call.num

(* Calls that failed for lack of tokens or text leave nothing behind: a    *)
(* call that has tokens enough leaves the tokens and returns the result of *)
(* one call that had everything from the start (README.md:170-173).        *)
ResumeIsInvisible ==
    st.done /\ st.ret # JSMN_ERROR_NOMEM =>
        st.tokens = OneCall.tokens /\ st.ret = OneCall.ret

(* A call without tokens tells how many are needed: with as many the parse *)
(* never runs out of them, and it uses them all (README.md:160-162).       *)
NullCountAgrees ==
    st.done /\ CountCall.ret >= 0 =>
        /\ st.ret = JSMN_ERROR_NOMEM => call.num < CountCall.ret
        /\ st.ret >= 0 => st.ret = CountCall.ret

(* With parent links, the size of a token is the number of tokens that     *)
(* name it as their parent, at every point of every parse.                 *)
SizeCountsChildren ==
    call.build.links =>
        \A i \in Indices(st) :
            Token(st, i).size = Cardinality({j \in Indices(st) : Token(st, j).parent = i})

(* Tokens are in the order of the text, and an object or array either      *)
(* contains a later token as a whole or ends before it; what is not closed *)
(* yet is never inside something closed.                                   *)
TokensNest ==
    \A i, j \in Indices(st) :
        i < j /\ ~(st.done /\ st.ret = JSMN_ERROR_INVAL) =>
            LET a == Token(st, i)
                b == Token(st, j)
            IN  /\ a.start < b.start
                /\ a.end # -1 => a.end <= b.start \/ (b.end # -1 /\ b.end < a.end)

(* jsmn_parse always returns, although it moves pos back at the end of a   *)
(* primitive, and a caller that follows the README gets its answer.        *)
CallerIsAnswered == <>[]Answered
===============================================================================
