------------------------------- MODULE Predicate -------------------------------
(***************************************************************************)
(* The breakpoint conditions, in three dialects that are to mirror each    *)
(* other: crates/breakpoint/src/lib.rs (rust), tools/ref_ingest/bp.py      *)
(* (python) and packages/ui/src/data/breakpoint.ts (ts).  A source is a    *)
(* sequence of lexemes, which the user types one after the other.  Lexers  *)
(* and comparisons differ, and each dialect has its own; from tokens to an *)
(* expression the three recursive descents are the same statement for      *)
(* statement (lib.rs:132-193, bp.py:85-132, breakpoint.ts:79-124) and stand *)
(* here once.                                                              *)
(***************************************************************************)
EXTENDS Naturals, SequencesExt

CONSTANTS
  Field,          \* names of span fields
  Literal,        \* values that can be written
  Word,           \* words that are a number to some dialects only, such as inf and 0x10
  NumberWord,     \* which of them are, to each dialect
  FieldValue,     \* values that fields have: null, numbers and strings
  MaxLexemes,     \* bounds: lexemes of a source, and of one made of simple ones
  MaxSimple,
  MaxNested       \* and the NOTs and opening parentheses of the latter

ASSUME PredicateAssumption ==
  /\ Literal \subseteq [t : {"num", "str", "bool"}, v : Nat]
  /\ FieldValue \subseteq [t : {"null", "num", "str"}, v : Nat]
  /\ {MaxLexemes, MaxSimple, MaxNested} \subseteq Nat

Dialect == {"rust", "ts", "python"}
\* Values have a type and a number: n is the string of n times `a', and FALSE and TRUE are 0 and 1.
Null    == [t |-> "null", v |-> 0]
Num(n)  == [t |-> "num", v |-> n]

VARIABLE source

Compare == {"==", "!=", ">", "<", ">=", "<=", "contains"}
Lone    == {"=", "!"}
Keyword == {"(", ")", "and", "or", "not"}

\* Lexemes and tokens: the kind, the name of an identifier or operator, a literal's value.
Tok(k, n) == [k |-> k, n |-> n, v |-> Null]
Lit(v)    == [k |-> "lit", n |-> "", v |-> v]
Lexeme == {Tok(k, "") : k \in Keyword} \cup {Tok("op", o) : o \in Compare}
            \cup {Tok("lone", o) : o \in Lone} \cup {Tok("id", f) : f \in Field}
            \cup {Tok("word", w) : w \in Word} \cup {Lit(v) : v \in Literal}

\* Enough for AND, OR, NOT and parentheses to meet.
Simple(x) == x.k \in Keyword \cup {"id"} \/ x.n = "==" \/ x.v = Num(1)

SourceInit == source = <<>>

-----------------------------------------------------------------------------
(* lex.  A lone = or ! is an error in Python; the others make an operator of it. *)

LexFails(d, src) == d = "python" /\ \E i \in DOMAIN src : src[i].k = "lone"

Lex(d, src) ==
  [i \in DOMAIN src |->
     CASE src[i].k = "lone" /\ d # "python" -> Tok("op", src[i].n)
       [] src[i].k = "word" -> IF src[i].n \in NumberWord[d] THEN Lit(Num(2)) ELSE Tok("id", src[i].n)
       [] OTHER -> src[i]]

-----------------------------------------------------------------------------
(* The parser.  A result says whether it succeeded, the place of the next or of *)
(* the offending token, and the expression: its nodes, operands before their    *)
(* operator.                                                                    *)

Node(k)          == [k |-> k]
CmpNode(f, o, v) == [k |-> "cmp", field |-> f, op |-> o, val |-> v]
Join(a, b, word) == a \o b \o <<Node(word)>>

Found(i, e)   == [ok |-> TRUE, i |-> i, e |-> e]
Fails(i)      == [ok |-> FALSE, i |-> i, e |-> <<>>]
Is(t, i, k)   == i <= Len(t) /\ t[i].k = k

Comparison(t, i) ==
  IF ~Is(t, i, "id") THEN Fails(i)
  ELSE IF ~Is(t, i + 1, "op") THEN Fails(i + 1)
  ELSE IF ~Is(t, i + 2, "lit") THEN Fails(i + 2)
  ELSE Found(i + 3, <<CmpNode(t[i].n, t[i + 1].n, t[i + 2].v)>>)

\* In the following, call[k][g] is what the call of nonterminal g at place k returns.
\* Mutant: the closing parenthesis is not looked at.
PrimaryUnclosed(t, i, call) ==
  IF ~Is(t, i, "(") THEN Comparison(t, i)
  ELSE LET inner == call[i + 1]["or"] IN IF inner.ok THEN Found(inner.i + 1, inner.e) ELSE inner

Primary(t, i, call) ==
  IF ~Is(t, i, "(") THEN Comparison(t, i)
  ELSE LET inner == call[i + 1]["or"]
       IN  IF ~inner.ok THEN inner
           ELSE IF ~Is(t, inner.i, ")") THEN Fails(inner.i)
           ELSE Found(inner.i + 1, inner.e)

Not(t, i, call) ==
  IF ~Is(t, i, "not") THEN Primary(t, i, call)
  ELSE LET arg == call[i + 1]["not"]
       IN  IF arg.ok THEN Found(arg.i, Append(arg.e, Node("not"))) ELSE arg

\* One turn of the loop: while a `word' comes, and an operand g after it.
Turn(t, call, left, word, g) ==
  IF ~left.ok \/ ~Is(t, left.i, word) THEN left
  ELSE LET right == call[left.i + 1][g]
       IN  IF right.ok THEN Found(right.i, Join(left.e, right.e, word)) ELSE right

\* The turns, each of which takes four tokens at least: the word and a comparison.
MaxTurns(t) == Len(t) \div 4
Turns(t, call, left, word, g) ==
  LET turn[n \in 0..MaxTurns(t)] == IF n = 0 THEN left ELSE Turn(t, call, turn[n - 1], word, g)
  IN  turn

And(t, i, call) == Turns(t, call, Not(t, i, call), "and", "not")[MaxTurns(t)]
Or(t, i, call)  == Turns(t, call, And(t, i, call), "or", "and")[MaxTurns(t)]

Nonterminal == {"or", "and", "not"}
Called(t, i, g, call) ==
  IF g = "or" THEN Or(t, i, call) ELSE IF g = "and" THEN And(t, i, call) ELSE Not(t, i, call)

\* What calls return that go no deeper than m: each call within a call is of a later place.
Calls(t) ==
  LET calls[m \in 0..Len(t)] ==
        [i \in 1..(Len(t) + 1) |-> [g \in Nonterminal |->
           IF m = 0 THEN Fails(i) ELSE Called(t, i, g, calls[m - 1])]]
  IN  calls

Parse(d, src) ==
  IF LexFails(d, src) THEN Fails(0)
  ELSE LET t == Lex(d, src)
           r == Or(t, 1, Calls(t)[Len(t)])
       IN  IF r.ok /\ r.i # Len(t) + 1 THEN Fails(r.i) ELSE r

-----------------------------------------------------------------------------
(* Evaluation over the fields of a span; a field it does not have is null. *)

Includes(a, b) == a.t = "str" /\ b.t = "str" /\ b.v <= a.v
Order == {">", "<", ">=", "<="}
Ordered(x, op, y) ==
  CASE op = ">" -> x > y [] op = "<" -> x < y [] op = ">=" -> x >= y [] OTHER -> x <= y

RustCmp(a, op, b) ==
  CASE op = "==" -> a = b
    [] op = "!=" -> a # b
    [] op = "contains" -> Includes(a, b)
    [] op \in Order -> a.t = "num" /\ b.t = "num" /\ Ordered(a.v, op, b.v)
    [] OTHER -> FALSE

\* A bool is an int, to == and to isinstance.
PythonNumber(a)   == a.t \in {"num", "bool"}
PythonEqual(a, b) == IF PythonNumber(a) /\ PythonNumber(b) THEN a.v = b.v ELSE a = b

\* Any other operator would be a KeyError, which the collector takes for no hit.
PythonCmp(a, op, b) ==
  CASE op = "==" -> PythonEqual(a, b)
    [] op = "!=" -> ~PythonEqual(a, b)
    [] op = "contains" -> Includes(a, b)
    [] op \in Order -> PythonNumber(a) /\ PythonNumber(b) /\ Ordered(a.v, op, b.v)
    [] OTHER -> FALSE

TsOrder(x, op, y) ==
  CASE op = ">" -> x > y [] op = "<" -> x < y [] op = ">=" -> x >= y [] op = "<=" -> x <= y
    [] OTHER -> FALSE

\* Mutant of TsCmp: strings are put in order too.
TsCmpStrings(a, op, b) ==
  CASE op = "==" -> a = b
    [] op = "!=" -> a # b
    [] op = "contains" -> Includes(a, b)
    [] OTHER -> a.t = b.t /\ a.t \in {"num", "str"} /\ TsOrder(a.v, op, b.v)

TsCmp(a, op, b) ==
  CASE op = "==" -> a = b
    [] op = "!=" -> a # b
    [] op = "contains" -> Includes(a, b)
    [] OTHER -> a.t = "num" /\ b.t = "num" /\ TsOrder(a.v, op, b.v)

Cmp(d, a, op, b) ==
  CASE d = "rust" -> RustCmp(a, op, b)
    [] d = "python" -> PythonCmp(a, op, b)
    [] d = "ts" -> TsCmp(a, op, b)

ValueOf(ctx, field) == IF field \in DOMAIN ctx THEN ctx[field] ELSE Null

\* One node, with the values of the operands before it, the last one first.
Apply(d, node, ctx, vals) ==
  CASE node.k = "and" -> <<vals[2] /\ vals[1]>> \o Tail(Tail(vals))
    [] node.k = "or"  -> <<vals[2] \/ vals[1]>> \o Tail(Tail(vals))
    [] node.k = "not" -> <<~vals[1]>> \o Tail(vals)
    [] node.k = "cmp" -> <<Cmp(d, ValueOf(ctx, node.field), node.op, node.val)>> \o vals

Values(d, e, ctx) ==
  LET value[n \in 0..Len(e)] == IF n = 0 THEN <<>> ELSE Apply(d, e[n], ctx, value[n - 1])
  IN  value

Holds(d, e, ctx) == Values(d, e, ctx)[Len(e)][1]

-----------------------------------------------------------------------------
\* What no further lexeme makes whole is not typed on.
Hopeless(d) == LET r == Parse(d, source) IN ~r.ok /\ r.i \in 0..Len(source) /\ source # <<>>

Type ==
  /\ \E d \in Dialect : ~Hopeless(d)
  /\ \E x \in Lexeme :
       /\ \/ Len(source) < MaxLexemes
          \/ /\ Len(source) < MaxSimple /\ \A y \in {x} \cup Range(source) : Simple(y)
             /\ Cardinality({n \in DOMAIN source : source[n].k \in {"not", "("}}) < MaxNested
       /\ source' = Append(source, x)

Clear == Len(source) > 0 /\ source' = <<>>

SourceNext == Clear \/ Type

SourceSpec == SourceInit /\ [][SourceNext]_source

-----------------------------------------------------------------------------
(* Properties *)

\* The expressions that the documented grammar (lib.rs:4-11) gives the tokens from i to j,
\* as nonterminal g, by derivations no deeper than m.
Negated(t, i, j, of) == {Append(a, Node("not")) : a \in IF i < j /\ Is(t, i, "not") THEN of[i + 1][j]["not"] ELSE {}}
Inside(t, i, j, of)  == IF i + 1 < j /\ Is(t, i, "(") /\ Is(t, j, ")") THEN of[i + 1][j - 1]["or"] ELSE {}
Compared(t, i, j) ==
  IF j = i + 2 /\ Is(t, i, "id") /\ Is(t, i + 1, "op") /\ Is(t, j, "lit")
  THEN {<<CmpNode(t[i].n, t[i + 1].n, t[j].v)>>} ELSE {}
JoinAll(A, B, word) == {Join(a, b, word) : a \in A, b \in B}
Joined(t, i, j, of, word, g) ==
  UNION {JoinAll(of[i][k - 1][word], of[k + 1][j][g], word) : k \in {n \in (i + 1)..(j - 1) : Is(t, n, word)}}

DerivedNot(t, i, j, of) == Negated(t, i, j, of) \cup Inside(t, i, j, of) \cup Compared(t, i, j)
DerivedAnd(t, i, j, of) == DerivedNot(t, i, j, of) \cup Joined(t, i, j, of, "and", "not")
DerivedOr(t, i, j, of)  == DerivedAnd(t, i, j, of) \cup Joined(t, i, j, of, "or", "and")

DerivedAs(t, i, j, g, of) ==
  IF g = "or" THEN DerivedOr(t, i, j, of)
  ELSE IF g = "and" THEN DerivedAnd(t, i, j, of) ELSE DerivedNot(t, i, j, of)

Derived(t) ==
  LET of[m \in 0..Len(t)] ==
        [i \in 1..Len(t) |-> [j \in 1..Len(t) |-> [g \in Nonterminal |->
           IF m = 0 THEN {} ELSE DerivedAs(t, i, j, g, of[m - 1])]]]
  IN  of

\* What the grammar gives a whole sequence of tokens.
Expressions(t) == DerivedOr(t, 1, Len(t), Derived(t)[Len(t)])

\* The operators of the grammar (lib.rs:10) have no lone = or ! among them: as a token of
\* the grammar it stays what it is, whatever a lexer makes of it.
Undocumented(src)  == \E i \in DOMAIN src : src[i].k = "lone"
Documented(d, src) ==
  LET t == Lex(d, src) IN [i \in DOMAIN src |-> IF src[i].k = "lone" THEN src[i] ELSE t[i]]

\* Each dialect takes the sources that the grammar of lib.rs:4-11 derives and builds the one
\* expression derived: NOT before AND before OR, left to right.  It takes no others but
\* those with a lone = or !: these the documented grammar does not derive and Python
\* refuses, while Rust and TypeScript (lib.rs:71-79, breakpoint.ts:41-48) take the ones
\* that it would derive if the two were operators like ==.
ParsesTheGrammar ==
  \A d \in Dialect :
    LET r == Parse(d, source)
    IN  /\ Expressions(Documented(d, source)) = IF r.ok /\ ~Undocumented(source) THEN {r.e} ELSE {}
        /\ Undocumented(source) =>
             IF d = "python" THEN ~r.ok
             ELSE Expressions(Lex(d, source)) = IF r.ok THEN {r.e} ELSE {}

\* Do a mirror and Rust take the same words for numbers?
SameNumbers(d) ==
  \A w \in Word : Tok("word", w) \in Range(source) => (w \in NumberWord[d] <=> w \in NumberWord["rust"])

BoolMeetsNumber(e, ctx) ==
  \E n \in DOMAIN e : e[n].k = "cmp" /\ e[n].val.t = "bool" /\ ValueOf(ctx, e[n].field).t = "num"

\* `Mirrors crates/breakpoint exactly' (breakpoint.ts:1): three comparisons, each written
\* in its language's own terms, give one answer: a condition that a mirror accepts, Rust
\* accepts, and it holds for the same spans -- but for words that are numbers to only one
\* of them and, in Python, for true and false, which it finds equal to 1 and 0.
MirrorsHold ==
  \A d \in {"python", "ts"} :
    LET mirror == Parse(d, source)
        rust   == Parse("rust", source)
    IN  mirror.ok /\ SameNumbers(d) =>
          /\ rust.ok
          /\ \A ctx \in [Field -> FieldValue] :
               ~(d = "python" /\ BoolMeetsNumber(mirror.e, ctx)) =>
                 (Holds(d, mirror.e, ctx) <=> Holds("rust", rust.e, ctx))
================================================================================
