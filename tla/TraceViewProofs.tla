----------------------------- MODULE TraceViewProofs -----------------------------
(***************************************************************************)
(* The views of traces, for traces of any length.                          *)
(*                                                                         *)
(* The diff: its first divergence is the first change, for which no fact   *)
(* about the table dp is needed: until the first pair that is not equal    *)
(* the walk never consults it.  Its alignment is a best one: it is shown   *)
(* what dp's recursion computes, by least counterexample, and that the     *)
(* walk follows it.  The pane that shows diffs shows the one asked for     *)
(* last.                                                                   *)
(*                                                                         *)
(* The navigation: the walk of the forest has what has a root above, each  *)
(* once and with all that is below it next, the commands move along it,    *)
(* and the rows of the tree are those spans but for collapsed ones.  All   *)
(* follows from how the loops under way nest.                              *)
(***************************************************************************)
EXTENDS TraceDiff, DiffPane, Navigation,
        SequenceTheorems, FiniteSetTheorems, WellFoundedInduction, TLAPS

\* Is the n-th span of both traces the same, but for replay bookkeeping?
Same(n) == /\ n <= Len(a) /\ n <= Len(b)
           /\ a[n].key = b[n].key /\ a[n].content = b[n].content

Equal(n) == out[n].kind = "equal"

\* So far the walk went down both traces in step ...
InStep == /\ i = Len(out) + 1 /\ j = Len(out) + 1
          /\ \A n \in 1..Len(out) : Equal(n) /\ Same(n)

\* ... or its first pair that is not equal is at the first place that is not the same.
SplitAt(n) == /\ ~Equal(n) /\ ~Same(n)
              /\ n <= Len(a) \/ n <= Len(b)
              /\ \A k \in 1..(n - 1) : Equal(k) /\ Same(k)

WInv == TypeOK /\ (InStep \/ \E n \in 1..Len(out) : SplitAt(n))

-----------------------------------------------------------------------------
(* The first divergence *)

\* The walk begins in step.
LEMMA InitWInv == Init => WInv
<1> SUFFICES ASSUME Init PROVE WInv
  OBVIOUS
<1>1. \A t \in Traces : t \in Seq(Span)
  BY DiffAssumption DEF Traces
<1>2. a \in Seq(Span) /\ b \in Seq(Span)
  BY <1>1 DEF Init
<1>3. Len(a) \in Nat /\ Len(b) \in Nat
  BY <1>2, LenProperties
<1>4. out = <<>> /\ i = 1 /\ j = 1
  BY DEF Init
<1>5. out \in Seq(Pair) /\ Len(out) = 0
  BY <1>4
<1> QED BY <1>2, <1>3, <1>4, <1>5 DEF WInv, TypeOK, InStep

\* One more pair: what was split stays split, and what was in step is, or splits here.
LEMMA OneMorePair ==
  ASSUME WInv, UNCHANGED <<a, b>>, NEW p \in Pair, out' = Append(out, p),
         i' \in 1..(Len(a) + 1), j' \in 1..(Len(b) + 1),
         i = Len(out) + 1 /\ j = Len(out) + 1 =>
           \/ p.kind = "equal" /\ Same(i) /\ i' = i + 1 /\ j' = j + 1
           \/ p.kind # "equal" /\ ~Same(i) /\ (i <= Len(a) \/ i <= Len(b))
  PROVE  WInv'
<1>1. /\ out' \in Seq(Pair) /\ Len(out') = Len(out) + 1 /\ Len(out) \in Nat
      /\ \A n \in 1..Len(out) : out'[n] = out[n]
      /\ out'[Len(out) + 1] = p
  BY AppendProperties, LenProperties DEF WInv, TypeOK
<1>2. TypeOK'
  BY <1>1 DEF WInv, TypeOK
<1>3. PICK m \in Nat : m = Len(out) + 1
  BY <1>1
<1>4. /\ \A n \in 1..Len(out) : Equal(n)' <=> Equal(n)
      /\ \A n : Same(n)' <=> Same(n)
      /\ Equal(m)' <=> p.kind = "equal"
      /\ 1..Len(out') = 1..m /\ 1..(m - 1) = 1..Len(out) /\ m \in 1..m
      /\ \A n \in 1..m : n \in 1..Len(out) \/ n = m
  BY <1>1, <1>3 DEF Equal, Same
<1>5. CASE \E n \in 1..Len(out) : SplitAt(n)
  <2>1. PICK n \in 1..Len(out) : SplitAt(n)
    BY <1>5
  <2>2. n \in 1..Len(out') /\ \A k \in 1..(n - 1) : k \in 1..Len(out)
    BY <1>1
  <2>3. SplitAt(n)'
    BY <1>4, <2>1, <2>2 DEF SplitAt
  <2> QED BY <1>2, <2>2, <2>3 DEF WInv
<1>6. CASE InStep
  <2>1. i = m /\ j = m /\ \A n \in 1..Len(out) : Equal(n)' /\ Same(n)'
    BY <1>3, <1>4, <1>6 DEF InStep
  <2>2. CASE p.kind = "equal" /\ Same(i) /\ i' = i + 1 /\ j' = j + 1
    <3>1. i' = Len(out') + 1 /\ j' = Len(out') + 1
      BY <1>1, <1>3, <2>1, <2>2
    <3>2. Equal(m)' /\ Same(m)'
      BY <1>4, <2>1, <2>2
    <3>3. \A n \in 1..Len(out') : Equal(n)' /\ Same(n)'
      BY <1>4, <2>1, <3>2
    <3>4. InStep'
      BY <3>1, <3>3 DEF InStep
    <3> QED BY <1>2, <3>4 DEF WInv
  <2>3. CASE p.kind # "equal" /\ ~Same(i) /\ (i <= Len(a) \/ i <= Len(b))
    <3>1. ~(Equal(m)') /\ ~(Same(m)') /\ (m <= Len(a') \/ m <= Len(b'))
      BY <1>4, <2>1, <2>3
    <3>2. \A k \in 1..(m - 1) : Equal(k)' /\ Same(k)'
      BY <1>4, <2>1
    <3>3. SplitAt(m)'
      BY <3>1, <3>2 DEF SplitAt
    <3> QED BY <1>2, <1>4, <3>3 DEF WInv
  <2> QED BY <1>3, <2>1, <2>2, <2>3
<1> QED BY <1>5, <1>6 DEF WInv

\* Every step of the walk keeps it.
LEMMA NextWInv == WInv /\ [Next]_vars => WInv'
<1> SUFFICES ASSUME WInv, [Next]_vars PROVE WInv'
  OBVIOUS
<1>1. /\ Len(a) \in Nat /\ Len(b) \in Nat
      /\ i \in 1..(Len(a) + 1) /\ j \in 1..(Len(b) + 1)
      /\ \A n \in 1..Len(a) : a[n] \in Span
      /\ \A n \in 1..Len(b) : b[n] \in Span
  BY LenProperties DEF WInv, TypeOK
<1>2. CASE Align
  <2> DEFINE p == [kind |-> IF Diverged(a[i], b[j]) THEN "changed" ELSE "equal",
                   a |-> a[i], b |-> b[j]]
  <2>1. /\ i <= Len(a) /\ j <= Len(b) /\ a[i].key = b[j].key
        /\ i' = i + 1 /\ j' = j + 1 /\ UNCHANGED <<a, b>> /\ out' = Append(out, p)
    BY <1>2 DEF Align, Aligned, Both, SameKey
  <2>2. p \in Pair
    BY <1>1, <2>1 DEF Pair, Kinds
  <2>3. p.kind = "equal" <=> a[i].content = b[j].content
    BY DEF Diverged
  <2>4. i' \in 1..(Len(a) + 1) /\ j' \in 1..(Len(b) + 1)
    BY <1>1, <2>1
  <2> HIDE DEF p
  <2> QED BY <2>1, <2>2, <2>3, <2>4, OneMorePair DEF Same
<1>3. CASE RemoveSpan
  <2> DEFINE p == [kind |-> "removed", a |-> a[i], b |-> None]
  <2>1. /\ i <= Len(a) /\ ~(j <= Len(b) /\ a[i].key = b[j].key)
        /\ i' = i + 1 /\ UNCHANGED <<a, b, j>> /\ out' = Append(out, p)
    BY <1>3 DEF RemoveSpan, Aligned, Both, SameKey
  <2>2. p \in Pair /\ p.kind # "equal"
    BY <1>1, <2>1 DEF Pair, Kinds
  <2>3. i' \in 1..(Len(a) + 1) /\ j' \in 1..(Len(b) + 1)
    BY <1>1, <2>1
  <2> HIDE DEF p
  <2> QED BY <2>1, <2>2, <2>3, OneMorePair DEF Same
<1>4. CASE AddSpan
  <2> DEFINE p == [kind |-> "added", a |-> None, b |-> b[j]]
  <2>1. /\ j <= Len(b) /\ ~(i <= Len(a) /\ a[i].key = b[j].key)
        /\ j' = j + 1 /\ UNCHANGED <<a, b, i>> /\ out' = Append(out, p)
    BY <1>4 DEF AddSpan, Aligned, Both, SameKey
  <2>2. p \in Pair /\ p.kind # "equal"
    BY <1>1, <2>1 DEF Pair, Kinds
  <2>3. i' \in 1..(Len(a) + 1) /\ j' \in 1..(Len(b) + 1)
    BY <1>1, <2>1
  <2> HIDE DEF p
  <2> QED BY <2>1, <2>2, <2>3, OneMorePair DEF Same
<1>5. CASE UNCHANGED vars
  BY <1>5 DEF vars, WInv, TypeOK, InStep, SplitAt, Equal, Same
<1> QED BY <1>2, <1>3, <1>4, <1>5 DEF Next, Done

\* The walk stays within the traces and its pairs are pairs.
THEOREM WalkTypeCorrect == Spec => []TypeOK
<1>1. WInv => TypeOK
  BY DEF WInv
<1> QED BY <1>1, InitWInv, NextWInv, PTL DEF Spec

\* When the walk has ended the first divergence is the first place where the traces
\* differ in more than replay bookkeeping, and there is none if they do not
\* (lib.rs:34-38, 127-129).
THEOREM DivergenceIsTheChange == Spec => []DivergesAtTheChange
<1>1. WInv => DivergesAtTheChange
  <2> SUFFICES ASSUME WInv, Ended PROVE DivergesAtTheChange
    BY DEF DivergesAtTheChange
  <2> DEFINE places == 1..(IF Len(a) > Len(b) THEN Len(a) ELSE Len(b))
  <2>1. /\ Len(a) \in Nat /\ Len(b) \in Nat /\ Len(out) \in Nat
        /\ i \in 1..(Len(a) + 1) /\ j \in 1..(Len(b) + 1) /\ i > Len(a) /\ j > Len(b)
    BY LenProperties DEF WInv, TypeOK, Ended
  <2>2. SUFFICES IF \A n \in places : Same(n) THEN FirstDivergence = None
                 ELSE /\ FirstDivergence \in places /\ ~Same(FirstDivergence)
                      /\ \A n \in 1..(FirstDivergence - 1) : Same(n)
    BY DEF DivergesAtTheChange, Same
  <2>3. CASE InStep
    <3>1. Differing = {}
      BY <2>3 DEF InStep, Differing, Equal
    <3>2. places = 1..Len(out)
      BY <2>1, <2>3 DEF InStep
    <3>3. \A n \in places : Same(n)
      BY <2>3, <3>2 DEF InStep
    <3> QED BY <3>1, <3>3 DEF FirstDivergence
  <2>4. CASE \E n \in 1..Len(out) : SplitAt(n)
    <3>1. PICK n \in 1..Len(out) : SplitAt(n)
      BY <2>4
    <3>2. /\ n \in Differing
          /\ \A k \in Differing : k \in Nat /\ n <= k
      BY <2>1, <3>1 DEF SplitAt, Differing, Equal
    <3>3. \A m \in Differing : (\A k \in Differing : m <= k) => m = n
      BY <2>1, <3>2 DEF Differing
    <3>4. FirstDivergence = n
      BY <3>2, <3>3 DEF FirstDivergence
    <3>5. n \in places
      BY <2>1, <3>1 DEF SplitAt
    <3> QED BY <3>1, <3>4, <3>5 DEF SplitAt
  <2> QED BY <2>3, <2>4 DEF WInv
<1> QED BY <1>1, InitWInv, NextWInv, PTL DEF Spec

-----------------------------------------------------------------------------
(* Induction *)

\* The least number principle, from that strict subsets of finite sets are well-founded.
\* What a recursive definition computes is proved from it: there is no least number for
\* which a claim fails.
LEMMA LeastNumber ==
  ASSUME NEW T, T \subseteq Nat, T # {}
  PROVE  \E x \in T : \A y \in T : x <= y
<1> DEFINE S == {0..n : n \in T}
<1>1. ASSUME NEW n \in T PROVE 0..n \in FiniteSubsetsOf(Nat)
  <2>1. n \in Nat /\ IsFiniteSet(0..n)
    BY FS_Interval
  <2> QED BY <2>1 DEF FiniteSubsetsOf
<1>2. S \subseteq FiniteSubsetsOf(Nat) /\ S # {}
  BY <1>1
<1>3. PICK X \in S : \A Y \in S : ~(<<Y, X>> \in StrictSubsetOrdering(Nat))
  <2> HIDE DEF S
  <2> QED BY <1>2, FS_StrictSubsetOrderingWellFounded, WFMin
<1>4. PICK x \in T : X = 0..x
  BY <1>3
<1>5. ASSUME NEW y \in T PROVE x <= y
  <2>1. SUFFICES ASSUME y < x PROVE FALSE
    OBVIOUS
  <2>2. 0..y \subseteq 0..x /\ x \in 0..x /\ x \notin 0..y /\ 0..x \subseteq Nat
    BY <2>1
  <2>3. <<0..y, X>> \in StrictSubsetOrdering(Nat)
    BY <1>4, <2>2 DEF StrictSubsetOrdering
  <2> QED BY <1>3, <2>3
<1> QED BY <1>5

-----------------------------------------------------------------------------
(* The table *)

Rows   == 1..(Len(a) + 1)
Cols   == 1..(Len(b) + 1)
Tables == [Rows -> [Cols -> Nat]]

\* What the entry for the rests from x and y on is computed to be from those after it.
Cell(f, x, y) ==
  IF x > Len(a) \/ y > Len(b) THEN 0
  ELSE IF SameKey(a[x], b[y]) THEN f[x + 1][y + 1] + 1
  ELSE IF f[x + 1][y] >= f[x][y + 1] THEN f[x + 1][y] ELSE f[x][y + 1]

IsTable(f) == f = [x \in Rows |-> [y \in Cols |-> Cell(f, x, y)]]

\* How many spans the rests from x and from y on have.
Rest(x, y) == (Len(a) + 1 - x) + (Len(b) + 1 - y)

\* The entries for fewer than n spans are right.
FilledTo(f, n) ==
  f \in Tables /\ \A x \in Rows, y \in Cols : Rest(x, y) < n => f[x][y] = Cell(f, x, y)

\* There are fewer of them one place on.
LEMMA RestShrinks ==
  ASSUME a \in Seq(Span), b \in Seq(Span), NEW x \in Rows, NEW y \in Cols
  PROVE  /\ Rest(x, y) \in Nat
         /\ Rest(x + 1, y + 1) < Rest(x, y)
         /\ Rest(x + 1, y) < Rest(x, y)
         /\ Rest(x, y + 1) < Rest(x, y)
<1>1. Len(a) \in Nat /\ Len(b) \in Nat
  BY LenProperties
<1> QED BY <1>1 DEF Rest, Rows, Cols

\* An entry is a number.
LEMMA CellType ==
  ASSUME a \in Seq(Span), b \in Seq(Span), NEW f \in Tables, NEW x \in Rows, NEW y \in Cols
  PROVE  Cell(f, x, y) \in Nat
<1>1. Len(a) \in Nat /\ Len(b) \in Nat
  BY LenProperties
<1>2. \A p \in Rows, q \in Cols : f[p][q] \in Nat
  BY DEF Tables
<1>3. CASE x > Len(a) \/ y > Len(b)
  BY <1>3 DEF Cell
<1>4. CASE ~(x > Len(a) \/ y > Len(b))
  <2>1. x + 1 \in Rows /\ y + 1 \in Cols
    BY <1>1, <1>4 DEF Rows, Cols
  <2>2. f[x + 1][y + 1] \in Nat /\ f[x + 1][y] \in Nat /\ f[x][y + 1] \in Nat
    BY <1>2, <2>1
  <2> QED BY <1>4, <2>2 DEF Cell
<1> QED BY <1>3, <1>4

\* It depends on entries for fewer spans only.
LEMMA CellOfFewer ==
  ASSUME a \in Seq(Span), b \in Seq(Span), NEW f \in Tables, NEW g \in Tables,
         NEW x \in Rows, NEW y \in Cols,
         \A p \in Rows, q \in Cols : Rest(p, q) < Rest(x, y) => f[p][q] = g[p][q]
  PROVE  Cell(f, x, y) = Cell(g, x, y)
<1>1. Len(a) \in Nat /\ Len(b) \in Nat
  BY LenProperties
<1>2. CASE x > Len(a) \/ y > Len(b)
  BY <1>2 DEF Cell
<1>3. CASE ~(x > Len(a) \/ y > Len(b))
  <2>1. x + 1 \in Rows /\ y + 1 \in Cols
    BY <1>1, <1>3 DEF Rows, Cols
  <2>2. /\ Rest(x + 1, y + 1) < Rest(x, y) /\ Rest(x + 1, y) < Rest(x, y)
        /\ Rest(x, y + 1) < Rest(x, y)
    BY <1>1 DEF Rows, Cols, Rest
  <2>3. f[x + 1][y + 1] = g[x + 1][y + 1] /\ f[x + 1][y] = g[x + 1][y] /\ f[x][y + 1] = g[x][y + 1]
    BY <2>1, <2>2
  <2> QED BY <1>3, <2>3 DEF Cell
<1> QED BY <1>2, <1>3

\* A table that is right for fewer than n spans can be made right for n.
LEMMA FillOneMore ==
  ASSUME a \in Seq(Span), b \in Seq(Span), NEW n \in Nat, NEW f, FilledTo(f, n)
  PROVE  \E g : FilledTo(g, n + 1)
<1> DEFINE g == [x \in Rows |-> [y \in Cols |-> IF Rest(x, y) = n THEN Cell(f, x, y) ELSE f[x][y]]]
<1>1. /\ Len(a) \in Nat /\ Len(b) \in Nat /\ f \in Tables
      /\ \A x \in Rows, y \in Cols : Rest(x, y) \in Nat /\ f[x][y] \in Nat
  <2>1. Len(a) \in Nat /\ Len(b) \in Nat /\ f \in Tables
    BY LenProperties DEF FilledTo
  <2>2. \A x \in Rows, y \in Cols : Rest(x, y) \in Nat
    BY <2>1 DEF Rest, Rows, Cols
  <2>3. \A x \in Rows, y \in Cols : f[x][y] \in Nat
    BY <2>1 DEF Tables
  <2> QED BY <2>1, <2>2, <2>3
<1>2. \A x \in Rows, y \in Cols : Cell(f, x, y) \in Nat
  BY <1>1, CellType
<1>3. g \in Tables
  BY <1>1, <1>2 DEF Tables
<1>4. \A x \in Rows, y \in Cols :
         g[x][y] = IF Rest(x, y) = n THEN Cell(f, x, y) ELSE f[x][y]
  OBVIOUS
<1> HIDE DEF g
<1>5. ASSUME NEW x \in Rows, NEW y \in Cols, Rest(x, y) < n + 1
      PROVE  g[x][y] = Cell(g, x, y)
  <2>1. \A p \in Rows, q \in Cols : Rest(p, q) < Rest(x, y) => f[p][q] = g[p][q]
    BY <1>1, <1>4, <1>5
  <2>2. Cell(f, x, y) = Cell(g, x, y)
    BY <1>1, <1>3, <2>1, CellOfFewer
  <2>3. CASE Rest(x, y) = n
    BY <1>4, <2>2, <2>3
  <2>4. CASE Rest(x, y) < n
    BY <1>1, <1>4, <2>2, <2>4 DEF FilledTo
  <2> QED BY <1>1, <1>5, <2>3, <2>4
<1>6. FilledTo(g, n + 1)
  BY <1>3, <1>5 DEF FilledTo
<1> QED BY <1>6

\* So there is a table that is right everywhere ...
LEMMA TableExists ==
  ASSUME a \in Seq(Span), b \in Seq(Span)
  PROVE  \E f : IsTable(f)
<1>1. Len(a) \in Nat /\ Len(b) \in Nat
  BY LenProperties
<1> DEFINE Unfilled == {n \in Nat : ~\E f : FilledTo(f, n)}
<1>2. Unfilled = {}
  <2>1. SUFFICES ASSUME Unfilled # {} PROVE FALSE
    OBVIOUS
  <2>2. PICK n \in Unfilled : \A m \in Unfilled : n <= m
    <3>1. Unfilled \subseteq Nat
      OBVIOUS
    <3> HIDE DEF Unfilled
    <3> QED BY <2>1, <3>1, LeastNumber
  <2>3. n # 0
    <3> DEFINE f == [x \in Rows |-> [y \in Cols |-> 0]]
    <3>1. f \in Tables
      BY DEF Tables
    <3>2. \A x \in Rows, y \in Cols : Rest(x, y) >= 0
      BY <1>1 DEF Rest, Rows, Cols
    <3>3. \A x \in Rows, y \in Cols : ~(Rest(x, y) < 0)
      BY <1>1, <3>2 DEF Rest, Rows, Cols
    <3> HIDE DEF f
    <3>4. FilledTo(f, 0)
      BY <3>1, <3>3 DEF FilledTo
    <3> QED BY <3>4
  <2>4. n - 1 \in Nat /\ (n - 1) + 1 = n /\ ~(n <= n - 1)
    BY <2>3
  <2>5. PICK f : FilledTo(f, n - 1)
    BY <2>2, <2>4
  <2>6. \E g : FilledTo(g, n)
    BY <2>4, <2>5, FillOneMore
  <2> QED BY <2>6
<1>3. PICK f : FilledTo(f, Len(a) + Len(b) + 1)
  <2>1. Len(a) + Len(b) + 1 \in Nat
    BY <1>1
  <2> QED BY <1>2, <2>1
<1>4. \A x \in Rows, y \in Cols : f[x][y] = Cell(f, x, y)
  <2>1. \A x \in Rows, y \in Cols : Rest(x, y) < Len(a) + Len(b) + 1
    BY <1>1 DEF Rest, Rows, Cols
  <2> QED BY <1>3, <2>1 DEF FilledTo
<1>5. f = [x \in Rows |-> [y \in Cols |-> f[x][y]]]
  BY <1>3 DEF FilledTo, Tables
<1>6. f = [x \in Rows |-> [y \in Cols |-> Cell(f, x, y)]]
  BY <1>4, <1>5
<1> QED BY <1>6 DEF IsTable

\* ... and dp is one, with the entries that its recursion says.
LEMMA TableFilled ==
  ASSUME a \in Seq(Span), b \in Seq(Span)
  PROVE  /\ \A x \in Rows, y \in Cols : dp[x][y] = Cell(dp, x, y)
         /\ dp \in Tables
<1>1. dp = CHOOSE f : IsTable(f)
  BY DEF dp, IsTable, Cell, Rows, Cols
<1>2. IsTable(dp)
  BY <1>1, TableExists
<1>3. dp = [x \in Rows |-> [y \in Cols |-> Cell(dp, x, y)]]
  BY <1>2 DEF IsTable
<1>4. \A x \in Rows, y \in Cols : dp[x][y] = Cell(dp, x, y)
  BY <1>3
<1>5. Len(a) \in Nat /\ Len(b) \in Nat
  BY LenProperties
<1> DEFINE Wrong == {n \in Nat : \E x \in Rows, y \in Cols : Rest(x, y) = n /\ dp[x][y] \notin Nat}
<1>6. Wrong = {}
  <2>1. SUFFICES ASSUME Wrong # {} PROVE FALSE
    OBVIOUS
  <2>2. PICK n \in Wrong : \A m \in Wrong : n <= m
    <3>1. Wrong \subseteq Nat
      OBVIOUS
    <3> HIDE DEF Wrong
    <3> QED BY <2>1, <3>1, LeastNumber
  <2>3. PICK x \in Rows, y \in Cols : Rest(x, y) = n /\ dp[x][y] \notin Nat
    BY <2>2
  <2>4. ASSUME NEW p \in Rows, NEW q \in Cols, Rest(p, q) < n
        PROVE  dp[p][q] \in Nat
    <3>1. Rest(p, q) \in Nat /\ ~(n <= Rest(p, q))
      BY <1>5, <2>4 DEF Rest, Rows, Cols
    <3>2. Rest(p, q) \notin Wrong
      BY <2>2, <3>1
    <3> QED BY <3>1, <3>2
  <2>5. CASE x > Len(a) \/ y > Len(b)
    BY <1>4, <2>3, <2>5 DEF Cell
  <2>6. CASE ~(x > Len(a) \/ y > Len(b))
    <3>1. x + 1 \in Rows /\ y + 1 \in Cols
      BY <1>5, <2>6 DEF Rows, Cols
    <3>2. Rest(x + 1, y + 1) < n /\ Rest(x + 1, y) < n /\ Rest(x, y + 1) < n
      BY <1>5, <2>3 DEF Rest, Rows, Cols
    <3>3. dp[x + 1][y + 1] \in Nat /\ dp[x + 1][y] \in Nat /\ dp[x][y + 1] \in Nat
      BY <2>4, <3>1, <3>2
    <3>4. Cell(dp, x, y) \in Nat
      BY <2>6, <3>3 DEF Cell
    <3> QED BY <1>4, <2>3, <3>4
  <2> QED BY <2>5, <2>6
<1>7. ASSUME NEW x \in Rows, NEW y \in Cols PROVE dp[x][y] \in Nat
  <2>1. Rest(x, y) \in Nat
    BY <1>5 DEF Rest, Rows, Cols
  <2>2. Rest(x, y) \notin Wrong
    BY <1>6
  <2> QED BY <2>1, <2>2
<1>8. dp = [x \in Rows |-> [y \in Cols |-> dp[x][y]]]
  BY <1>3, <1>4
<1>9. dp \in Tables
  BY <1>7, <1>8 DEF Tables
<1> QED BY <1>4, <1>9

\* A common subsequence of n spans of the rests from x and from y on.
CommonFrom(n, x, y) == \E f \in [1..n -> x..Len(a)], g \in [1..n -> y..Len(b)] :
  /\ \A k \in 1..n : SameKey(a[f[k]], b[g[k]])
  /\ \A k, l \in 1..n : k < l => f[k] < f[l] /\ g[k] < g[l]

\* One that has a span for which fewer follow is one of the rests after it.
LEMMA CommonOfFewer ==
  ASSUME a \in Seq(Span), b \in Seq(Span), NEW x \in Rows, NEW y \in Cols,
         NEW n \in Nat, n # 0, CommonFrom(n, x, y)
  PROVE  /\ x <= Len(a) /\ y <= Len(b)
         /\ CommonFrom(n - 1, x + 1, y + 1)
         /\ ~SameKey(a[x], b[y]) => CommonFrom(n, x + 1, y) \/ CommonFrom(n, x, y + 1)
<1>1. Len(a) \in Nat /\ Len(b) \in Nat /\ x \in Nat /\ y \in Nat
  BY LenProperties DEF Rows, Cols
<1>2. PICK f \in [1..n -> x..Len(a)], g \in [1..n -> y..Len(b)] :
         /\ \A k \in 1..n : SameKey(a[f[k]], b[g[k]])
         /\ \A k, l \in 1..n : k < l => f[k] < f[l] /\ g[k] < g[l]
  BY DEF CommonFrom
<1>3. 1 \in 1..n /\ f[1] \in x..Len(a) /\ g[1] \in y..Len(b)
  BY <1>2
<1>4. x <= Len(a) /\ y <= Len(b)
  BY <1>1, <1>3
<1>5. CommonFrom(n - 1, x + 1, y + 1)
  <2> DEFINE F == [k \in 1..(n - 1) |-> f[k + 1]]
             G == [k \in 1..(n - 1) |-> g[k + 1]]
  <2>1. \A k \in 1..(n - 1) : k + 1 \in 1..n /\ 1 < k + 1
    OBVIOUS
  <2>2. \A k \in 1..(n - 1) : /\ f[k + 1] \in x..Len(a) /\ f[1] < f[k + 1]
                              /\ g[k + 1] \in y..Len(b) /\ g[1] < g[k + 1]
    BY <1>2, <1>3, <2>1
  <2>3. \A k \in 1..(n - 1) : f[k + 1] \in (x + 1)..Len(a) /\ g[k + 1] \in (y + 1)..Len(b)
    BY <1>1, <1>3, <2>2
  <2>4. F \in [1..(n - 1) -> (x + 1)..Len(a)] /\ G \in [1..(n - 1) -> (y + 1)..Len(b)]
    BY <2>3
  <2>5. \A k \in 1..(n - 1) : F[k] = f[k + 1] /\ G[k] = g[k + 1]
    OBVIOUS
  <2> HIDE DEF F, G
  <2>6. \A k \in 1..(n - 1) : SameKey(a[F[k]], b[G[k]])
    BY <1>2, <2>1, <2>5
  <2>7. \A k, l \in 1..(n - 1) : k < l => F[k] < F[l] /\ G[k] < G[l]
    <3>1. \A k, l \in 1..(n - 1) : k < l => k + 1 < l + 1
      OBVIOUS
    <3> QED BY <1>2, <2>1, <2>5, <3>1
  <2> QED BY <2>4, <2>6, <2>7 DEF CommonFrom
<1>6. ASSUME ~SameKey(a[x], b[y])
      PROVE  CommonFrom(n, x + 1, y) \/ CommonFrom(n, x, y + 1)
  <2>1. f[1] # x \/ g[1] # y
    BY <1>2, <1>3, <1>6
  <2>2. \A k \in 1..n : /\ f[k] \in x..Len(a) /\ f[1] <= f[k]
                        /\ g[k] \in y..Len(b) /\ g[1] <= g[k]
    <3>1. SUFFICES ASSUME NEW k \in 1..n
                   PROVE  /\ f[k] \in x..Len(a) /\ f[1] <= f[k]
                          /\ g[k] \in y..Len(b) /\ g[1] <= g[k]
      OBVIOUS
    <3>2. f[k] \in x..Len(a) /\ g[k] \in y..Len(b)
      BY <1>2
    <3>3. CASE k = 1
      BY <1>1, <3>2, <3>3
    <3>4. CASE 1 < k
      BY <1>1, <1>2, <1>3, <3>2, <3>4
    <3> QED BY <3>3, <3>4
  <2>3. CASE f[1] # x
    <3>1. \A k \in 1..n : f[k] \in (x + 1)..Len(a)
      BY <1>1, <1>3, <2>2, <2>3
    <3>2. f \in [1..n -> (x + 1)..Len(a)]
      BY <1>2, <3>1
    <3> QED BY <1>2, <3>2 DEF CommonFrom
  <2>4. CASE g[1] # y
    <3>1. \A k \in 1..n : g[k] \in (y + 1)..Len(b)
      BY <1>1, <1>3, <2>2, <2>4
    <3>2. g \in [1..n -> (y + 1)..Len(b)]
      BY <1>2, <3>1
    <3> QED BY <1>2, <3>2 DEF CommonFrom
  <2> QED BY <2>1, <2>3, <2>4
<1> QED BY <1>4, <1>5, <1>6

\* No common subsequence is longer than the table says.
LEMMA NoneIsLonger ==
  ASSUME a \in Seq(Span), b \in Seq(Span)
  PROVE  \A n \in Nat, x \in Rows, y \in Cols : CommonFrom(n, x, y) => n <= dp[x][y]
<1> DEFINE Long(x, y) == \E n \in Nat : CommonFrom(n, x, y) /\ ~(n <= dp[x][y])
           Wrong == {m \in Nat : \E x \in Rows, y \in Cols : Rest(x, y) = m /\ Long(x, y)}
<1>1. /\ Len(a) \in Nat /\ Len(b) \in Nat
      /\ \A x \in Rows, y \in Cols : Rest(x, y) \in Nat
      /\ \A x \in Rows, y \in Cols : dp[x][y] = Cell(dp, x, y)
      /\ \A x \in Rows, y \in Cols : dp[x][y] \in Nat
  <2>1. Len(a) \in Nat /\ Len(b) \in Nat
    BY LenProperties
  <2>2. \A x \in Rows, y \in Cols : Rest(x, y) \in Nat
    BY <2>1 DEF Rest, Rows, Cols
  <2>3. \A x \in Rows, y \in Cols : dp[x][y] \in Nat
    BY TableFilled DEF Tables
  <2> QED BY <2>1, <2>2, <2>3, TableFilled
<1>2. Wrong = {}
  <2>1. SUFFICES ASSUME Wrong # {} PROVE FALSE
    OBVIOUS
  <2>2. PICK m \in Wrong : \A k \in Wrong : m <= k
    <3>1. Wrong \subseteq Nat
      OBVIOUS
    <3> HIDE DEF Wrong
    <3> QED BY <2>1, <3>1, LeastNumber
  <2>3. PICK x \in Rows, y \in Cols : Rest(x, y) = m /\ Long(x, y)
    BY <2>2
  <2>4. PICK n \in Nat : CommonFrom(n, x, y) /\ ~(n <= dp[x][y])
    BY <2>3
  <2>5. ASSUME NEW p \in Rows, NEW q \in Cols, Rest(p, q) < m, NEW k \in Nat, CommonFrom(k, p, q)
        PROVE  k <= dp[p][q]
    <3>1. Rest(p, q) \in Nat /\ ~(m <= Rest(p, q))
      BY <1>1, <2>5
    <3>2. Rest(p, q) \notin Wrong
      BY <2>2, <3>1
    <3>3. ~Long(p, q)
      BY <3>1, <3>2
    <3> QED BY <2>5, <3>3
  <2>6. n # 0
    BY <1>1, <2>4
  <2>7. /\ x <= Len(a) /\ y <= Len(b)
        /\ CommonFrom(n - 1, x + 1, y + 1)
        /\ ~SameKey(a[x], b[y]) => CommonFrom(n, x + 1, y) \/ CommonFrom(n, x, y + 1)
    BY <2>4, <2>6, CommonOfFewer
  <2>8. x + 1 \in Rows /\ y + 1 \in Cols
    BY <1>1, <2>7 DEF Rows, Cols
  <2>9. Rest(x + 1, y + 1) < m /\ Rest(x + 1, y) < m /\ Rest(x, y + 1) < m
    BY <2>3, RestShrinks
  <2>10. ~(x > Len(a) \/ y > Len(b))
    <3>1. Len(a) \in Nat /\ Len(b) \in Nat
      BY LenProperties
    <3>2. x \in Nat /\ y \in Nat
      BY <3>1 DEF Rows, Cols
    <3> QED BY <2>7, <3>1, <3>2
  <2>11. dp[x + 1][y + 1] \in Nat /\ dp[x + 1][y] \in Nat /\ dp[x][y + 1] \in Nat /\ dp[x][y] \in Nat
    BY <1>1, <2>8
  <2>12. CASE SameKey(a[x], b[y])
    <3>1. dp[x][y] = dp[x + 1][y + 1] + 1
      BY <1>1, <2>10, <2>12 DEF Cell
    <3>2. n - 1 \in Nat
      BY <2>6
    <3>3. n - 1 <= dp[x + 1][y + 1]
      BY <2>5, <2>7, <2>8, <2>9, <3>2
    <3> QED BY <2>4, <2>11, <3>1, <3>3
  <2>13. CASE ~SameKey(a[x], b[y])
    <3>1. dp[x][y] = IF dp[x + 1][y] >= dp[x][y + 1] THEN dp[x + 1][y] ELSE dp[x][y + 1]
      BY <1>1, <2>10, <2>13 DEF Cell
    <3>2. n <= dp[x + 1][y] \/ n <= dp[x][y + 1]
      BY <2>5, <2>7, <2>8, <2>9, <2>13
    <3> QED BY <2>4, <2>11, <3>1, <3>2
  <2> QED BY <2>12, <2>13
<1>3. ASSUME NEW n \in Nat, NEW x \in Rows, NEW y \in Cols, CommonFrom(n, x, y)
      PROVE  n <= dp[x][y]
  <2>1. Rest(x, y) \in Nat /\ Rest(x, y) \notin Wrong
    BY <1>1, <1>2
  <2>2. ~Long(x, y)
    BY <2>1
  <2> QED BY <1>3, <2>2
<1> QED BY <1>3

-----------------------------------------------------------------------------
(* The walk follows the table *)

\* The pairs that align two spans.
Matched == {n \in 1..Len(out) : out[n].kind \in {"equal", "changed"}}

\* The pairs so far are an alignment of what was walked, and a best one of all can follow.
BInv ==
  /\ WInv
  /\ NothingIsLost
  /\ \A n \in Matched : SameKey(out[n].a, out[n].b)
  /\ Cardinality(Matched) + dp[i][j] = dp[1][1]

\* The table is the same for the same traces.
LEMMA TableStays == UNCHANGED <<a, b>> => dp' = dp
  BY DEF dp

\* Sets of places in out are finite.
LEMMA PlacesFinite ==
  ASSUME NEW n \in Nat
  PROVE  IsFiniteSet(Left(n)) /\ IsFiniteSet(Right(n))
<1>1. IsFiniteSet(1..n)
  BY FS_Interval
<1> QED BY <1>1, FS_Subset DEF Left, Right

\* What one more pair does to the sides.
LEMMA SidesGrow ==
  ASSUME out \in Seq(Pair), NEW p \in Pair, out' = Append(out, p), NEW m, m = Len(out) + 1
  PROVE  /\ Len(out) \in Nat /\ m \in Nat /\ out' \in Seq(Pair) /\ Len(out') = m /\ out'[m] = p
         /\ \A n \in 1..Len(out) : /\ out'[n] = out[n]
                                   /\ Left(n)' = Left(n) /\ Right(n)' = Right(n)
         /\ Left(m)' = IF p.kind = "added" THEN Left(Len(out)) ELSE Left(Len(out)) \cup {m}
         /\ Right(m)' = IF p.kind = "removed" THEN Right(Len(out)) ELSE Right(Len(out)) \cup {m}
         /\ Matched' = IF p.kind \in {"equal", "changed"} THEN Matched \cup {m} ELSE Matched
<1>1. /\ Len(out) \in Nat /\ m \in Nat /\ out' \in Seq(Pair) /\ Len(out') = m /\ out'[m] = p
      /\ \A n \in 1..Len(out) : out'[n] = out[n]
  BY AppendProperties, LenProperties
<1>2. /\ \A n \in 1..Len(out) : 1..n \subseteq 1..Len(out)
      /\ 1..m = 1..Len(out) \cup {m} /\ m \notin 1..Len(out)
  BY <1>1
<1>3. ASSUME NEW n \in 1..Len(out)
      PROVE  Left(n)' = Left(n) /\ Right(n)' = Right(n)
  BY <1>1, <1>2 DEF Left, Right
<1>4. Left(m)' = IF p.kind = "added" THEN Left(Len(out)) ELSE Left(Len(out)) \cup {m}
  BY <1>1, <1>2 DEF Left
<1>5. Right(m)' = IF p.kind = "removed" THEN Right(Len(out)) ELSE Right(Len(out)) \cup {m}
  BY <1>1, <1>2 DEF Right
<1>6. Matched' = IF p.kind \in {"equal", "changed"} THEN Matched \cup {m} ELSE Matched
  BY <1>1, <1>2 DEF Matched
<1> QED BY <1>1, <1>3, <1>4, <1>5, <1>6

\* One more pair, with the next span of one trace or of both, is one more of an alignment.
LEMMA OneMoreAligned ==
  ASSUME TypeOK, NothingIsLost, UNCHANGED <<a, b>>, NEW p \in Pair, out' = Append(out, p),
         IF p.kind = "added" THEN i' = i ELSE i' = i + 1 /\ p.a = a[i],
         IF p.kind = "removed" THEN j' = j ELSE j' = j + 1 /\ p.b = b[j]
  PROVE  NothingIsLost'
<1>0. PICK m : m = Len(out) + 1
  OBVIOUS
<1>1. /\ Len(out) \in Nat /\ Len(out') = m /\ out'[m] = p /\ m \in Nat
      /\ \A n \in 1..Len(out) : /\ out'[n] = out[n]
                                /\ Left(n)' = Left(n) /\ Right(n)' = Right(n)
      /\ Left(m)' = IF p.kind = "added" THEN Left(Len(out)) ELSE Left(Len(out)) \cup {m}
      /\ Right(m)' = IF p.kind = "removed" THEN Right(Len(out)) ELSE Right(Len(out)) \cup {m}
  <2>1. out \in Seq(Pair)
    BY DEF TypeOK
  <2> QED BY <1>0, <2>1, SidesGrow
<1>2. /\ m \notin Left(Len(out)) /\ m \notin Right(Len(out))
      /\ IsFiniteSet(Left(Len(out))) /\ IsFiniteSet(Right(Len(out)))
      /\ \A n \in Left(Len(out)) \cup Right(Len(out)) : n \in 1..Len(out)
  <2>1. m \notin 1..Len(out)
    BY <1>0, <1>1
  <2>2. Left(Len(out)) \subseteq 1..Len(out) /\ Right(Len(out)) \subseteq 1..Len(out)
    BY DEF Left, Right
  <2> QED BY <1>1, <2>1, <2>2, PlacesFinite
<1>3. i \in Nat /\ j \in Nat
  <2>1. Len(a) \in Nat /\ Len(b) \in Nat
    BY LenProperties DEF TypeOK
  <2> QED BY <2>1 DEF TypeOK
<1>4. /\ Cardinality(Left(m)') = i' - 1
      /\ \A n \in Left(m)' : out'[n].a = a'[Cardinality(Left(n)')]
  <2>1. /\ Cardinality(Left(Len(out))) = i - 1
        /\ \A n \in Left(Len(out)) : out[n].a = a[Cardinality(Left(n))]
    BY DEF NothingIsLost
  <2>2. \A n \in Left(Len(out)) : out'[n].a = a'[Cardinality(Left(n)')]
    BY <1>1, <1>2, <2>1
  <2>3. CASE p.kind = "added"
    BY <1>1, <2>1, <2>2, <2>3
  <2>4. CASE p.kind # "added"
    <3>1. Cardinality(Left(m)') = (i - 1) + 1
      <4>1. Left(m)' = Left(Len(out)) \cup {m}
        BY <1>1, <2>4
      <4> QED BY <1>2, <2>1, <4>1, FS_AddElement
    <3>2. Cardinality(Left(m)') = i /\ i' = i + 1 /\ i' - 1 = i
      BY <1>3, <2>4, <3>1
    <3>3. out'[m].a = a'[Cardinality(Left(m)')]
      BY <1>1, <2>4, <3>2
    <3> QED BY <1>1, <2>2, <2>4, <3>2, <3>3
  <2> QED BY <2>3, <2>4
<1>5. /\ Cardinality(Right(m)') = j' - 1
      /\ \A n \in Right(m)' : out'[n].b = b'[Cardinality(Right(n)')]
  <2>1. /\ Cardinality(Right(Len(out))) = j - 1
        /\ \A n \in Right(Len(out)) : out[n].b = b[Cardinality(Right(n))]
    BY DEF NothingIsLost
  <2>2. \A n \in Right(Len(out)) : out'[n].b = b'[Cardinality(Right(n)')]
    BY <1>1, <1>2, <2>1
  <2>3. CASE p.kind = "removed"
    BY <1>1, <2>1, <2>2, <2>3
  <2>4. CASE p.kind # "removed"
    <3>1. Cardinality(Right(m)') = (j - 1) + 1
      <4>1. Right(m)' = Right(Len(out)) \cup {m}
        BY <1>1, <2>4
      <4> QED BY <1>2, <2>1, <4>1, FS_AddElement
    <3>2. Cardinality(Right(m)') = j /\ j' = j + 1 /\ j' - 1 = j
      BY <1>3, <2>4, <3>1
    <3>3. out'[m].b = b'[Cardinality(Right(m)')]
      BY <1>1, <2>4, <3>2
    <3> QED BY <1>1, <2>2, <2>4, <3>2, <3>3
  <2> QED BY <2>3, <2>4
<1>6. /\ Left(Len(out))' = Left(m)' /\ Right(Len(out))' = Right(m)'
  BY <1>1 DEF Left, Right
<1> QED BY <1>4, <1>5, <1>6 DEF NothingIsLost

\* The walk begins with all that can be aligned ahead of it.
LEMMA InitBInv == Init => BInv
<1> SUFFICES ASSUME Init PROVE BInv
  OBVIOUS
<1>1. WInv /\ TypeOK
  BY InitWInv DEF WInv
<1>2. a \in Seq(Span) /\ b \in Seq(Span) /\ out = <<>> /\ i = 1 /\ j = 1 /\ Len(out) = 0
  BY <1>1 DEF Init, TypeOK
<1>3. Left(Len(out)) = {} /\ Right(Len(out)) = {} /\ Matched = {} /\ Cardinality({}) = 0
  BY <1>2, FS_EmptySet DEF Left, Right, Matched
<1>4. NothingIsLost
  <2>1. Cardinality(Left(Len(out))) = i - 1 /\ Cardinality(Right(Len(out))) = j - 1
    <3>1. i - 1 = 0 /\ j - 1 = 0
      BY <1>2
    <3>2. Cardinality(Left(Len(out))) = 0 /\ Cardinality(Right(Len(out))) = 0
      BY ONLY <1>3
    <3> QED BY <3>1, <3>2
  <2> QED BY <1>3, <2>1 DEF NothingIsLost
<1>5. dp[1][1] \in Nat
  <2>1. Len(a) \in Nat /\ Len(b) \in Nat
    BY <1>2, LenProperties
  <2>2. 1 \in Rows /\ 1 \in Cols
    BY <2>1 DEF Rows, Cols
  <2> QED BY <1>2, <2>2, TableFilled DEF Tables
<1>6. Cardinality(Matched) + dp[i][j] = dp[1][1]
  BY <1>2, <1>3, <1>5
<1> QED BY <1>1, <1>3, <1>4, <1>6 DEF BInv

\* One more pair keeps what is aligned and can be: a pair that aligns uses up one of the
\* table's count, and one that does not leaves the count as it was.
LEMMA OneMoreCounted ==
  ASSUME BInv, WInv', UNCHANGED <<a, b>>, NEW p \in Pair, out' = Append(out, p),
         IF p.kind = "added" THEN i' = i ELSE i' = i + 1 /\ p.a = a[i],
         IF p.kind = "removed" THEN j' = j ELSE j' = j + 1 /\ p.b = b[j],
         p.kind \in {"equal", "changed"} => SameKey(p.a, p.b),
         dp[i][j] = IF p.kind \in {"equal", "changed"} THEN dp[i'][j'] + 1 ELSE dp[i'][j']
  PROVE  BInv'
<1>0. PICK m : m = Len(out) + 1
  OBVIOUS
<1>1. TypeOK /\ TypeOK' /\ out \in Seq(Pair)
  BY DEF BInv, WInv, TypeOK
<1>2. /\ Len(out) \in Nat /\ m \in Nat /\ out'[m] = p
      /\ \A n \in 1..Len(out) : out'[n] = out[n]
      /\ Matched' = IF p.kind \in {"equal", "changed"} THEN Matched \cup {m} ELSE Matched
  BY <1>0, <1>1, SidesGrow
<1>3. Matched \subseteq 1..Len(out) /\ m \notin Matched /\ IsFiniteSet(Matched)
  <2>1. IsFiniteSet(1..Len(out)) /\ m \notin 1..Len(out)
    BY <1>0, <1>2, FS_Interval
  <2>2. Matched \subseteq 1..Len(out)
    BY DEF Matched
  <2> QED BY <2>1, <2>2, FS_Subset
<1>4. NothingIsLost'
  BY <1>1, OneMoreAligned DEF BInv
<1>5. \A n \in Matched' : SameKey(out'[n].a, out'[n].b)
  BY <1>2, <1>3 DEF BInv
<1>6. dp' = dp
  BY TableStays
<1>7. dp[i'][j'] \in Nat /\ dp[1][1] \in Nat
  <2>1. Len(a) \in Nat /\ Len(b) \in Nat /\ a \in Seq(Span) /\ b \in Seq(Span)
    BY <1>1, LenProperties DEF TypeOK
  <2>2. 1 \in Rows /\ 1 \in Cols /\ i' \in Rows /\ j' \in Cols
    BY <1>1, <2>1 DEF Rows, Cols, TypeOK
  <2> QED BY <2>1, <2>2, TableFilled DEF Tables
<1>8. Cardinality(Matched) \in Nat /\ Cardinality(Matched) + dp[i][j] = dp[1][1]
  BY <1>3, FS_CardinalityType DEF BInv
<1>9. Cardinality(Matched') + dp[i'][j'] = dp[1][1]
  <2>1. CASE p.kind \in {"equal", "changed"}
    <3>1. Matched' = Matched \cup {m}
      BY <1>2, <2>1
    <3>2. Cardinality(Matched') = Cardinality(Matched) + 1
      BY <1>3, <3>1, FS_AddElement
    <3> QED BY <1>7, <1>8, <2>1, <3>2
  <2>2. CASE p.kind \notin {"equal", "changed"}
    BY <1>2, <1>7, <1>8, <2>2
  <2> QED BY <2>1, <2>2
<1> QED BY <1>4, <1>5, <1>6, <1>9 DEF BInv

\* Every step of the walk follows the table.
LEMMA NextBInv == BInv /\ [Next]_vars => BInv'
<1> SUFFICES ASSUME BInv, [Next]_vars PROVE BInv'
  OBVIOUS
<1>1. WInv /\ TypeOK /\ WInv' /\ a \in Seq(Span) /\ b \in Seq(Span)
  BY NextWInv DEF BInv, WInv, TypeOK
<1>2. /\ Len(a) \in Nat /\ Len(b) \in Nat /\ i \in Rows /\ j \in Cols
      /\ \A n \in 1..Len(a) : a[n] \in Span
      /\ \A n \in 1..Len(b) : b[n] \in Span
  BY <1>1, LenProperties DEF TypeOK, Rows, Cols
<1>3. /\ dp[i][j] = Cell(dp, i, j)
      /\ \A x \in Rows, y \in Cols : dp[x][y] \in Nat
      /\ \A x \in Rows, y \in Cols : x > Len(a) \/ y > Len(b) => dp[x][y] = 0
  <2>1. \A x \in Rows, y \in Cols : dp[x][y] = Cell(dp, x, y)
    BY <1>1, TableFilled
  <2>2. \A x \in Rows, y \in Cols : dp[x][y] \in Nat
    BY <1>1, TableFilled DEF Tables
  <2>3. \A x \in Rows, y \in Cols : x > Len(a) \/ y > Len(b) => dp[x][y] = 0
    BY <2>1 DEF Cell
  <2> QED BY <1>2, <2>1, <2>2, <2>3
<1>4. CASE Align
  <2> DEFINE p == [kind |-> IF Diverged(a[i], b[j]) THEN "changed" ELSE "equal",
                   a |-> a[i], b |-> b[j]]
  <2>1. /\ i <= Len(a) /\ j <= Len(b) /\ SameKey(a[i], b[j])
        /\ i' = i + 1 /\ j' = j + 1 /\ UNCHANGED <<a, b>> /\ out' = Append(out, p)
    BY <1>4 DEF Align, Aligned, Both
  <2>2. p \in Pair /\ p.kind \in {"equal", "changed"} /\ p.a = a[i] /\ p.b = b[j]
    BY <1>2, <2>1 DEF Pair, Kinds, Rows, Cols
  <2>3. dp[i][j] = dp[i'][j'] + 1
    BY <1>2, <1>3, <2>1 DEF Cell, Rows, Cols
  <2> HIDE DEF p
  <2> QED BY <1>1, <2>1, <2>2, <2>3, OneMoreCounted
<1>5. CASE RemoveSpan
  <2> DEFINE p == [kind |-> "removed", a |-> a[i], b |-> None]
  <2>1. /\ i <= Len(a) /\ ~Aligned /\ (Both => RemovedFirst)
        /\ i' = i + 1 /\ UNCHANGED <<a, b, j>> /\ out' = Append(out, p)
    BY <1>5 DEF RemoveSpan
  <2>2. p \in Pair /\ p.kind = "removed" /\ p.a = a[i]
    BY <1>2, <2>1 DEF Pair, Kinds, Rows, Cols
  <2>3. i' \in Rows /\ j' = j
    BY <1>2, <2>1 DEF Rows
  <2>4. dp[i][j] = dp[i'][j']
    <3>1. CASE j <= Len(b)
      <4>1. ~SameKey(a[i], b[j]) /\ dp[i + 1][j] >= dp[i][j + 1]
        BY <2>1, <3>1 DEF Aligned, Both, RemovedFirst
      <4>2. ~(i > Len(a) \/ j > Len(b))
        BY <1>2, <2>1, <3>1 DEF Rows, Cols
      <4> QED BY <1>3, <2>1, <4>1, <4>2 DEF Cell
    <3>2. CASE ~(j <= Len(b))
      <4>1. j > Len(b)
        BY <1>2, <3>2 DEF Cols
      <4> QED BY <1>2, <1>3, <2>3, <4>1
    <3> QED BY <3>1, <3>2
  <2> HIDE DEF p
  <2> QED BY <1>1, <2>1, <2>2, <2>4, OneMoreCounted
<1>6. CASE AddSpan
  <2> DEFINE p == [kind |-> "added", a |-> None, b |-> b[j]]
  <2>1. /\ j <= Len(b) /\ ~Aligned /\ (Both => ~RemovedFirst)
        /\ j' = j + 1 /\ UNCHANGED <<a, b, i>> /\ out' = Append(out, p)
    BY <1>6 DEF AddSpan
  <2>2. p \in Pair /\ p.kind = "added" /\ p.b = b[j]
    BY <1>2, <2>1 DEF Pair, Kinds, Rows, Cols
  <2>3. j' \in Cols /\ i' = i
    BY <1>2, <2>1 DEF Cols
  <2>4. dp[i][j] = dp[i'][j']
    <3>1. CASE i <= Len(a)
      <4>1. ~SameKey(a[i], b[j]) /\ ~(dp[i + 1][j] >= dp[i][j + 1])
        BY <2>1, <3>1 DEF Aligned, Both, RemovedFirst
      <4>2. ~(i > Len(a) \/ j > Len(b))
        BY <1>2, <2>1, <3>1 DEF Rows, Cols
      <4> QED BY <1>3, <2>1, <4>1, <4>2 DEF Cell
    <3>2. CASE ~(i <= Len(a))
      <4>1. i > Len(a)
        BY <1>2, <3>2 DEF Rows
      <4> QED BY <1>2, <1>3, <2>3, <4>1
    <3> QED BY <3>1, <3>2
  <2> HIDE DEF p
  <2> QED BY <1>1, <2>1, <2>2, <2>4, OneMoreCounted
<1>7. CASE UNCHANGED vars
  <2>1. a' = a /\ b' = b /\ i' = i /\ j' = j /\ out' = out /\ dp' = dp
    BY <1>7, TableStays DEF vars
  <2>2. NothingIsLost'
    BY <2>1 DEF BInv, NothingIsLost, Left, Right
  <2>3. Matched' = Matched
    BY <2>1 DEF Matched
  <2> QED BY <1>1, <2>1, <2>2, <2>3 DEF BInv
<1> QED BY <1>4, <1>5, <1>6, <1>7 DEF Next, Done

\* However long the traces are, the pairs are an alignment of them that loses, doubles and
\* moves no span, and no alignment of them has more spans aligned (lib.rs:58-124).
THEOREM AlignmentIsBest == Spec => []BestAlignment
<1>1. BInv => BestAlignment
  <2> SUFFICES ASSUME BInv PROVE BestAlignment
    OBVIOUS
  <2>1. NothingIsLost
    BY DEF BInv
  <2>2. ASSUME Ended
        PROVE  ~Common(Cardinality(Matched) + 1)
    <3>1. /\ Len(a) \in Nat /\ Len(b) \in Nat /\ a \in Seq(Span) /\ b \in Seq(Span)
          /\ i \in Rows /\ j \in Cols /\ i > Len(a)
      BY <2>2, LenProperties DEF BInv, WInv, TypeOK, Ended, Rows, Cols
    <3>2. dp[i][j] = 0
      BY <3>1, TableFilled DEF Cell
    <3>3. 1 \in Rows /\ 1 \in Cols
      BY <3>1 DEF Rows, Cols
    <3>4. dp[1][1] \in Nat
      BY <3>1, <3>3, TableFilled DEF Tables
    <3>5. Cardinality(Matched) \in Nat
      <4>1. IsFiniteSet(1..Len(out))
        BY LenProperties, FS_Interval DEF BInv, WInv, TypeOK
      <4> QED BY <4>1, FS_Subset, FS_CardinalityType DEF Matched
    <3>6. Cardinality(Matched) = dp[1][1]
      BY <3>2, <3>4, <3>5 DEF BInv
    <3>7. SUFFICES ASSUME CommonFrom(dp[1][1] + 1, 1, 1) PROVE FALSE
      BY <3>6 DEF Common, CommonFrom
    <3>8. dp[1][1] + 1 <= dp[1][1]
      BY <3>1, <3>3, <3>4, <3>7, NoneIsLonger
    <3> QED BY <3>4, <3>8
  <2>3. AlignsTheMost
    BY <2>2 DEF AlignsTheMost, BInv, Matched
  <2> QED BY <2>1, <2>3 DEF BestAlignment
<1> QED BY <1>1, InitBInv, NextBInv, PTL DEF Spec

-----------------------------------------------------------------------------
(* The diff pane *)

\* The diff that was asked for last is the last one on its way, or it is shown.
LastAsked ==
  inOrder /\ errors = 0 /\ last # None =>
    IF Len(opening) = 0 THEN diff.active /\ <<diff.a, diff.b>> = last
    ELSE <<opening[Len(opening)].a, opening[Len(opening)].b>> = last

Opened(c) == DOMAIN c = {"a", "b", "na", "nb"}

DInv == /\ \E S : opening \in Seq(S)
        /\ \A k \in 1..Len(opening) : Opened(opening[k])
        /\ DOMAIN diff = {"active", "a", "b", "pairs", "sel"}
        /\ errors \in Nat
        /\ LastAsked

\* A sequence over a set is one over a larger set.
LEMMA Wider == ASSUME NEW S, NEW T, S \subseteq T, NEW q \in Seq(S) PROVE q \in Seq(T)
  BY SeqDef

\* What is left of a sequence when one of it is gone.
LEMMA Removed ==
  ASSUME NEW S, NEW q \in Seq(S), NEW m \in 1..Len(q)
  PROVE  /\ RemoveAt(q, m) \in Seq(S) /\ Len(RemoveAt(q, m)) = Len(q) - 1 /\ Len(q) \in Nat
         /\ \A k \in 1..(Len(q) - 1) : RemoveAt(q, m)[k] = q[IF k < m THEN k ELSE k + 1]
<1> DEFINE before == SubSeq(q, 1, m - 1)
           after  == SubSeq(q, m + 1, Len(q))
<1>1. Len(q) \in Nat /\ m \in Nat /\ \A k \in 1..Len(q) : q[k] \in S
  BY LenProperties
<1>2. \A k \in 1..(m - 1) : q[k] \in S
  BY <1>1
<1>3. \A k \in (m + 1)..Len(q) : q[k] \in S
  BY <1>1
<1>4. /\ before \in Seq(S) /\ Len(before) = m - 1
      /\ \A k \in 1..(m - 1) : before[k] = q[k]
  <2>1. /\ before \in Seq(S) /\ Len(before) = IF 1 <= m - 1 THEN (m - 1) - 1 + 1 ELSE 0
        /\ \A k \in 1..((m - 1) - 1 + 1) : before[k] = q[1 + k - 1]
    BY <1>1, <1>2, SubSeqProperties
  <2> HIDE DEF before
  <2> QED BY <1>1, <2>1
<1>5. /\ after \in Seq(S) /\ Len(after) = Len(q) - m
      /\ \A k \in 1..(Len(q) - m) : after[k] = q[k + m]
  <2>1. /\ after \in Seq(S) /\ Len(after) = IF m + 1 <= Len(q) THEN Len(q) - (m + 1) + 1 ELSE 0
        /\ \A k \in 1..(Len(q) - (m + 1) + 1) : after[k] = q[(m + 1) + k - 1]
    BY <1>1, <1>3, SubSeqProperties
  <2> HIDE DEF after
  <2> QED BY <1>1, <2>1
<1>6. RemoveAt(q, m) = before \o after
  BY DEF RemoveAt
<1> HIDE DEF before, after
<1>7. /\ before \o after \in Seq(S) /\ Len(before \o after) = Len(q) - 1
      /\ \A k \in 1..(Len(q) - 1) : (before \o after)[k] = IF k <= m - 1 THEN before[k] ELSE after[k - (m - 1)]
  <2>1. /\ before \o after \in Seq(S) /\ Len(before \o after) = Len(before) + Len(after)
        /\ \A k \in 1..(Len(before) + Len(after)) :
             (before \o after)[k] = IF k <= Len(before) THEN before[k] ELSE after[k - Len(before)]
    BY <1>4, <1>5, ConcatProperties
  <2>2. Len(before) + Len(after) = Len(q) - 1
    BY <1>1, <1>4, <1>5
  <2> QED BY <1>4, <2>1, <2>2
<1>8. ASSUME NEW k \in 1..(Len(q) - 1)
      PROVE  (before \o after)[k] = q[IF k < m THEN k ELSE k + 1]
  <2>1. CASE k < m
    BY <1>1, <1>4, <1>7, <2>1
  <2>2. CASE ~(k < m)
    <3>1. k - (m - 1) \in 1..(Len(q) - m) /\ (k - (m - 1)) + m = k + 1
      BY <1>1, <2>2
    <3> QED BY <1>1, <1>5, <1>7, <2>2, <3>1
  <2> QED BY <2>1, <2>2
<1> QED BY <1>1, <1>6, <1>7, <1>8

\* A diff is asked for: it is the last on its way.
LEMMA OpenDiffDInv == ASSUME DInv, NEW t, NEW u, OpenDiff(t, u) PROVE DInv'
<1> DEFINE c == [a |-> t, b |-> u, na |-> None, nb |-> None]
<1>1. /\ opening' = Append(opening, c) /\ last' = <<t, u>>
      /\ UNCHANGED <<diff, inOrder, errors>>
  BY DEF OpenDiff
<1>2. PICK S : opening \in Seq(S)
  BY DEF DInv
<1>3. Opened(c) /\ c.a = t /\ c.b = u
  BY DEF Opened
<1> HIDE DEF c
<1>4. opening \in Seq(S \cup {c}) /\ c \in S \cup {c}
  BY <1>2, Wider
<1>5. /\ opening' \in Seq(S \cup {c}) /\ Len(opening') = Len(opening) + 1 /\ Len(opening) \in Nat
      /\ \A k \in 1..Len(opening) : opening'[k] = opening[k]
      /\ opening'[Len(opening) + 1] = c
  BY <1>1, <1>4, AppendProperties, LenProperties
<1>6. \A k \in 1..Len(opening') : Opened(opening'[k])
  <2>1. \A k \in 1..Len(opening') : k \in 1..Len(opening) \/ k = Len(opening) + 1
    BY <1>5
  <2> QED BY <1>3, <1>5, <2>1 DEF DInv
<1>7. LastAsked'
  <2>1. Len(opening') # 0 /\ opening'[Len(opening')] = c
    BY <1>5
  <2> QED BY <1>1, <1>3, <2>1 DEF LastAsked
<1> QED BY <1>1, <1>5, <1>6, <1>7 DEF DInv

\* One that is no longer on its way.
LEMMA Gone == ASSUME DInv, NEW k \in DOMAIN opening, opening' = RemoveAt(opening, k)
  PROVE  /\ \E S : opening' \in Seq(S)
         /\ \A l \in 1..Len(opening') : Opened(opening'[l])
         /\ k \in 1..Len(opening) /\ Len(opening) \in Nat
         /\ Len(opening') = Len(opening) - 1
         /\ k = 1 /\ Len(opening') # 0 => opening'[Len(opening')] = opening[Len(opening)]
<1>1. PICK S : opening \in Seq(S)
  BY DEF DInv
<1>2. k \in 1..Len(opening) /\ Len(opening) \in Nat
  BY <1>1, LenProperties
<1>3. /\ opening' \in Seq(S) /\ Len(opening') = Len(opening) - 1
      /\ \A l \in 1..(Len(opening) - 1) : opening'[l] = opening[IF l < k THEN l ELSE l + 1]
  BY <1>1, <1>2, Removed
<1>4. \A l \in 1..(Len(opening) - 1) : (IF l < k THEN l ELSE l + 1) \in 1..Len(opening)
  BY <1>2
<1>5. \A l \in 1..Len(opening') : Opened(opening'[l])
  BY <1>3, <1>4 DEF DInv
<1>6. ASSUME k = 1, Len(opening') # 0 PROVE opening'[Len(opening')] = opening[Len(opening)]
  <2>1. Len(opening) - 1 \in 1..(Len(opening) - 1) /\ ~(Len(opening) - 1 < k)
        /\ (Len(opening) - 1) + 1 = Len(opening)
    BY <1>2, <1>3, <1>6
  <2> QED BY <1>3, <2>1
<1> QED BY <1>2, <1>3, <1>5, <1>6

\* Spans arrive: of the oldest diff, when answers come in order.
LEMMA SpansArriveDInv == ASSUME DInv, NEW k \in DOMAIN opening, SpansArrive(k) PROVE DInv'
<1>1. PICK side \in {"na", "nb"} :
        LET c == [opening[k] EXCEPT
                    ![side] = Spans[IF side = "na" THEN opening[k].a ELSE opening[k].b]]
        IN  /\ inOrder => k = 1
            /\ IF Counts(c) THEN Show(c) /\ opening' = RemoveAt(opening, k)
               ELSE UNCHANGED diff /\ opening' = [opening EXCEPT ![k] = c]
            /\ UNCHANGED <<pick, inOrder, errors, last>>
  BY DEF SpansArrive
<1> DEFINE c == [opening[k] EXCEPT
                   ![side] = Spans[IF side = "na" THEN opening[k].a ELSE opening[k].b]]
<1>2. /\ inOrder => k = 1
      /\ \/ Show(c) /\ opening' = RemoveAt(opening, k)
         \/ UNCHANGED diff /\ opening' = [opening EXCEPT ![k] = c]
      /\ UNCHANGED <<inOrder, errors, last>>
  BY <1>1
<1>3. PICK S : opening \in Seq(S)
  BY DEF DInv
<1>4. k \in 1..Len(opening) /\ Len(opening) \in Nat
  BY <1>3, LenProperties
<1>5. Opened(c) /\ c["a"] = opening[k]["a"] /\ c["b"] = opening[k]["b"]
  <2>1. DOMAIN opening[k] = {"a", "b", "na", "nb"}
    BY <1>4 DEF DInv, Opened
  <2>2. DOMAIN c = DOMAIN opening[k]
    OBVIOUS
  <2>3. \A f \in {"a", "b"} : c[f] = opening[k][f]
    BY <2>1
  <2> QED BY <2>1, <2>2, <2>3 DEF Opened
<1> HIDE DEF c
<1>6. CASE Show(c) /\ opening' = RemoveAt(opening, k)
  <2>1. PICK n, s : diff' = [active |-> TRUE, a |-> c.a, b |-> c.b, pairs |-> n, sel |-> s]
    BY <1>6 DEF Show
  <2>2. DOMAIN diff' = {"active", "a", "b", "pairs", "sel"} /\ diff'.active
        /\ diff'.a = opening[k].a /\ diff'.b = opening[k].b
    BY <1>5, <2>1
  <2>3. /\ \E T : opening' \in Seq(T)
        /\ \A l \in 1..Len(opening') : Opened(opening'[l])
        /\ Len(opening') = Len(opening) - 1
        /\ k = 1 /\ Len(opening') # 0 => opening'[Len(opening')] = opening[Len(opening)]
    BY <1>6, Gone
  <2>4. LastAsked'
    <3>1. Len(opening') = 0 /\ k = 1 => Len(opening) = k
      BY <1>4, <2>3
    <3>2. Len(opening) # 0
      BY <1>4
    <3> QED BY <1>2, <2>2, <2>3, <3>1, <3>2 DEF DInv, LastAsked
  <2> QED BY <1>2, <2>2, <2>3, <2>4 DEF DInv
<1>7. CASE UNCHANGED diff /\ opening' = [opening EXCEPT ![k] = c]
  <2>1. opening \in Seq(S \cup {c}) /\ c \in S \cup {c}
    BY <1>3, Wider
  <2>2. /\ opening' \in Seq(S \cup {c}) /\ Len(opening') = Len(opening)
        /\ \A l \in 1..Len(opening) : opening'[l] = IF l = k THEN c ELSE opening[l]
    BY <1>4, <1>7, <2>1, ExceptSeq
  <2>3. \A l \in 1..Len(opening') : Opened(opening'[l])
    BY <1>5, <2>2 DEF DInv
  <2>4. LastAsked'
    <3>1. Len(opening) # 0 /\ Len(opening) \in 1..Len(opening)
      BY <1>4
    <3>2. /\ opening'[Len(opening)].a = opening[Len(opening)].a
          /\ opening'[Len(opening)].b = opening[Len(opening)].b
      BY <1>5, <2>2, <3>1
    <3> QED BY <1>2, <1>7, <2>2, <3>1, <3>2 DEF DInv, LastAsked
  <2> QED BY <1>2, <1>7, <2>2, <2>3, <2>4 DEF DInv
<1> QED BY <1>2, <1>6, <1>7

\* Every step keeps the diff that was asked for last.
LEMMA DInvNext == DInv /\ [PaneNext]_paneVars => DInv'
<1> SUFFICES ASSUME DInv, [PaneNext]_paneVars PROVE DInv'
  OBVIOUS
<1>1. ASSUME NEW t \in Trace, PickForDiff(t) PROVE DInv'
  BY <1>1 DEF PickForDiff, DInv, LastAsked, Opened
<1>2. CASE Diff
  BY <1>2, OpenDiffDInv DEF Diff
<1>3. CASE CloseDiff
  <2>1. DOMAIN diff' = {"active", "a", "b", "pairs", "sel"}
    BY <1>3 DEF CloseDiff, DInv
  <2> QED BY <1>3, <2>1 DEF CloseDiff, DInv, LastAsked, Opened
<1>4. ASSUME NEW k \in DOMAIN opening, SpansFail(k) PROVE DInv'
  <2>1. errors' \in Nat /\ errors' # 0
    BY <1>4 DEF SpansFail, DInv
  <2>2. LastAsked'
    BY <2>1 DEF LastAsked
  <2> QED BY <1>4, <2>1, <2>2, Gone DEF SpansFail, DInv
<1>5. ASSUME NEW n \in 0..(diff.pairs - 1), SetDiffSel(n) PROVE DInv'
  <2>1. DOMAIN diff' = {"active", "a", "b", "pairs", "sel"} /\ (diff'.active <=> diff.active)
        /\ diff'.a = diff.a /\ diff'.b = diff.b
    BY <1>5 DEF SetDiffSel, DInv
  <2> QED BY <1>5, <2>1 DEF SetDiffSel, DInv, LastAsked, Opened
<1>6. CASE UNCHANGED paneVars
  BY <1>6 DEF paneVars, DInv, LastAsked, Opened
<1> QED BY <1>1, <1>2, <1>3, <1>4, <1>5, <1>6, SpansArriveDInv DEF PaneNext

\* With answers in the order of the calls and none failing, the diff on display is the one
\* asked for last, however many were on their way, picked or closed (store.ts:447-482).
THEOREM LastDiffIsShown == PaneSpec => []LastDiffShown
<1>1. PaneInit => DInv
  <2> SUFFICES ASSUME PaneInit PROVE DInv
    OBVIOUS
  <2>1. opening \in Seq({}) /\ Len(opening) = 0
    BY DEF PaneInit
  <2>2. DOMAIN diff = {"active", "a", "b", "pairs", "sel"} /\ errors \in Nat /\ last = None
    BY DEF PaneInit
  <2> QED BY <2>1, <2>2 DEF DInv, LastAsked
<1>2. DInv => LastDiffShown
  BY DEF DInv, LastAsked, LastDiffShown
<1> QED BY <1>1, <1>2, DInvNext, PTL DEF PaneSpec

-----------------------------------------------------------------------------
(* The walk of the forest *)

NavTypes ==
  /\ \E n \in Nat : parent \in [1..n -> (1..n) \cup {Absent, None}]
  /\ untimed \subseteq SpanId
  /\ order \in Seq(SpanId) /\ frames \in Seq(SUBSET SpanId)
  /\ current \in SpanId \cup {None}

\* The span at place n of the walk is the parent of s; place 0 stands for no parent.
ChildOf(s, n) == IF n = 0 THEN ParentOf(s) = None ELSE ParentOf(s) = order[n]

\* The spans from place n + 1 to place m are below the one at place n, or beside it for 0.
Inside(n, m) == \A k \in (n + 1)..m : \E l \in n..(k - 1) : ChildOf(order[k], l)

\* No span comes twice.
Once ==
  /\ \A m, n \in 1..Len(order) : order[m] = order[n] => m = n
  /\ \A k \in 1..Len(frames), n \in 1..Len(order) : order[n] \notin frames[k]
  /\ \A k, l \in 1..Len(frames) : k < l => frames[k] \cap frames[l] = {}

\* A span that was visited came after its parent, with nothing between that is not below it.
Nested == \A n \in 1..Len(order) : \E m \in 0..(n - 1) : ChildOf(order[n], m) /\ Inside(m, n - 1)

\* The loops under way are over the children of spans visited, inner ones of later spans,
\* with nothing since that is not below those.
Loops(up) ==
  /\ up \in [1..Len(frames) -> 0..Len(order)]
  /\ \A k \in 1..Len(frames) : (\A s \in frames[k] : ChildOf(s, up[k])) /\ Inside(up[k], Len(order))
  /\ \A k, l \in 1..Len(frames) : k < l => up[l] < up[k]

\* The roots, and the children of spans that were visited, were visited or are still ahead.
Reached ==
  \A s \in SpanId : ParentOf(s) \in {None} \cup Range(order) =>
    s \in Range(order) \/ \E k \in 1..Len(frames) : s \in frames[k]

\* After a span comes its first child.
ChildFollows ==
  \A n \in 1..Len(order) : Children(order[n]) # {} =>
    IF n < Len(order) THEN order[n + 1] = First(Children(order[n]))
    ELSE frames # <<>> /\ frames[1] = Children(order[n])

\* Siblings were visited by start time, and those still ahead come after them.
InOrder ==
  /\ \A m, n \in 1..Len(order) :
       m < n /\ ParentOf(order[m]) = ParentOf(order[n]) => Before(order[m], order[n])
  /\ \A n \in 1..Len(order), k \in 1..Len(frames) :
       \A s \in frames[k] : ParentOf(order[n]) = ParentOf(s) => Before(order[n], s)

NInv == NavTypes /\ Once /\ Nested /\ (\E up : Loops(up)) /\ Reached /\ ChildFollows /\ InOrder

\* Spans are the numbers up to some n.
LEMMA SpansAreNumbered ==
  ASSUME \E n \in Nat : parent \in [1..n -> (1..n) \cup {Absent, None}]
  PROVE  /\ Cardinality(SpanId) \in Nat /\ SpanId = 1..Cardinality(SpanId)
         /\ None \notin SpanId /\ \A s \in SpanId : ParentOf(s) \in SpanId \cup {None}
         /\ \A s \in SpanId, p \in SpanId \cup {None} : s \in Children(p) <=> ParentOf(s) = p
         /\ \A p : Children(p) \subseteq SpanId
<1>1. PICK n \in Nat : parent \in [1..n -> (1..n) \cup {Absent, None}]
  OBVIOUS
<1>2. SpanId = 1..n
  BY <1>1 DEF SpanId
<1>3. Cardinality(SpanId) = n
  BY <1>2, FS_Interval
<1>4. None \notin SpanId
  BY <1>2, NavigationAssumption
<1> QED BY <1>1, <1>2, <1>3, <1>4 DEF ParentOf, Children

\* The first of some spans comes before all others.
LEMMA FirstIsFirst ==
  ASSUME NavTypes, NEW S, S \subseteq SpanId, S # {}
  PROVE  First(S) \in S /\ \A t \in S \ {First(S)} : Before(First(S), t)
<1> DEFINE T == IF S \cap untimed # {} THEN S \cap untimed ELSE S
<1>1. SpanId \subseteq Nat
  BY SpansAreNumbered DEF NavTypes
<1>2. T \subseteq Nat /\ T # {} /\ T \subseteq S
  BY <1>1
<1>3. PICK s \in T : \A t \in T : s <= t
  <2> HIDE DEF T
  <2> QED BY <1>2, LeastNumber
<1>4. \A t \in S \ {s} : Before(s, t)
  <2> TAKE t \in S \ {s}
  <2>1. s \in Nat /\ t \in Nat /\ (t \in T => s < t)
    BY <1>1, <1>2, <1>3
  <2> QED BY <2>1, <1>3 DEF Before
<1>5. s \in S
  BY <1>2
<1> QED BY <1>4, <1>5 DEF First

\* What a visit does: the span, one of the innermost loop, goes to the end of the order.
LEMMA VisitEffect ==
  ASSUME NavTypes, Visit
  PROVE  \E s \in SpanId :
           /\ s = First(frames[1]) /\ s \in frames[1] /\ Len(frames) \in Nat /\ 1 <= Len(frames)
           /\ Len(order) \in Nat /\ order' \in Seq(SpanId) /\ Len(order') = Len(order) + 1
           /\ order'[Len(order) + 1] = s /\ \A n \in 1..Len(order) : order'[n] = order[n]
           /\ frames' \in Seq(SUBSET SpanId) /\ Len(frames') = Len(frames) + 1
           /\ frames'[1] = Children(s) /\ frames'[2] = frames[1] \ {s}
           /\ \A k \in 3..(Len(frames) + 1) : frames'[k] = frames[k - 1]
           /\ UNCHANGED <<parent, untimed, current>>
<1> DEFINE s == First(frames[1])
           pair == <<Children(s), frames[1] \ {s}>>
<1>1. /\ frames # <<>> /\ Head(frames) # {} /\ order' = Append(order, First(Head(frames)))
      /\ frames' = <<Children(First(Head(frames))), Head(frames) \ {First(Head(frames))}>> \o Tail(frames)
      /\ UNCHANGED <<parent, untimed, current>>
  BY DEF Visit
<1>2. /\ Len(frames) \in Nat /\ 1 <= Len(frames) /\ Head(frames) = frames[1]
      /\ frames[1] \in SUBSET SpanId
      /\ Tail(frames) \in Seq(SUBSET SpanId) /\ Len(Tail(frames)) = Len(frames) - 1
      /\ \A k \in 1..(Len(frames) - 1) : Tail(frames)[k] = frames[k + 1]
  <2>1. frames \in Seq(SUBSET SpanId) /\ frames # <<>>
    BY <1>1 DEF NavTypes
  <2>2. Len(frames) \in Nat /\ Len(frames) # 0 /\ Head(frames) = frames[1]
    BY <2>1
  <2>3. Head(frames) \in SUBSET SpanId
    BY <2>1, HeadTailProperties
  <2> QED BY <2>1, <2>2, <2>3, HeadTailProperties
<1>3. s \in frames[1] /\ s \in SpanId
  BY <1>1, <1>2, FirstIsFirst
<1> HIDE DEF s
<1>4. /\ order' = Append(order, s) /\ frames' = pair \o Tail(frames)
  BY <1>1, <1>2 DEF s
<1>5. /\ Len(order) \in Nat /\ order' \in Seq(SpanId) /\ Len(order') = Len(order) + 1
      /\ order'[Len(order) + 1] = s /\ \A n \in 1..Len(order) : order'[n] = order[n]
  BY <1>3, <1>4, AppendProperties, LenProperties DEF NavTypes
<1>6. pair \in Seq(SUBSET SpanId) /\ Len(pair) = 2 /\ pair[1] = Children(s) /\ pair[2] = frames[1] \ {s}
  <2>1. Children(s) \in SUBSET SpanId /\ frames[1] \ {s} \in SUBSET SpanId
    BY <1>2 DEF Children
  <2> QED BY <2>1
<1> HIDE DEF pair
<1>7. /\ frames' \in Seq(SUBSET SpanId) /\ Len(frames') = 2 + (Len(frames) - 1)
      /\ \A k \in 1..(2 + (Len(frames) - 1)) : frames'[k] = IF k <= 2 THEN pair[k] ELSE Tail(frames)[k - 2]
  <2> DEFINE S == SUBSET SpanId
             rest == Tail(frames)
  <2>1. pair \in Seq(S) /\ rest \in Seq(S)
    BY <1>2, <1>6
  <2> HIDE DEF S, rest
  <2>2. /\ pair \o rest \in Seq(S) /\ Len(pair \o rest) = Len(pair) + Len(rest)
        /\ \A k \in 1..(Len(pair) + Len(rest)) :
             (pair \o rest)[k] = IF k <= Len(pair) THEN pair[k] ELSE rest[k - Len(pair)]
    BY <2>1, ConcatProperties
  <2> QED BY <1>2, <1>4, <1>6, <2>2 DEF S, rest
<1>8. Len(frames') = Len(frames) + 1 /\ frames'[1] = Children(s) /\ frames'[2] = frames[1] \ {s}
  BY <1>2, <1>6, <1>7
<1>9. ASSUME NEW k \in 3..(Len(frames) + 1) PROVE frames'[k] = frames[k - 1]
  <2>1. k \in 1..(2 + (Len(frames) - 1)) /\ ~(k <= 2) /\ k - 2 \in 1..(Len(frames) - 1)
        /\ (k - 2) + 1 = k - 1
    BY <1>2
  <2> QED BY <1>2, <1>7, <2>1
<1> QED BY <1>1, <1>2, <1>3, <1>5, <1>7, <1>8, <1>9 DEF s

\* And what the end of a loop does.
LEMMA ReturnEffect ==
  ASSUME NavTypes, Return
  PROVE  /\ frames[1] = {} /\ Len(frames) \in Nat /\ 1 <= Len(frames)
         /\ frames' \in Seq(SUBSET SpanId) /\ Len(frames') = Len(frames) - 1
         /\ \A k \in 1..Len(frames') : frames'[k] = frames[k + 1]
         /\ UNCHANGED <<parent, untimed, order, current>>
<1>1. frames \in Seq(SUBSET SpanId) /\ frames # <<>> /\ Head(frames) = {} /\ frames' = Tail(frames)
  BY DEF NavTypes, Return
<1>2. Len(frames) \in Nat /\ Len(frames) # 0 /\ Head(frames) = frames[1]
  BY <1>1
<1>3. /\ frames' \in Seq(SUBSET SpanId) /\ Len(frames') = Len(frames) - 1
      /\ \A k \in 1..Len(frames') : frames'[k] = frames[k + 1]
  BY <1>1, HeadTailProperties
<1> QED BY <1>1, <1>2, <1>3 DEF Return

\* A visit keeps spans from coming twice: the children of a span that was not visited were
\* not reached.
LEMMA VisitKeepsOnce == ASSUME NInv, Visit PROVE Once'
<1>1. PICK s \in SpanId :
        /\ s \in frames[1] /\ Len(frames) \in Nat /\ 1 <= Len(frames)
        /\ Len(order) \in Nat /\ Len(order') = Len(order) + 1
        /\ order'[Len(order) + 1] = s /\ \A n \in 1..Len(order) : order'[n] = order[n]
        /\ frames \in Seq(SUBSET SpanId) /\ Len(frames') = Len(frames) + 1
        /\ frames'[1] = Children(s) /\ frames'[2] = frames[1] \ {s}
        /\ \A k \in 3..(Len(frames) + 1) : frames'[k] = frames[k - 1]
  <2>1. NavTypes
    BY DEF NInv
  <2> QED BY <2>1, VisitEffect DEF NavTypes
<1>2. \A n \in 1..Len(order) : order[n] # s
  BY <1>1 DEF NInv, Once
<1>3. ASSUME NEW k \in 2..(Len(frames) + 1)
      PROVE  k - 1 \in 1..Len(frames) /\ s \notin frames'[k] /\ frames'[k] \subseteq frames[k - 1]
  <2>1. CASE k = 2
    BY <1>1, <2>1
  <2>2. CASE k # 2
    <3>1. k \in 3..(Len(frames) + 1) /\ k - 1 \in 1..Len(frames) /\ 1 \in 1..Len(frames) /\ 1 < k - 1
      BY <1>1, <2>2
    <3>2. frames[1] \cap frames[k - 1] = {}
      BY <3>1 DEF NInv, Once
    <3> QED BY <1>1, <3>1, <3>2
  <2> QED BY <2>1, <2>2
<1>4. /\ SpanId = 1..Cardinality(SpanId) /\ Cardinality(SpanId) \in Nat /\ None \notin SpanId
      /\ \A t \in Children(s) : t \in SpanId /\ ParentOf(t) = s
      /\ \A n \in 1..Len(order) : order[n] \in SpanId
  <2>1. order \in Seq(SpanId) /\ \E n \in Nat : parent \in [1..n -> (1..n) \cup {Absent, None}]
    BY DEF NInv, NavTypes
  <2> QED BY <2>1, SpansAreNumbered, ElementOfSeq
\* A child of s that was reached before s would have another parent.
<1>5. ASSUME NEW t, ParentOf(t) = s, NEW m \in 0..Len(order) PROVE ~ChildOf(t, m)
  BY <1>2, <1>4, <1>5, <1>1 DEF ChildOf
<1>6. \A n \in 1..Len(order) : order[n] \notin Children(s)
  <2> TAKE n \in 1..Len(order)
  <2>1. PICK m \in 0..(n - 1) : ChildOf(order[n], m)
    BY DEF NInv, Nested
  <2>2. m \in 0..Len(order)
    BY <1>1
  <2> QED BY <1>4, <1>5, <2>1, <2>2
<1>7. \A k \in 1..Len(frames) : frames[k] \cap Children(s) = {}
  <2> TAKE k \in 1..Len(frames)
  <2>1. PICK up : Loops(up)
    BY DEF NInv
  <2>2. up[k] \in 0..Len(order) /\ \A t \in frames[k] : ChildOf(t, up[k])
    BY <2>1 DEF Loops
  <2> QED BY <1>4, <1>5, <2>2
<1>8. s \notin Children(s)
  <2>1. PICK up : Loops(up)
    BY DEF NInv
  <2>2. up[1] \in 0..Len(order) /\ ChildOf(s, up[1])
    BY <1>1, <2>1 DEF Loops
  <2> QED BY <1>4, <1>5, <2>2
<1>9. ASSUME NEW m \in 1..Len(order'), NEW n \in 1..Len(order'), order'[m] = order'[n] PROVE m = n
  <2>1. /\ m \in 1..Len(order) \/ m = Len(order) + 1
        /\ n \in 1..Len(order) \/ n = Len(order) + 1
    BY <1>1
  <2>2. \A k, l \in 1..Len(order) : order[k] = order[l] => k = l
    BY DEF NInv, Once
  <2> QED BY <1>1, <1>2, <1>9, <2>1, <2>2
<1>10. ASSUME NEW k \in 1..Len(frames'), NEW n \in 1..Len(order') PROVE order'[n] \notin frames'[k]
  <2>1. /\ k = 1 \/ k \in 2..(Len(frames) + 1)
        /\ n \in 1..Len(order) \/ n = Len(order) + 1
    BY <1>1
  <2>2. \A l \in 1..Len(frames), m \in 1..Len(order) : order[m] \notin frames[l]
    BY DEF NInv, Once
  <2>3. CASE k = 1
    BY <1>1, <1>6, <1>8, <2>1, <2>3
  <2>4. CASE k \in 2..(Len(frames) + 1)
    BY <1>1, <1>3, <2>1, <2>2, <2>4
  <2> QED BY <2>1, <2>3, <2>4
<1>11. ASSUME NEW k \in 1..Len(frames'), NEW l \in 1..Len(frames'), k < l
       PROVE  frames'[k] \cap frames'[l] = {}
  <2>1. l \in 2..(Len(frames) + 1) /\ (k = 1 \/ k \in 2..(Len(frames) + 1))
    BY <1>1, <1>11
  <2>2. CASE k = 1
    BY <1>1, <1>3, <1>7, <2>1, <2>2
  <2>3. CASE k \in 2..(Len(frames) + 1)
    <3>1. k - 1 \in 1..Len(frames) /\ l - 1 \in 1..Len(frames) /\ k - 1 < l - 1
      BY <1>1, <1>11, <2>1, <2>3
    <3>2. frames[k - 1] \cap frames[l - 1] = {}
      BY <3>1 DEF NInv, Once
    <3> QED BY <1>3, <2>1, <2>3, <3>2
  <2> QED BY <2>1, <2>2, <2>3
<1> QED BY <1>9, <1>10, <1>11 DEF Once

\* The end of a loop takes nothing away.
LEMMA ReturnKeepsOnce == ASSUME NInv, Return PROVE Once'
<1>1. /\ Len(frames) \in Nat /\ Len(frames') = Len(frames) - 1 /\ order' = order
      /\ \A k \in 1..Len(frames') : frames'[k] = frames[k + 1]
  BY ReturnEffect DEF NInv
<1>2. \A k \in 1..Len(frames') : k + 1 \in 1..Len(frames)
  BY <1>1
<1>3. \A k, l \in 1..Len(frames') : k < l => k + 1 < l + 1
  BY <1>1
<1>4. Once
  BY DEF NInv
<1>5. ASSUME NEW k \in 1..Len(frames'), NEW l \in 1..Len(frames'), k < l
      PROVE  frames'[k] \cap frames'[l] = {}
  BY <1>1, <1>2, <1>3, <1>4, <1>5 DEF Once
<1>6. ASSUME NEW k \in 1..Len(frames'), NEW n \in 1..Len(order) PROVE order[n] \notin frames'[k]
  BY <1>1, <1>2, <1>4 DEF Once
<1> QED BY <1>1, <1>4, <1>5, <1>6 DEF Once

\* What is known of places that the order has already stays when it grows.
LEMMA PlacesStay ==
  ASSUME NavTypes, UNCHANGED parent, Len(order) \in Nat, Len(order) <= Len(order'),
         \A n \in 1..Len(order) : order'[n] = order[n]
  PROVE  /\ \A s, n : n \in 0..Len(order) => (ChildOf(s, n)' <=> ChildOf(s, n))
         /\ \A n, m : n \in Nat /\ m \in 0..Len(order) => (Inside(n, m)' <=> Inside(n, m))
<1>1. \A s, n : n \in 0..Len(order) => (ChildOf(s, n)' <=> ChildOf(s, n))
  BY DEF ChildOf, ParentOf, SpanId
<1>2. ASSUME NEW n, NEW m, n \in Nat, m \in 0..Len(order)
      PROVE  Inside(n, m)' <=> Inside(n, m)
  <2>1. ASSUME NEW k \in (n + 1)..m, NEW l \in n..(k - 1)
        PROVE  ChildOf(order[k], l)' <=> ChildOf(order[k], l)
    <3>1. k \in 1..Len(order) /\ l \in 0..Len(order)
      BY <1>2
    <3>2. order'[k] = order[k]
      BY <3>1
    <3> QED BY <1>1, <3>1, <3>2 DEF ChildOf, ParentOf, SpanId
  <2> QED BY <2>1 DEF Inside
<1> QED BY <1>1, <1>2

\* The span visited is a child of one that was, as its loop says, and new loops begin below it.
LEMMA VisitKeepsNested == ASSUME NInv, Visit PROVE Nested' /\ \E up : Loops(up)'
<1>0. PICK len \in Nat : Len(order) = len
  BY LenProperties DEF NInv, NavTypes
<1>1. PICK s \in SpanId :
        /\ s \in frames[1] /\ Len(frames) \in Nat /\ 1 <= Len(frames)
        /\ Len(order') = len + 1
        /\ order'[len + 1] = s /\ \A n \in 1..len : order'[n] = order[n]
        /\ Len(frames') = Len(frames) + 1
        /\ frames'[1] = Children(s) /\ frames'[2] = frames[1] \ {s}
        /\ \A k \in 3..(Len(frames) + 1) : frames'[k] = frames[k - 1]
        /\ UNCHANGED parent
  <2>1. NavTypes
    BY DEF NInv
  <2> QED BY <1>0, <2>1, VisitEffect
<1>2. PICK up : Loops(up)
  BY DEF NInv
<1>3. /\ \A t, n : n \in 0..len => (ChildOf(t, n)' <=> ChildOf(t, n))
      /\ \A n, m : n \in Nat /\ m \in 0..len => (Inside(n, m)' <=> Inside(n, m))
  BY <1>0, <1>1, PlacesStay DEF NInv
<1>4. /\ up \in [1..Len(frames) -> 0..len] /\ 1 \in 1..Len(frames)
      /\ \A k \in 1..Len(frames) : (\A t \in frames[k] : ChildOf(t, up[k])) /\ Inside(up[k], len)
      /\ \A k \in 1..Len(frames) : up[k] <= up[1]
      /\ \A k, l \in 1..Len(frames) : k < l => up[l] < up[k]
  <2>1. /\ up \in [1..Len(frames) -> 0..len] /\ 1 \in 1..Len(frames)
        /\ \A k \in 1..Len(frames) : (\A t \in frames[k] : ChildOf(t, up[k])) /\ Inside(up[k], len)
        /\ \A k, l \in 1..Len(frames) : k < l => up[l] < up[k]
    BY <1>0, <1>1, <1>2 DEF Loops
  <2>2. ASSUME NEW k \in 1..Len(frames) PROVE up[k] <= up[1]
    <3>1. up[k] \in Nat /\ up[1] \in Nat /\ (k = 1 \/ 1 < k)
      BY <2>1
    <3> QED BY <2>1, <3>1
  <2> QED BY <2>1, <2>2
<1>5. ChildOf(s, up[1])'
  BY <1>1, <1>3, <1>4
<1>6. ASSUME NEW n \in 1..(len + 1) PROVE \E m \in 0..(n - 1) : ChildOf(order[n], m)' /\ Inside(m, n - 1)'
  <2>1. CASE n \in 1..len
    <3>1. PICK m \in 0..(n - 1) : ChildOf(order[n], m) /\ Inside(m, n - 1)
      BY <1>0, <2>1 DEF NInv, Nested
    <3>2. m \in 0..len /\ n - 1 \in 0..len /\ m \in Nat /\ order'[n] = order[n]
      BY <1>1, <2>1
    <3> QED BY <1>3, <3>1, <3>2
  <2>2. CASE n = len + 1
    <3>1. up[1] \in 0..(n - 1) /\ n - 1 = len /\ n - 1 \in 0..len /\ up[1] \in Nat
      BY <1>4, <2>2
    <3>2. Inside(up[1], n - 1)'
      BY <1>3, <1>4, <3>1
    <3> QED BY <1>1, <1>5, <2>2, <3>1, <3>2
  <2> QED BY <2>1, <2>2
<1>7. Nested'
  BY <1>1, <1>6 DEF Nested
<1> DEFINE dn == [k \in 1..(Len(frames) + 1) |-> IF k = 1 THEN len + 1 ELSE up[k - 1]]
<1>8. PICK d : d = dn
  OBVIOUS
<1>9. /\ d \in [1..(Len(frames) + 1) -> 0..(len + 1)] /\ d[1] = len + 1
      /\ \A k \in 2..(Len(frames) + 1) : k - 1 \in 1..Len(frames) /\ d[k] = up[k - 1]
  <2>1. \A k \in 2..(Len(frames) + 1) : k - 1 \in 1..Len(frames)
    BY <1>1
  <2>2. \A k \in 2..(Len(frames) + 1) : up[k - 1] \in 0..(len + 1)
    BY <1>4, <2>1
  <2> QED BY <1>1, <1>8, <2>1, <2>2
<1> HIDE DEF dn
<1>10. \A k \in 2..(Len(frames) + 1) : frames'[k] \subseteq frames[k - 1]
  <2> TAKE k \in 2..(Len(frames) + 1)
  <2>1. k = 2 \/ k \in 3..(Len(frames) + 1)
    BY <1>1
  <2> QED BY <1>1, <2>1
\* What an outer loop has ahead is beside the span just visited or above it.
<1>11. ASSUME NEW k \in 1..Len(frames) PROVE Inside(up[k], len + 1)'
  <2>1. up[k] \in Nat /\ up[k] \in 0..len /\ up[k] <= up[1] /\ up[1] \in 0..len
    BY <1>4
  <2>2. Inside(up[k], len)'
    BY <1>3, <1>4, <2>1
  <2>3. ASSUME NEW h \in (up[k] + 1)..(len + 1) PROVE \E l \in up[k]..(h - 1) : ChildOf(order[h], l)'
    <3>1. CASE h \in (up[k] + 1)..len
      BY <2>2, <3>1 DEF Inside
    <3>2. CASE h = len + 1
      <4>1. up[1] \in up[k]..(h - 1)
        BY <2>1, <3>2
      <4> QED BY <1>1, <1>5, <3>2, <4>1
    <3> QED BY <2>1, <2>3, <3>1, <3>2
  <2> QED BY <2>3 DEF Inside
<1>12. Inside(len + 1, len + 1)'
  BY DEF Inside
<1>13. ASSUME NEW k \in 1..(Len(frames) + 1)
       PROVE  (\A t \in frames'[k] : ChildOf(t, d[k])') /\ Inside(d[k], len + 1)'
  <2>1. CASE k = 1
    <3>1. \A t \in Children(s) : ParentOf(t)' = s
      BY <1>1 DEF Children, ParentOf, SpanId
    <3>2. \A t \in Children(s) : ChildOf(t, len + 1)'
      BY <1>1, <3>1 DEF ChildOf
    <3> QED BY <1>1, <1>9, <1>12, <2>1, <3>2
  <2>2. CASE k \in 2..(Len(frames) + 1)
    <3>1. k - 1 \in 1..Len(frames) /\ d[k] = up[k - 1] /\ up[k - 1] \in 0..len
      BY <1>4, <1>9, <2>2
    <3>2. \A t \in frames'[k] : ChildOf(t, up[k - 1])'
      BY <1>3, <1>4, <1>10, <2>2, <3>1
    <3> QED BY <1>11, <3>1, <3>2
  <2> QED BY <1>1, <2>1, <2>2
<1>14. ASSUME NEW k \in 1..(Len(frames) + 1), NEW l \in 1..(Len(frames) + 1), k < l PROVE d[l] < d[k]
  <2>1. l \in 2..(Len(frames) + 1) /\ (k = 1 \/ k \in 2..(Len(frames) + 1))
    BY <1>1, <1>14
  <2>2. CASE k = 1
    BY <1>4, <1>9, <2>1, <2>2
  <2>3. CASE k \in 2..(Len(frames) + 1)
    <3>1. k - 1 < l - 1 /\ k - 1 \in 1..Len(frames) /\ l - 1 \in 1..Len(frames)
      BY <1>1, <1>9, <1>14, <2>1, <2>3
    <3> QED BY <1>4, <1>9, <2>1, <2>3, <3>1
  <2> QED BY <2>1, <2>2, <2>3
<1>15. Loops(d)'
  BY <1>1, <1>9, <1>13, <1>14 DEF Loops
<1> QED BY <1>7, <1>15

\* The end of a loop leaves the others as they were.
LEMMA ReturnKeepsNested == ASSUME NInv, Return PROVE Nested' /\ \E up : Loops(up)'
<1>0. PICK len \in Nat : Len(order) = len
  BY LenProperties DEF NInv, NavTypes
<1>1. /\ Len(frames) \in Nat /\ Len(frames') = Len(frames) - 1 /\ 1 <= Len(frames)
      /\ \A k \in 1..Len(frames') : frames'[k] = frames[k + 1]
      /\ UNCHANGED <<parent, order>>
  BY ReturnEffect DEF NInv
<1>2. PICK up : Loops(up)
  BY DEF NInv
<1>3. /\ \A t, n : n \in 0..len => (ChildOf(t, n)' <=> ChildOf(t, n))
      /\ \A n, m : n \in Nat /\ m \in 0..len => (Inside(n, m)' <=> Inside(n, m))
  BY <1>0, <1>1, PlacesStay DEF NInv
<1>4. /\ up \in [1..Len(frames) -> 0..len]
      /\ \A k \in 1..Len(frames) : (\A t \in frames[k] : ChildOf(t, up[k])) /\ Inside(up[k], len)
      /\ \A k, l \in 1..Len(frames) : k < l => up[l] < up[k]
  BY <1>0, <1>2 DEF Loops
<1>5. ASSUME NEW n \in 1..len PROVE \E m \in 0..(n - 1) : ChildOf(order[n], m)' /\ Inside(m, n - 1)'
  <2>1. PICK m \in 0..(n - 1) : ChildOf(order[n], m) /\ Inside(m, n - 1)
    BY <1>0 DEF NInv, Nested
  <2>2. m \in 0..len /\ n - 1 \in 0..len /\ m \in Nat /\ order'[n] = order[n]
    BY <1>1
  <2> QED BY <1>3, <2>1, <2>2
<1>6. Nested'
  BY <1>0, <1>1, <1>5 DEF Nested
<1>7. PICK d : d = [k \in 1..(Len(frames) - 1) |-> up[k + 1]]
  OBVIOUS
<1>8. \A k \in 1..(Len(frames) - 1) : k + 1 \in 1..Len(frames) /\ d[k] = up[k + 1]
  BY <1>1, <1>7
<1>9. d \in [1..(Len(frames) - 1) -> 0..len]
  BY <1>4, <1>7, <1>8
<1>10. ASSUME NEW k \in 1..(Len(frames) - 1)
       PROVE  (\A t \in frames'[k] : ChildOf(t, d[k])') /\ Inside(d[k], len)'
  <2>1. k + 1 \in 1..Len(frames) /\ d[k] = up[k + 1] /\ up[k + 1] \in 0..len /\ up[k + 1] \in Nat
        /\ frames'[k] = frames[k + 1]
    BY <1>1, <1>4, <1>8
  <2> QED BY <1>3, <1>4, <2>1
<1>11. ASSUME NEW k \in 1..(Len(frames) - 1), NEW l \in 1..(Len(frames) - 1), k < l PROVE d[l] < d[k]
  <2>1. k + 1 < l + 1
    BY <1>1, <1>11
  <2> QED BY <1>4, <1>8, <2>1
<1>12. Loops(d)'
  BY <1>0, <1>1, <1>9, <1>10, <1>11 DEF Loops
<1> QED BY <1>6, <1>12

\* The roots and the children of what was visited stay reached, and a first child comes next.
LEMMA VisitKeepsReached == ASSUME NInv, Visit PROVE Reached' /\ ChildFollows'
<1>0. PICK len \in Nat : Len(order) = len
  BY LenProperties DEF NInv, NavTypes
<1>1. PICK s \in SpanId :
        /\ s = First(frames[1]) /\ s \in frames[1] /\ Len(frames) \in Nat /\ 1 <= Len(frames)
        /\ Len(order') = len + 1 /\ order' \in Seq(SpanId)
        /\ order'[len + 1] = s /\ \A n \in 1..len : order'[n] = order[n]
        /\ Len(frames') = Len(frames) + 1 /\ frames' \in Seq(SUBSET SpanId)
        /\ frames'[1] = Children(s) /\ frames'[2] = frames[1] \ {s}
        /\ \A k \in 3..(Len(frames) + 1) : frames'[k] = frames[k - 1]
        /\ UNCHANGED <<parent, untimed>>
  <2>1. NavTypes
    BY DEF NInv
  <2> QED BY <1>0, <2>1, VisitEffect
<1>2. DOMAIN order = 1..len /\ DOMAIN order' = 1..(len + 1) /\ frames' # <<>>
  BY <1>0, <1>1, LenProperties DEF NInv, NavTypes
<1>3. Range(order') = Range(order) \cup {s}
  BY <1>1, <1>2 DEF Range
<1>4. /\ SpanId' = SpanId /\ \A t : ParentOf(t)' = ParentOf(t) /\ Children(t)' = Children(t)
      /\ \A S : First(S)' = First(S)
  BY <1>1 DEF SpanId, ParentOf, Children, First, Before
<1>5. \A k \in 2..Len(frames) : k + 1 \in 3..(Len(frames) + 1) /\ (k + 1) - 1 = k
  BY <1>1
<1>6. \A k \in 1..Len(frames) : \A t \in frames[k] : t = s \/ \E l \in 1..Len(frames') : t \in frames'[l]
  <2> TAKE k \in 1..Len(frames)
  <2> TAKE t \in frames[k]
  <2>1. CASE k = 1
    <3>1. 2 \in 1..Len(frames')
      BY <1>1
    <3> QED BY <1>1, <2>1, <3>1
  <2>2. CASE k \in 2..Len(frames)
    <3>1. k + 1 \in 1..Len(frames') /\ frames'[k + 1] = frames[k]
      BY <1>1, <1>5, <2>2
    <3> QED BY <3>1
  <2> QED BY <1>1, <2>1, <2>2
<1>7. ASSUME NEW t \in SpanId, ParentOf(t) \in {None} \cup Range(order')
      PROVE  t \in Range(order') \/ \E k \in 1..Len(frames') : t \in frames'[k]
  <2>1. CASE ParentOf(t) \in {None} \cup Range(order)
    <3>1. t \in Range(order) \/ \E k \in 1..Len(frames) : t \in frames[k]
      BY <2>1 DEF NInv, Reached
    <3> QED BY <1>3, <1>6, <3>1
  <2>2. CASE ParentOf(t) = s
    <3>1. t \in Children(s)
      BY <2>2, SpansAreNumbered DEF NInv, NavTypes
    <3>2. 1 \in 1..Len(frames')
      BY <1>1
    <3> QED BY <1>1, <3>1, <3>2
  <2> QED BY <1>3, <1>7, <2>1, <2>2
<1>8. Reached'
  BY <1>4, <1>7 DEF Reached
<1>9. ASSUME NEW n \in 1..(len + 1), Children(order'[n]) # {}
      PROVE  IF n < len + 1 THEN order'[n + 1] = First(Children(order'[n]))
             ELSE frames'[1] = Children(order'[n])
  <2>1. CASE n < len
    <3>1. n \in 1..len /\ n + 1 \in 1..len
      BY <2>1
    <3> QED BY <1>0, <1>1, <1>9, <2>1, <3>1 DEF NInv, ChildFollows
  <2>2. CASE n = len
    <3>1. n \in 1..len /\ ~(n < len) /\ order'[n] = order[n]
      BY <1>1, <2>2
    <3>2. frames[1] = Children(order[n])
      BY <1>0, <1>9, <2>2, <3>1 DEF NInv, ChildFollows
    <3> QED BY <1>1, <2>2, <3>1, <3>2
  <2>3. CASE n = len + 1
    BY <1>1, <2>3
  <2> QED BY <2>1, <2>2, <2>3
<1>10. ChildFollows'
  <2> SUFFICES ASSUME NEW n \in 1..(len + 1), Children(order'[n]) # {}
               PROVE  IF n < len + 1 THEN order'[n + 1] = First(Children(order'[n]))
                      ELSE frames' # <<>> /\ frames'[1] = Children(order'[n])
    BY <1>1, <1>4 DEF ChildFollows
  <2> QED BY <1>2, <1>9
<1> QED BY <1>8, <1>10

\* The end of a loop has nothing ahead, and is not right after a span with children.
LEMMA ReturnKeepsReached == ASSUME NInv, Return PROVE Reached' /\ ChildFollows'
<1>1. /\ frames[1] = {} /\ Len(frames) \in Nat /\ 1 <= Len(frames) /\ Len(frames') = Len(frames) - 1
      /\ \A k \in 1..Len(frames') : frames'[k] = frames[k + 1]
      /\ UNCHANGED <<parent, untimed, order>>
  BY ReturnEffect DEF NInv
<1>2. /\ SpanId' = SpanId /\ \A t : ParentOf(t)' = ParentOf(t) /\ Children(t)' = Children(t)
      /\ \A S : First(S)' = First(S)
  BY <1>1 DEF SpanId, ParentOf, Children, First, Before
<1>3. \A k \in 2..Len(frames) : k - 1 \in 1..Len(frames') /\ (k - 1) + 1 = k
  BY <1>1
<1>4. ASSUME NEW t, NEW k \in 1..Len(frames), t \in frames[k] PROVE \E l \in 1..Len(frames') : t \in frames'[l]
  <2>1. k \in 2..Len(frames)
    BY <1>1, <1>4
  <2>2. k - 1 \in 1..Len(frames') /\ frames'[k - 1] = frames[k]
    BY <1>1, <1>3, <2>1
  <2> QED BY <1>4, <2>2
<1>5. Reached'
  <2>1. Reached /\ Range(order)' = Range(order)
    BY <1>1 DEF NInv
  <2> QED BY <1>2, <1>4, <2>1 DEF Reached
<1>6. ASSUME NEW n \in 1..Len(order), Children(order[n]) # {}
      PROVE  n < Len(order) /\ order[n + 1] = First(Children(order[n]))
  BY <1>1, <1>6 DEF NInv, ChildFollows
<1>7. ChildFollows'
  <2> SUFFICES ASSUME NEW n \in 1..Len(order), Children(order[n]) # {}
               PROVE  n < Len(order) /\ order[n + 1] = First(Children(order[n]))
    BY <1>1, <1>2 DEF ChildFollows
  <2> QED BY <1>6
<1> QED BY <1>5, <1>7

\* The loops under way are over the children of different spans.
LEMMA LoopsApart ==
  ASSUME NInv, NEW k \in 1..Len(frames), NEW l \in 1..Len(frames), k < l,
         NEW s \in frames[k], NEW t \in frames[l]
  PROVE  ParentOf(s) # ParentOf(t)
<1>1. PICK up : Loops(up)
  BY DEF NInv
<1>2. /\ up[k] \in 0..Len(order) /\ up[l] \in 0..Len(order) /\ up[l] < up[k]
      /\ ChildOf(s, up[k]) /\ ChildOf(t, up[l])
  BY <1>1 DEF Loops
<1>3. /\ Len(order) \in Nat /\ None \notin SpanId
      /\ \A n \in 1..Len(order) : order[n] \in SpanId
      /\ \A m, n \in 1..Len(order) : order[m] = order[n] => m = n
  BY LenProperties, ElementOfSeq, SpansAreNumbered DEF NInv, NavTypes, Once
<1>4. up[k] \in 1..Len(order) /\ ParentOf(s) = order[up[k]]
  BY <1>2, <1>3 DEF ChildOf
<1>5. CASE up[l] = 0
  BY <1>2, <1>3, <1>4, <1>5 DEF ChildOf
<1>6. CASE up[l] # 0
  <2>1. up[l] \in 1..Len(order) /\ ParentOf(t) = order[up[l]] /\ up[l] # up[k]
    BY <1>2, <1>3, <1>6 DEF ChildOf
  <2> QED BY <1>3, <1>4, <2>1
<1> QED BY <1>5, <1>6

\* The span visited is the first of those ahead in its loop, and no sibling is in another.
LEMMA VisitKeepsInOrder == ASSUME NInv, Visit PROVE InOrder'
<1>0. PICK len \in Nat : Len(order) = len
  BY LenProperties DEF NInv, NavTypes
<1>1. PICK s \in SpanId :
        /\ s = First(frames[1]) /\ s \in frames[1] /\ Len(frames) \in Nat /\ 1 <= Len(frames)
        /\ frames[1] \subseteq SpanId /\ Len(order') = len + 1
        /\ order'[len + 1] = s /\ \A n \in 1..len : order'[n] = order[n]
        /\ Len(frames') = Len(frames) + 1
        /\ frames'[1] = Children(s) /\ frames'[2] = frames[1] \ {s}
        /\ \A k \in 3..(Len(frames) + 1) : frames'[k] = frames[k - 1]
        /\ UNCHANGED <<parent, untimed>>
  <2>1. NavTypes /\ frames \in Seq(SUBSET SpanId)
    BY DEF NInv, NavTypes
  <2>2. \A k \in 1..Len(frames) : frames[k] \in SUBSET SpanId
    <3> DEFINE S == SUBSET SpanId
    <3>1. frames \in Seq(S)
      BY <2>1
    <3> HIDE DEF S
    <3>2. \A k \in 1..Len(frames) : frames[k] \in S
      BY <3>1, ElementOfSeq
    <3> QED BY <3>2 DEF S
  <2>3. PICK s \in SpanId :
          /\ s = First(frames[1]) /\ s \in frames[1] /\ Len(frames) \in Nat /\ 1 <= Len(frames)
          /\ Len(order') = len + 1
          /\ order'[len + 1] = s /\ \A n \in 1..len : order'[n] = order[n]
          /\ Len(frames') = Len(frames) + 1
          /\ frames'[1] = Children(s) /\ frames'[2] = frames[1] \ {s}
          /\ \A k \in 3..(Len(frames) + 1) : frames'[k] = frames[k - 1]
          /\ UNCHANGED <<parent, untimed>>
    BY <1>0, <2>1, VisitEffect
  <2>4. frames[1] \subseteq SpanId
    BY <2>2, <2>3
  <2> QED BY <2>3, <2>4
<1>2. /\ SpanId' = SpanId /\ \A t : ParentOf(t)' = ParentOf(t)
      /\ \A t, u : Before(t, u)' <=> Before(t, u)
  BY <1>1 DEF SpanId, ParentOf, Before
<1>3. \A t \in frames[1] \ {s} : Before(s, t)
  BY <1>1, FirstIsFirst DEF NInv
<1>4. /\ \A m, n \in 1..len : m < n /\ ParentOf(order[m]) = ParentOf(order[n]) => Before(order[m], order[n])
      /\ \A n \in 1..len, k \in 1..Len(frames) :
           \A t \in frames[k] : ParentOf(order[n]) = ParentOf(t) => Before(order[n], t)
  BY <1>0 DEF NInv, InOrder
\* No child of s has a sibling that was visited.
<1>5. \A t \in Children(s) : ParentOf(t) = s
  BY <1>1, SpansAreNumbered DEF NInv, NavTypes
<1>6. ASSUME NEW n \in 1..(len + 1) PROVE ParentOf(order'[n]) # s
  <2>1. Once' /\ Nested'
    BY VisitKeepsOnce, VisitKeepsNested
  <2>2. PICK m \in 0..(n - 1) : ChildOf(order[n], m)'
    BY <1>1, <2>1 DEF Nested
  <2>3. m \in 1..len => order'[m] # s
    <3>1. m \in 1..len => m \in 1..Len(order') /\ len + 1 \in 1..Len(order') /\ m # len + 1
      BY <1>1
    <3> QED BY <1>1, <2>1, <3>1 DEF Once
  <2>4. s # None
    BY SpansAreNumbered DEF NInv, NavTypes
  <2>5. m = 0 \/ m \in 1..len
    OBVIOUS
  <2> QED BY <1>2, <2>2, <2>3, <2>4, <2>5 DEF ChildOf
<1>7. ASSUME NEW m \in 1..(len + 1), NEW n \in 1..(len + 1), m < n,
             ParentOf(order'[m]) = ParentOf(order'[n])
      PROVE  Before(order'[m], order'[n])
  <2>1. CASE n \in 1..len
    <3>1. m \in 1..len
      BY <1>7, <2>1
    <3> QED BY <1>1, <1>4, <1>7, <2>1, <3>1
  <2>2. CASE n = len + 1
    <3>1. m \in 1..len /\ 1 \in 1..Len(frames)
      BY <1>1, <1>7, <2>2
    <3> QED BY <1>1, <1>4, <1>7, <2>2, <3>1
  <2> QED BY <2>1, <2>2
<1>8. ASSUME NEW n \in 1..(len + 1), NEW k \in 1..(Len(frames) + 1), NEW t \in frames'[k],
             ParentOf(order'[n]) = ParentOf(t)
      PROVE  Before(order'[n], t)
  <2>1. k # 1
    BY <1>1, <1>5, <1>6, <1>8
  <2>2. PICK l \in 1..Len(frames) : l = k - 1
    BY <1>1, <2>1
  <2>3. t \in frames[l] /\ (l = 1 => t # s)
    <3>1. k = 2 \/ k \in 3..(Len(frames) + 1)
      BY <1>1, <2>1
    <3> QED BY <1>1, <1>8, <2>2, <3>1
  <2>4. CASE n \in 1..len
    BY <1>1, <1>4, <1>8, <2>3, <2>4
  <2>5. CASE n = len + 1
    <3>1. CASE l = 1
      BY <1>1, <1>3, <2>3, <2>5, <3>1
    <3>2. CASE l # 1
      <4>1. 1 \in 1..Len(frames) /\ 1 < l
        BY <1>1, <3>2
      <4>2. ParentOf(s) # ParentOf(t)
        BY <1>1, <2>3, <4>1, LoopsApart
      <4> QED BY <1>1, <1>8, <2>5, <4>2
    <3> QED BY <3>1, <3>2
  <2> QED BY <2>4, <2>5
<1> QED BY <1>1, <1>2, <1>7, <1>8 DEF InOrder

\* The end of a loop leaves the others.
LEMMA ReturnKeepsInOrder == ASSUME NInv, Return PROVE InOrder'
<1>1. /\ Len(frames) \in Nat /\ Len(frames') = Len(frames) - 1
      /\ \A k \in 1..Len(frames') : frames'[k] = frames[k + 1]
      /\ UNCHANGED <<parent, untimed, order>>
  BY ReturnEffect DEF NInv
<1>2. /\ SpanId' = SpanId /\ \A t : ParentOf(t)' = ParentOf(t)
      /\ \A t, u : Before(t, u)' <=> Before(t, u)
  BY <1>1 DEF SpanId, ParentOf, Before
<1>3. \A k \in 1..Len(frames') : k + 1 \in 1..Len(frames)
  BY <1>1
<1>4. InOrder
  BY DEF NInv
<1>5. ASSUME NEW n \in 1..Len(order), NEW k \in 1..Len(frames'), NEW t \in frames'[k],
             ParentOf(order[n]) = ParentOf(t)
      PROVE  Before(order[n], t)
  BY <1>1, <1>3, <1>4, <1>5 DEF InOrder
<1>6. \A m, n \in 1..Len(order) :
        m < n /\ ParentOf(order[m]) = ParentOf(order[n]) => Before(order[m], order[n])
  BY <1>4 DEF InOrder
<1> QED BY <1>1, <1>2, <1>5, <1>6 DEF InOrder

\* Where the commands go is a span.
LEMMA MovesToSpans ==
  ASSUME NavTypes, Walked
  PROVE  /\ \A kind \in {"next", "prev", "step", "finish"} : Move(kind) \in SpanId \cup {None}
         /\ \A hits : ContinueTo(hits) \in SpanId \cup {None}
         /\ Place \in 0..Len(order) /\ (Place # 0 => order[Place] = current) /\ Len(order) \in Nat
<1>1. Len(order) \in Nat /\ DOMAIN order = 1..Len(order) /\ \A n \in 1..Len(order) : order[n] \in SpanId
  BY LenProperties, ElementOfSeq DEF NavTypes
<1>2. Place \in 0..Len(order) /\ (Place # 0 => order[Place] = current)
  BY <1>1 DEF Place, Range
<1>3. \A n : Neighbour(n) \in SpanId \cup {None}
  BY <1>1 DEF Neighbour
<1>4. /\ \A S : S # {} /\ S \subseteq SpanId => First(S) \in SpanId
      /\ \A s : FirstChild(s) \in SpanId \cup {None}
  BY FirstIsFirst DEF FirstChild, Children
<1>5. order # <<>> => order[1] \in SpanId
  <2>1. order \in Seq(SpanId)
    BY DEF NavTypes
  <2>2. order # <<>> => Len(order) # 0
    BY <2>1
  <2> QED BY <1>1, <2>2
<1>6. Place # 0 => ParentOf(current) \in SpanId \cup {None}
  BY <1>1, <1>2, SpansAreNumbered DEF NavTypes
<1>7. ASSUME NEW kind \in {"next", "prev", "step", "finish"} PROVE Move(kind) \in SpanId \cup {None}
  <2>1. CASE order = <<>>
    BY <2>1 DEF Move
  <2>2. CASE order # <<>> /\ kind = "finish"
    BY <1>6, <2>2 DEF Move
  <2>3. CASE order # <<>> /\ kind # "finish" /\ Place = 0
    BY <1>5, <2>3 DEF Move
  <2>4. CASE order # <<>> /\ Place # 0 /\ kind = "next"
    BY <1>3, <2>4 DEF Move
  <2>5. CASE order # <<>> /\ Place # 0 /\ kind = "prev"
    BY <1>3, <2>5 DEF Move
  <2>6. CASE order # <<>> /\ Place # 0 /\ kind = "step"
    BY <1>3, <1>4, <2>6 DEF Move
  <2> QED BY <2>1, <2>2, <2>3, <2>4, <2>5, <2>6
<1>8. ASSUME NEW hits PROVE ContinueTo(hits) \in SpanId \cup {None}
  <2> DEFINE coming == {n \in DOMAIN order : n > Place /\ order[n] \in hits}
  <2>1. order # <<>> => Last(order) \in SpanId
    <3>1. order \in Seq(SpanId)
      BY DEF NavTypes
    <3>2. order # <<>> => Len(order) # 0
      BY <3>1
    <3> QED BY <1>1, <3>2 DEF Last
  <2>2. coming \subseteq Nat /\ coming \subseteq 1..Len(order)
    BY <1>1
  <2>3. coming # {} => Min(coming) \in coming
    <3> HIDE DEF coming
    <3> QED BY <2>2, LeastNumber DEF Min
  <2>4. coming # {} => order[Min(coming)] \in SpanId
    BY <1>1, <2>2, <2>3
  <2> HIDE DEF coming
  <2>5. ContinueTo(hits) = IF order = <<>> THEN None ELSE IF coming = {} THEN Last(order) ELSE order[Min(coming)]
    BY DEF ContinueTo, coming
  <2> QED BY <2>1, <2>4, <2>5
<1> QED BY <1>1, <1>2, <1>7, <1>8

\* The invariant holds at the beginning ...
LEMMA InitNInv == WalkInit => NInv
<1> SUFFICES ASSUME WalkInit PROVE NInv
  OBVIOUS
<1>1. \E n \in Nat : parent \in [1..n -> (1..n) \cup {Absent, None}]
  BY NavigationAssumption DEF WalkInit
<1>2. /\ SpanId = 1..Cardinality(SpanId) /\ Children(None) \subseteq SpanId
      /\ \A s \in SpanId : s \in Children(None) <=> ParentOf(s) = None
  BY <1>1, SpansAreNumbered
<1>3. /\ order \in Seq(SpanId) /\ Len(order) = 0 /\ DOMAIN order = {}
      /\ frames \in Seq(SUBSET SpanId) /\ Len(frames) = 1 /\ frames[1] = Children(None)
  BY <1>2 DEF WalkInit
<1>4. NavTypes
  BY <1>1, <1>3 DEF WalkInit, NavTypes
<1>5. Once /\ Nested /\ ChildFollows /\ InOrder
  BY <1>3 DEF Once, Nested, ChildFollows, InOrder
<1>6. Loops([k \in 1..1 |-> 0])
  <2>1. Inside(0, 0)
    BY DEF Inside
  <2>2. \A s \in Children(None) : ChildOf(s, 0)
    BY <1>2 DEF ChildOf
  <2> QED BY <1>3, <2>1, <2>2 DEF Loops
<1>7. Reached
  BY <1>2, <1>3 DEF Reached, Range
<1> QED BY <1>4, <1>5, <1>6, <1>7 DEF NInv

\* ... and every step keeps it.
LEMMA NextNInv == NInv /\ [WalkNext]_walkVars => NInv'
<1> SUFFICES ASSUME NInv, [WalkNext]_walkVars PROVE NInv'
  OBVIOUS
<1>1. CASE Visit
  <2>1. NavTypes'
    <3>1. /\ order' \in Seq(SpanId) /\ frames' \in Seq(SUBSET SpanId)
          /\ UNCHANGED <<parent, untimed, current>>
      BY <1>1, VisitEffect DEF NInv
    <3> QED BY <3>1 DEF NInv, NavTypes, SpanId
  <2> QED BY <1>1, <2>1, VisitKeepsOnce, VisitKeepsNested, VisitKeepsReached, VisitKeepsInOrder
        DEF NInv
<1>2. CASE Return
  <2>1. NavTypes'
    <3>1. frames' \in Seq(SUBSET SpanId) /\ UNCHANGED <<parent, untimed, order, current>>
      BY <1>2, ReturnEffect DEF NInv
    <3> QED BY <3>1 DEF NInv, NavTypes, SpanId
  <2> QED BY <1>2, <2>1, ReturnKeepsOnce, ReturnKeepsNested, ReturnKeepsReached, ReturnKeepsInOrder
        DEF NInv
<1>3. ASSUME UNCHANGED walked, current' \in SpanId \cup {None} PROVE NInv'
  <2>1. UNCHANGED <<parent, untimed, order, frames>>
    BY <1>3 DEF walked
  <2>2. NavTypes'
    BY <1>3, <2>1 DEF NInv, NavTypes, SpanId
  <2>3. Once'
    BY <2>1 DEF NInv, Once
  <2>4. Nested' /\ \A up : Loops(up)' <=> Loops(up)
    BY <2>1 DEF NInv, Nested, Loops, ChildOf, Inside, ParentOf, SpanId
  <2>5. Reached'
    BY <2>1 DEF NInv, Reached, ParentOf, SpanId
  <2>6. ChildFollows'
    BY <2>1 DEF NInv, ChildFollows, First, Before, Children, SpanId
  <2>7. InOrder'
    BY <2>1 DEF NInv, InOrder, Before, ParentOf, SpanId
  <2> QED BY <2>2, <2>3, <2>4, <2>5, <2>6, <2>7 DEF NInv
<1>4. ASSUME NEW kind \in {"next", "prev", "step", "finish"}, Walks(kind) PROVE NInv'
  BY <1>3, <1>4, MovesToSpans DEF Walks, NInv
<1>5. ASSUME NEW hits \in SUBSET SpanId, Continue(hits) PROVE NInv'
  BY <1>3, <1>5, MovesToSpans DEF Continue, NInv
<1>6. ASSUME NEW s \in SpanId, Select(s) PROVE NInv'
  BY <1>3, <1>6 DEF Select
<1>7. CASE UNCHANGED walkVars
  BY <1>3, <1>7 DEF walkVars, NInv, NavTypes
<1>8. CASE NoSpans
  BY <1>7, <1>8 DEF NoSpans
<1> QED BY <1>1, <1>2, <1>4, <1>5, <1>6, <1>7, <1>8 DEF WalkNext

-----------------------------------------------------------------------------
(* The way up *)

Heights == 0..Cardinality(SpanId)
Everyone == SpanId \cup {None}

\* Where `above' says one is n steps up from s.
Up(f, n, s) == IF n = 0 \/ s = None THEN s ELSE f[n - 1][ParentOf(s)]

ClimbsTo(f, n) == /\ f \in [Heights -> [Everyone -> Everyone]]
                  /\ \A k \in Heights, s \in Everyone : k < n => f[k][s] = Up(f, k, s)

IsAbove(f) == f = [n \in Heights |-> [s \in Everyone |-> Up(f, n, s)]]

\* One step further up.
LEMMA ClimbFurther ==
  ASSUME NavTypes, NEW f, NEW n \in Nat, ClimbsTo(f, n)
  PROVE  \E g : ClimbsTo(g, n + 1)
<1> DEFINE g == [k \in Heights |-> IF k = n THEN [s \in Everyone |-> Up(f, n, s)] ELSE f[k]]
<1>1. /\ Cardinality(SpanId) \in Nat /\ None \notin SpanId
      /\ \A s \in SpanId : ParentOf(s) \in Everyone
  BY SpansAreNumbered DEF NavTypes, Everyone
<1>2. f \in [Heights -> [Everyone -> Everyone]]
  BY DEF ClimbsTo
<1>3. ASSUME NEW k \in Heights, NEW s \in Everyone PROVE Up(f, k, s) \in Everyone
  <2>1. CASE k = 0 \/ s = None
    BY <2>1 DEF Up
  <2>2. CASE k # 0 /\ s # None
    <3>1. k - 1 \in Heights /\ s \in SpanId
      BY <1>1, <2>2 DEF Heights, Everyone
    <3>2. f[k - 1] \in [Everyone -> Everyone]
      BY <1>2, <3>1
    <3> QED BY <1>1, <2>2, <3>1, <3>2 DEF Up
  <2> QED BY <2>1, <2>2
<1>4. g \in [Heights -> [Everyone -> Everyone]]
  <2>1. n \in Heights => [s \in Everyone |-> Up(f, n, s)] \in [Everyone -> Everyone]
    BY <1>3
  <2> QED BY <1>2, <2>1
<1>5. ASSUME NEW k \in Heights, NEW s \in Everyone, k < n + 1 PROVE g[k][s] = Up(g, k, s)
  <2>1. k \in Nat /\ Cardinality(SpanId) \in Nat
    BY <1>1 DEF Heights
  <2>2. Up(g, k, s) = Up(f, k, s)
    <3>1. CASE k = 0 \/ s = None
      BY <3>1 DEF Up
    <3>2. CASE k # 0 /\ s # None
      <4>1. k - 1 \in Heights /\ k - 1 # n
        BY <1>1, <1>5, <2>1, <3>2 DEF Heights
      <4>2. g[k - 1] = f[k - 1]
        BY <4>1
      <4> QED BY <3>2, <4>2 DEF Up
    <3> QED BY <3>1, <3>2
  <2>3. g[k][s] = Up(f, k, s)
    <3>1. CASE k = n
      BY <3>1
    <3>2. CASE k < n
      <4>1. g[k] = f[k]
        BY <2>1, <3>2
      <4> QED BY <3>2, <4>1 DEF ClimbsTo
    <3> QED BY <1>5, <2>1, <3>1, <3>2
  <2> QED BY <2>2, <2>3
<1> HIDE DEF g
<1> QED BY <1>4, <1>5 DEF ClimbsTo

\* There is such a function ...
LEMMA AboveExists == ASSUME NavTypes PROVE \E f : IsAbove(f)
<1>1. Cardinality(SpanId) \in Nat
  BY SpansAreNumbered DEF NavTypes
<1> DEFINE Unclimbed == {n \in Nat : ~\E f : ClimbsTo(f, n)}
<1>2. Unclimbed = {}
  <2>1. SUFFICES ASSUME Unclimbed # {} PROVE FALSE
    OBVIOUS
  <2>2. PICK n \in Unclimbed : \A m \in Unclimbed : n <= m
    <3>1. Unclimbed \subseteq Nat
      OBVIOUS
    <3> HIDE DEF Unclimbed
    <3> QED BY <2>1, <3>1, LeastNumber
  <2>3. n # 0
    <3> DEFINE f == [k \in Heights |-> [s \in Everyone |-> s]]
    <3>1. f \in [Heights -> [Everyone -> Everyone]] /\ \A k \in Heights : ~(k < 0)
      BY <1>1 DEF Heights
    <3> HIDE DEF f
    <3>2. ClimbsTo(f, 0)
      BY <3>1 DEF ClimbsTo
    <3> QED BY <3>2
  <2>4. n - 1 \in Nat /\ (n - 1) + 1 = n /\ ~(n <= n - 1)
    BY <2>3
  <2>5. PICK f : ClimbsTo(f, n - 1)
    BY <2>2, <2>4
  <2>6. \E g : ClimbsTo(g, n)
    BY <2>4, <2>5, ClimbFurther
  <2> QED BY <2>6
<1>3. PICK f : ClimbsTo(f, Cardinality(SpanId) + 1)
  <2>1. Cardinality(SpanId) + 1 \in Nat
    BY <1>1
  <2> QED BY <1>2, <2>1
<1>4. \A k \in Heights, s \in Everyone : f[k][s] = Up(f, k, s)
  <2>1. \A k \in Heights : k < Cardinality(SpanId) + 1
    BY <1>1 DEF Heights
  <2> QED BY <1>3, <2>1 DEF ClimbsTo
<1>5. f = [k \in Heights |-> [s \in Everyone |-> f[k][s]]]
  BY <1>3 DEF ClimbsTo
<1>6. f = [k \in Heights |-> [s \in Everyone |-> Up(f, k, s)]]
  BY <1>4, <1>5
<1> QED BY <1>6 DEF IsAbove

\* ... and `above' is one.
LEMMA AboveIs ==
  ASSUME NavTypes
  PROVE  \A n \in Heights, s \in Everyone :
           above[n][s] = IF n = 0 \/ s = None THEN s ELSE above[n - 1][ParentOf(s)]
<1>1. above = CHOOSE f : IsAbove(f)
  BY DEF above, IsAbove, Up, Heights, Everyone
<1>2. IsAbove(above)
  BY <1>1, AboveExists
<1>3. above = [n \in Heights |-> [s \in Everyone |-> Up(above, n, s)]]
  BY <1>2 DEF IsAbove
<1>4. \A n \in Heights, s \in Everyone : above[n][s] = Up(above, n, s)
  BY <1>3
<1> QED BY <1>4 DEF Up

\* There are no more places than spans.
LEMMA FewPlaces ==
  ASSUME NavTypes, Once
  PROVE  Len(order) \in Nat /\ Cardinality(SpanId) \in Nat /\ Len(order) <= Cardinality(SpanId)
<1>1. /\ Len(order) \in Nat /\ DOMAIN order = 1..Len(order)
      /\ order \in [1..Len(order) -> SpanId]
  BY LenProperties DEF NavTypes
<1>2. Cardinality(SpanId) \in Nat /\ SpanId = 1..Cardinality(SpanId)
  BY SpansAreNumbered DEF NavTypes
<1>3. IsFiniteSet(SpanId)
  <2>1. IsFiniteSet(1..Cardinality(SpanId))
    BY <1>2, FS_Interval
  <2> QED BY <1>2, <2>1
<1>4. order \in Injection(1..Len(order), SpanId)
  BY <1>1 DEF Once, Injection, IsInjective
<1>5. Cardinality(1..Len(order)) = Len(order)
  BY <1>1, FS_Interval
<1>6. Cardinality(1..Len(order)) <= Cardinality(SpanId)
  BY <1>3, <1>4, FS_Injection
<1> QED BY <1>1, <1>2, <1>5, <1>6

\* The way up from the span at place n ends after d steps, at places up to n and at none twice.
EndsAfter(n, d) ==
  /\ d \in 1..n /\ above[d][order[n]] = None
  /\ \A h \in 0..(d - 1) : /\ \E k \in 1..n : above[h][order[n]] = order[k]
                           /\ \A g \in 0..(h - 1) : above[g][order[n]] # above[h][order[n]]

\* Places are in reach, and what is there has a parent that was visited before or none.
LEMMA PlacesKnown ==
  ASSUME NInv
  PROVE  /\ Len(order) \in Nat /\ Cardinality(SpanId) \in Nat /\ Len(order) <= Cardinality(SpanId)
         /\ None \notin SpanId /\ DOMAIN order = 1..Len(order)
         /\ \A n \in 1..Len(order) : order[n] \in SpanId
         /\ \A m, n \in 1..Len(order) : order[m] = order[n] => m = n
         /\ \A n \in 1..Len(order) : \E m \in 0..(n - 1) : ChildOf(order[n], m)
<1>1. order \in Seq(SpanId) /\ NavTypes /\ Once /\ Nested
  BY DEF NInv, NavTypes
<1>2. Len(order) \in Nat /\ Cardinality(SpanId) \in Nat /\ Len(order) <= Cardinality(SpanId)
  BY <1>1, FewPlaces
<1>3. /\ None \notin SpanId /\ DOMAIN order = 1..Len(order)
      /\ \A n \in 1..Len(order) : order[n] \in SpanId
  BY <1>1, SpansAreNumbered, LenProperties, ElementOfSeq DEF NavTypes
<1>4. \A n \in 1..Len(order) : \E m \in 0..(n - 1) : ChildOf(order[n], m)
  BY <1>1 DEF Nested
<1> QED BY <1>1, <1>2, <1>3, <1>4 DEF Once

\* One step up from a span, the way goes on as from its parent.
LEMMA OneAbove ==
  ASSUME NInv, NEW n \in 1..Len(order), NEW h \in 1..Cardinality(SpanId)
  PROVE  above[0][order[n]] = order[n] /\ above[h][order[n]] = above[h - 1][ParentOf(order[n])]
<1>1. /\ NavTypes /\ Cardinality(SpanId) \in Nat /\ order[n] \in SpanId /\ None \notin SpanId
  BY PlacesKnown DEF NInv
<1>2. 0 \in Heights /\ h \in Heights /\ h # 0 /\ order[n] \in Everyone /\ order[n] # None
  BY <1>1 DEF Heights, Everyone
<1> QED BY <1>1, <1>2, AboveIs

\* The way up from a root ends at once.
LEMMA RootEnds ==
  ASSUME NInv, NEW n \in 1..Len(order), ParentOf(order[n]) = None
  PROVE  EndsAfter(n, 1)
<1>1. /\ NavTypes /\ Cardinality(SpanId) \in Nat /\ Len(order) \in Nat
      /\ Len(order) <= Cardinality(SpanId)
  BY PlacesKnown DEF NInv
<1>2. 1 \in 1..Cardinality(SpanId) /\ 0 \in Heights /\ None \in Everyone
  BY <1>1 DEF Heights, Everyone
<1>3. above[0][None] = None
  BY <1>1, <1>2, AboveIs
<1>4. above[0][order[n]] = order[n] /\ above[1][order[n]] = None
  BY <1>2, <1>3, OneAbove
<1> QED BY <1>4 DEF EndsAfter

\* The way up from a child is one step longer.
LEMMA ChildEnds ==
  ASSUME NInv, NEW n \in 1..Len(order), NEW m \in 1..(n - 1), ParentOf(order[n]) = order[m],
         NEW d, EndsAfter(m, d)
  PROVE  /\ EndsAfter(n, d + 1)
         /\ \A h \in 1..(d + 1) : above[h][order[n]] = above[h - 1][order[m]]
         /\ above[0][order[n]] = order[n]
<1>1. /\ Cardinality(SpanId) \in Nat /\ Len(order) \in Nat /\ Len(order) <= Cardinality(SpanId)
      /\ \A k, l \in 1..Len(order) : order[k] = order[l] => k = l
  BY PlacesKnown
<1>2. /\ d \in 1..m /\ above[d][order[m]] = None
      /\ \A h \in 0..(d - 1) : /\ \E k \in 1..m : above[h][order[m]] = order[k]
                               /\ \A g \in 0..(h - 1) : above[g][order[m]] # above[h][order[m]]
  BY DEF EndsAfter
<1>3. d \in Nat /\ d + 1 \in 1..n /\ \A h \in 1..(d + 1) : h \in 1..Cardinality(SpanId)
  BY <1>1, <1>2
<1>4. \A h \in 1..(d + 1) : above[h][order[n]] = above[h - 1][order[m]]
  BY <1>3, OneAbove
<1>5. above[0][order[n]] = order[n]
  <2>1. 1 \in 1..Cardinality(SpanId)
    BY <1>1
  <2> QED BY <2>1, OneAbove
<1>6. above[d + 1][order[n]] = None
  <2>1. d + 1 \in 1..(d + 1) /\ (d + 1) - 1 = d
    BY <1>2
  <2> QED BY <1>2, <1>4, <2>1
<1>7. ASSUME NEW h \in 1..d PROVE \E k \in 1..m : above[h][order[n]] = order[k]
  <2>1. h \in 1..(d + 1) /\ h - 1 \in 0..(d - 1)
    BY <1>2
  <2> QED BY <1>2, <1>4, <2>1
<1>8. ASSUME NEW h \in 0..d PROVE \E k \in 1..n : above[h][order[n]] = order[k]
  <2>1. CASE h = 0
    BY <1>5, <2>1
  <2>2. CASE h # 0
    <3>1. h \in 1..d /\ \A k \in 1..m : k \in 1..n
      BY <1>2, <2>2
    <3> QED BY <1>7, <3>1
  <2> QED BY <2>1, <2>2
<1>9. ASSUME NEW h \in 0..d, NEW g \in 0..(h - 1) PROVE above[g][order[n]] # above[h][order[n]]
  <2>1. h \in 1..d /\ h \in 1..(d + 1) /\ h - 1 \in 0..(d - 1)
    BY <1>2
  <2>2. CASE g = 0
    <3>1. PICK k \in 1..m : above[h][order[n]] = order[k]
      BY <1>7, <2>1
    <3>2. k \in 1..Len(order) /\ k # n
      BY <1>1
    <3> QED BY <1>1, <1>5, <2>2, <3>1, <3>2
  <2>3. CASE g # 0
    <3>1. g \in 1..(d + 1) /\ g - 1 \in 0..((h - 1) - 1)
      BY <1>3, <2>1, <2>3
    <3> QED BY <1>2, <1>4, <2>1, <3>1
  <2> QED BY <2>2, <2>3
<1>10. (d + 1) - 1 = d
  BY <1>2
<1>11. EndsAfter(n, d + 1)
  BY <1>3, <1>6, <1>8, <1>9, <1>10 DEF EndsAfter
<1> QED BY <1>4, <1>5, <1>11

\* From every place the way up ends.
LEMMA WayUpEnds == ASSUME NInv PROVE \A n \in 1..Len(order) : \E d : EndsAfter(n, d)
<1> DEFINE Endless == {n \in 1..Len(order) : ~\E d : EndsAfter(n, d)}
<1>1. SUFFICES ASSUME Endless # {} PROVE FALSE
  OBVIOUS
<1>2. Endless \subseteq Nat
  BY PlacesKnown
<1>3. PICK n \in Endless : \A m \in Endless : n <= m
  <2> HIDE DEF Endless
  <2> QED BY <1>1, <1>2, LeastNumber
<1>4. Len(order) \in Nat /\ n \in 1..Len(order)
  BY PlacesKnown
<1>5. PICK m \in 0..(n - 1) : ChildOf(order[n], m)
  BY <1>4, PlacesKnown
<1>6. m # 0
  BY <1>4, <1>5, RootEnds DEF ChildOf
<1>7. m \in 1..(n - 1) /\ m \in 1..Len(order) /\ ~(n <= m)
  BY <1>4, <1>6
<1>8. PICK d : EndsAfter(m, d)
  BY <1>3, <1>7
<1>9. ParentOf(order[n]) = order[m]
  BY <1>5, <1>6 DEF ChildOf
<1>10. \E e : EndsAfter(n, e)
  BY <1>4, <1>7, <1>8, <1>9, ChildEnds
<1> QED BY <1>10

\* It is as far as pathTo climbs.
LEMMA ClimbIs ==
  ASSUME NInv, NEW n \in 1..Len(order), NEW d, EndsAfter(n, d)
  PROVE  Climb(order[n]) = d
<1> DEFINE s == order[n]
           Stops(k) == /\ above[k][s] \in {None} \cup {above[m][s] : m \in 0..(k - 1)}
                       /\ \A l \in 1..(k - 1) : above[l][s] \notin {None} \cup {above[m][s] : m \in 0..(l - 1)}
<1>1. /\ Cardinality(SpanId) \in Nat /\ Len(order) \in Nat /\ Len(order) <= Cardinality(SpanId)
      /\ None \notin SpanId /\ \A k \in 1..Len(order) : order[k] \in SpanId
  BY PlacesKnown
<1>2. /\ d \in 1..n /\ above[d][s] = None
      /\ \A h \in 0..(d - 1) : /\ \E k \in 1..n : above[h][s] = order[k]
                               /\ \A g \in 0..(h - 1) : above[g][s] # above[h][s]
  BY DEF EndsAfter
<1>3. d \in 1..Cardinality(SpanId)
  BY <1>1, <1>2
<1> HIDE DEF s
<1>4. Stops(d)
  <2>1. ASSUME NEW l \in 1..(d - 1) PROVE above[l][s] \notin {None} \cup {above[m][s] : m \in 0..(l - 1)}
    <3>1. l \in 0..(d - 1)
      BY <1>2
    <3>2. PICK k \in 1..n : above[l][s] = order[k]
      BY <1>2, <3>1
    <3>3. k \in 1..Len(order)
      BY <1>1
    <3> QED BY <1>1, <1>2, <3>1, <3>2, <3>3
  <2> QED BY <1>2, <2>1
<1>5. ASSUME NEW k \in 1..Cardinality(SpanId), Stops(k) PROVE k = d
  <2>1. CASE k < d
    <3>1. k \in 1..(d - 1)
      BY <1>2, <2>1
    <3> QED BY <1>4, <1>5, <3>1
  <2>2. CASE d < k
    <3>1. d \in 1..(k - 1)
      BY <1>2, <2>2
    <3> QED BY <1>2, <1>5, <3>1
  <2> QED BY <1>2, <2>1, <2>2
<1>6. Climb(s) = CHOOSE k \in 1..Cardinality(SpanId) : Stops(k)
  BY DEF Climb
<1> HIDE DEF Stops
<1>7. Climb(s) = d
  BY <1>3, <1>4, <1>5, <1>6
<1> QED BY <1>7 DEF s

\* The path to a span that has a parent is the one to its parent and the span.
LEMMA PathGrows ==
  ASSUME NInv, NEW n \in 1..Len(order), ParentOf(order[n]) # None
  PROVE  /\ \E m \in 1..(n - 1) : order[m] = ParentOf(order[n])
         /\ PathTo(order[n]) = Append(PathTo(ParentOf(order[n])), order[n])
<1>1. Len(order) \in Nat
  BY PlacesKnown
<1>2. PICK m \in 0..(n - 1) : ChildOf(order[n], m)
  BY PlacesKnown
<1>3. m \in 1..(n - 1) /\ m \in 1..Len(order) /\ ParentOf(order[n]) = order[m]
  BY <1>1, <1>2 DEF ChildOf
<1>4. PICK d : EndsAfter(m, d)
  BY <1>3, WayUpEnds
<1>5. /\ EndsAfter(n, d + 1) /\ above[0][order[n]] = order[n]
      /\ \A h \in 1..(d + 1) : above[h][order[n]] = above[h - 1][order[m]]
  BY <1>3, <1>4, ChildEnds
<1>6. Climb(order[m]) = d /\ Climb(order[n]) = d + 1 /\ d \in Nat /\ 1 <= d
  <2>1. d \in 1..m
    BY <1>4 DEF EndsAfter
  <2>2. Climb(order[m]) = d
    BY <1>3, <1>4, ClimbIs
  <2>3. Climb(order[n]) = d + 1
    BY <1>5, ClimbIs
  <2> QED BY <1>3, <2>1, <2>2, <2>3
<1>7. PathTo(order[m]) = [k \in 1..d |-> above[d - k][order[m]]]
  BY <1>6 DEF PathTo
<1>8. PathTo(order[n]) = [k \in 1..(d + 1) |-> above[(d + 1) - k][order[n]]]
  BY <1>6 DEF PathTo
<1>9. ASSUME NEW k \in 1..(d + 1)
      PROVE  above[(d + 1) - k][order[n]] = IF k = d + 1 THEN order[n] ELSE PathTo(order[m])[k]
  <2>1. CASE k = d + 1
    <3>1. (d + 1) - k = 0
      BY <1>6, <2>1
    <3> QED BY <1>5, <2>1, <3>1
  <2>2. CASE k # d + 1
    <3>1. (d + 1) - k \in 1..(d + 1) /\ ((d + 1) - k) - 1 = d - k /\ k \in 1..d
      BY <1>6, <2>2
    <3> QED BY <1>5, <1>7, <2>2, <3>1
  <2> QED BY <2>1, <2>2
<1>10. PICK p : p = PathTo(order[m])
  OBVIOUS
<1>11. Len(p) = d
  BY <1>6, <1>7, <1>10
<1>12. Append(p, order[n]) = [k \in 1..(d + 1) |-> IF k = d + 1 THEN order[n] ELSE p[k]]
  BY <1>6, <1>11
<1>13. PathTo(order[n]) = [k \in 1..(d + 1) |-> IF k = d + 1 THEN order[n] ELSE p[k]]
  BY <1>8, <1>9, <1>10
<1> QED BY <1>3, <1>10, <1>12, <1>13

-----------------------------------------------------------------------------
(* The commands *)

\* The place of a span of the walk is its place.
LEMMA PlaceIs ==
  ASSUME NInv
  PROVE  /\ Place \in 0..Len(order) /\ (Place # 0 => order[Place] = current)
         /\ \A n \in 1..Len(order) : current = order[n] => Place = n
<1>1. /\ DOMAIN order = 1..Len(order) /\ Len(order) \in Nat
      /\ \A m, n \in 1..Len(order) : order[m] = order[n] => m = n
  BY PlacesKnown
<1>2. Place \in 0..Len(order) /\ (Place # 0 => order[Place] = current)
  BY <1>1 DEF Place, Range
<1>3. ASSUME NEW n \in 1..Len(order), current = order[n] PROVE Place = n
  <2>1. current \in Range(order)
    BY <1>1, <1>3 DEF Range
  <2>2. Place = CHOOSE m \in 1..Len(order) : order[m] = current
    BY <1>1, <2>1 DEF Place
  <2> QED BY <1>1, <1>3, <2>2
<1> QED BY <1>2, <1>3

\* `step' and `next' are one.
LEMMA StepIsNext == ASSUME NInv, Walked PROVE Move("step") = Move("next")
<1>1. Place \in 0..Len(order) /\ (Place # 0 => order[Place] = current) /\ Len(order) \in Nat
  BY PlaceIs, PlacesKnown
<1>2. CASE order = <<>> \/ Place = 0
  BY <1>2 DEF Move
<1>3. CASE order # <<>> /\ Place # 0
  <2>1. /\ Move("next") = Neighbour(Place + 1)
        /\ Move("step") = IF FirstChild(current) # None THEN FirstChild(current) ELSE Neighbour(Place + 1)
    BY <1>3 DEF Move
  <2>2. CASE Children(current) = {}
    BY <2>1, <2>2 DEF FirstChild
  <2>3. CASE Children(current) # {}
    <3>1. Place \in 1..Len(order) /\ order[Place] = current
      BY <1>1, <1>3
    <3>2. Place < Len(order) /\ order[Place + 1] = First(Children(current))
      BY <2>3, <3>1 DEF NInv, ChildFollows, Walked
    <3>3. FirstChild(current) = order[Place + 1]
      BY <2>3, <3>2 DEF FirstChild
    <3>4. Place + 1 \in DOMAIN order
      BY <1>1, <3>1, <3>2, PlacesKnown
    <3> QED BY <2>1, <3>3, <3>4 DEF Neighbour
  <2> QED BY <2>2, <2>3
<1> QED BY <1>2, <1>3

\* `prev' takes `next' back.
LEMMA PrevIsBack ==
  ASSUME NInv, NEW n \in 1..Len(order), n > 1, current = order[n]
  PROVE  Move("prev") = order[n - 1]
<1>1. DOMAIN order = 1..Len(order) /\ Len(order) \in Nat /\ Place = n
  BY PlaceIs, PlacesKnown
<1>2. order # <<>> /\ Place # 0 /\ n - 1 \in DOMAIN order
  BY <1>1
<1>3. Move("prev") = Neighbour(Place - 1)
  BY <1>2 DEF Move
<1> QED BY <1>1, <1>2, <1>3 DEF Neighbour

\* `finish' climbs the path of `where'.
LEMMA FinishClimbs ==
  ASSUME NInv, Move("finish") # None
  PROVE  /\ \E n \in DOMAIN order : n < Place /\ order[n] = Move("finish")
         /\ PathTo(current) = Append(PathTo(Move("finish")), current)
<1>1. /\ Place \in 0..Len(order) /\ (Place # 0 => order[Place] = current)
      /\ Len(order) \in Nat /\ DOMAIN order = 1..Len(order)
  BY PlaceIs, PlacesKnown
<1>2. Place # 0 /\ Move("finish") = ParentOf(current)
  BY DEF Move
<1>3. Place \in 1..Len(order) /\ order[Place] = current
  BY <1>1, <1>2
<1>4. /\ \E m \in 1..(Place - 1) : order[m] = ParentOf(current)
      /\ PathTo(current) = Append(PathTo(ParentOf(current)), current)
  BY <1>2, <1>3, PathGrows
<1>5. \A m \in 1..(Place - 1) : m \in DOMAIN order /\ m < Place
  BY <1>1, <1>3
<1> QED BY <1>2, <1>4, <1>5

\* `continue' stops at the first hit ahead, or at the end.
LEMMA StopsAtFirstHit == ASSUME NInv PROVE ContinueMeetsEveryHit
<1> DEFINE coming == {n \in DOMAIN order : n > Place}
<1>1. SUFFICES ASSUME NEW hits, coming # {}
               PROVE  \E k \in coming : /\ ContinueTo(hits) = order[k]
                                        /\ \A n \in coming : order[n] \in hits => n >= k
  BY DEF ContinueMeetsEveryHit
<1> DEFINE hit == {n \in DOMAIN order : n > Place /\ order[n] \in hits}
<1>2. /\ Place \in 0..Len(order) /\ Len(order) \in Nat /\ DOMAIN order = 1..Len(order)
  BY PlaceIs, PlacesKnown
<1>3. order # <<>>
  BY <1>1, <1>2
<1>4. ContinueTo(hits) = IF hit = {} THEN Last(order) ELSE order[Min(hit)]
  BY <1>3 DEF ContinueTo
<1>5. CASE hit = {}
  <2>1. ContinueTo(hits) = order[Len(order)]
    BY <1>4, <1>5 DEF Last
  <2>2. Len(order) \in coming
    BY <1>1, <1>2
  <2> QED BY <1>5, <2>1, <2>2
<1>6. CASE hit # {}
  <2>1. hit \subseteq Nat
    BY <1>2
  <2>2. Min(hit) \in hit /\ \A n \in hit : Min(hit) <= n
    <3> HIDE DEF hit
    <3> QED BY <1>6, <2>1, LeastNumber DEF Min
  <2>3. Min(hit) \in coming /\ \A n \in coming : order[n] \in hits => n \in hit
    BY <2>2
  <2>4. \A n \in hit : n >= Min(hit)
    <3>1. Min(hit) \in Nat /\ \A n \in hit : n \in Nat
      BY <2>1, <2>2
    <3> QED BY <2>2, <3>1
  <2>5. PICK m : m = Min(hit)
    OBVIOUS
  <2>6. m \in coming /\ ContinueTo(hits) = order[m] /\ \A n \in coming : order[n] \in hits => n >= m
    BY <1>4, <1>6, <2>3, <2>4, <2>5
  <2> QED BY <2>6
<1> QED BY <1>5, <1>6

\* Wherever one stands in a trace of any number of spans, also at a span that is not in the
\* walk, `step' goes where `next' goes, `prev' takes it back, `finish' climbs the path that
\* `where' prints, and `continue' passes no hit over (nav.ts:59-87, store.ts:252-276).
THEOREM MovesAlongTheWalk == WalkSpec => []MovesFollowTheWalk
<1>1. NInv => MovesFollowTheWalk
  <2> SUFFICES ASSUME NInv, Walked PROVE MovesAgree /\ ContinueMeetsEveryHit
    BY DEF MovesFollowTheWalk
  <2>1. DOMAIN order = 1..Len(order)
    BY PlacesKnown
  <2> QED BY <2>1, StepIsNext, PrevIsBack, FinishClimbs, StopsAtFirstHit DEF MovesAgree
<1> QED BY <1>1, InitNInv, NextNInv, PTL DEF WalkSpec

-----------------------------------------------------------------------------
(* The walk and the forest *)

\* The parent of s, of none too.
Parent(s) == IF s = None THEN None ELSE ParentOf(s)

\* Of n + 1 steps up from s the last is one from where n steps lead.
LEMMA LastStepUp ==
  ASSUME NavTypes, NEW s \in Everyone, NEW h \in 1..Cardinality(SpanId)
  PROVE  above[h][s] = Parent(above[h - 1][s])
<1> DEFINE Bad == {n \in 1..Cardinality(SpanId) : \E t \in Everyone : above[n][t] # Parent(above[n - 1][t])}
<1>1. /\ Cardinality(SpanId) \in Nat /\ None \notin SpanId
      /\ \A t \in SpanId : ParentOf(t) \in Everyone
  BY SpansAreNumbered DEF NavTypes, Everyone
<1>2. SUFFICES ASSUME Bad # {} PROVE FALSE
  OBVIOUS
<1>3. PICK n \in Bad : \A m \in Bad : n <= m
  <2>1. Bad \subseteq Nat
    OBVIOUS
  <2> HIDE DEF Bad
  <2> QED BY <1>2, <2>1, LeastNumber
<1>4. PICK t \in Everyone : above[n][t] # Parent(above[n - 1][t])
  BY <1>3
<1>5. n \in 1..Cardinality(SpanId) /\ n \in Heights /\ n - 1 \in Heights /\ n # 0
  BY <1>1, <1>3 DEF Heights
<1>6. t # None
  <2>1. above[n][None] = None /\ above[n - 1][None] = None
    BY <1>5, AboveIs DEF Everyone
  <2> QED BY <1>4, <2>1 DEF Parent
<1>7. above[n][t] = above[n - 1][ParentOf(t)] /\ ParentOf(t) \in Everyone
  BY <1>1, <1>5, <1>6, AboveIs DEF Everyone
<1>8. CASE n = 1
  <2>1. above[0][t] = t /\ above[0][ParentOf(t)] = ParentOf(t) /\ n - 1 = 0
    BY <1>5, <1>7, <1>8, AboveIs
  <2> QED BY <1>4, <1>6, <1>7, <2>1 DEF Parent
<1>9. CASE n # 1
  <2>1. n - 1 \in 1..Cardinality(SpanId) /\ ~(n <= n - 1) /\ (n - 1) - 1 \in Heights /\ n - 1 # 0
    BY <1>1, <1>5, <1>9 DEF Heights
  <2>2. n - 1 \notin Bad
    BY <1>3, <2>1
  <2>3. above[n - 1][ParentOf(t)] = Parent(above[(n - 1) - 1][ParentOf(t)])
    BY <1>7, <2>1, <2>2
  <2>4. above[n - 1][t] = above[(n - 1) - 1][ParentOf(t)]
    BY <1>5, <1>6, <2>1, AboveIs
  <2> QED BY <1>4, <1>7, <2>3, <2>4
<1> QED BY <1>8, <1>9

\* A climb stops at step k, not before.
StopsAt(s, k) ==
  /\ above[k][s] \in {None} \cup {above[m][s] : m \in 0..(k - 1)}
  /\ \A l \in 1..(k - 1) : above[l][s] \notin {None} \cup {above[m][s] : m \in 0..(l - 1)}

\* Every climb stops: there are fewer spans than steps.
LEMMA EveryClimbStops ==
  ASSUME NavTypes, NEW s \in SpanId
  PROVE  Climb(s) \in 1..Cardinality(SpanId) /\ StopsAt(s, Climb(s))
<1> DEFINE N == Cardinality(SpanId)
           Around == {k \in 1..N : above[k][s] \in {None} \cup {above[m][s] : m \in 0..(k - 1)}}
           f == [k \in 0..N |-> above[k][s]]
<1>1. /\ N \in Nat /\ None \notin SpanId /\ SpanId = 1..N
      /\ \A t \in SpanId : ParentOf(t) \in Everyone
  BY SpansAreNumbered DEF NavTypes, Everyone
<1>2. IsFiniteSet(SpanId) /\ IsFiniteSet(0..N) /\ Cardinality(0..N) = N + 1
  BY <1>1, FS_Interval
<1> HIDE DEF N
<1>3. above[0][s] = s
  BY <1>1, AboveIs DEF Heights, Everyone, N
<1>4. \A k \in 0..N : above[k][s] \in Everyone
  <2> DEFINE Off == {k \in 0..N : above[k][s] \notin Everyone}
  <2>1. SUFFICES ASSUME Off # {} PROVE FALSE
    OBVIOUS
  <2>2. PICK n \in Off : \A m \in Off : n <= m
    <3>1. Off \subseteq Nat
      OBVIOUS
    <3> HIDE DEF Off
    <3> QED BY <2>1, <3>1, LeastNumber
  <2>3. n # 0 /\ n \in 0..N /\ above[n][s] \notin Everyone
    BY <1>3, <2>2 DEF Everyone
  <2>4. n \in 1..N /\ n - 1 \in 0..N /\ ~(n <= n - 1)
    BY <1>1, <2>3
  <2>5. above[n - 1][s] \in Everyone
    BY <2>2, <2>4
  <2>6. above[n][s] = Parent(above[n - 1][s])
    BY <2>4, LastStepUp DEF Everyone, N
  <2> QED BY <1>1, <2>3, <2>5, <2>6 DEF Parent, Everyone
<1>5. Around # {}
  <2>1. SUFFICES ASSUME Around = {} PROVE FALSE
    OBVIOUS
  <2>2. \A k \in 0..N : above[k][s] \in SpanId
    <3> TAKE k \in 0..N
    <3>1. CASE k = 0
      BY <1>3, <3>1
    <3>2. CASE k # 0
      <4>1. k \in 1..N
        BY <1>1, <3>2
      <4> QED BY <1>4, <2>1, <4>1 DEF Everyone
    <3> QED BY <3>1, <3>2
  <2>3. f \in [0..N -> SpanId]
    BY <2>2
  <2>4. Cardinality(SpanId) < Cardinality(0..N)
    BY <1>1, <1>2 DEF N
  <2> HIDE DEF f
  <2>5. PICK x, y \in 0..N : x # y /\ f[x] = f[y]
    BY <1>2, <2>3, <2>4, FS_PigeonHole
  <2>6. above[x][s] = above[y][s]
    BY <2>5 DEF f
  <2>7. CASE x < y
    <3>1. y \in 1..N /\ x \in 0..(y - 1)
      BY <1>1, <2>7
    <3> QED BY <2>1, <2>6, <3>1
  <2>8. CASE y < x
    <3>1. x \in 1..N /\ y \in 0..(x - 1)
      BY <1>1, <2>8
    <3> QED BY <2>1, <2>6, <3>1
  <2> QED BY <1>1, <2>5, <2>7, <2>8
<1>6. PICK k \in Around : \A l \in Around : k <= l
  <2>1. Around \subseteq Nat
    OBVIOUS
  <2> HIDE DEF Around
  <2> QED BY <1>5, <2>1, LeastNumber
<1>7. k \in 1..N /\ StopsAt(s, k)
  <2>1. k \in 1..N /\ above[k][s] \in {None} \cup {above[m][s] : m \in 0..(k - 1)}
    BY <1>6
  <2>2. ASSUME NEW l \in 1..(k - 1) PROVE above[l][s] \notin {None} \cup {above[m][s] : m \in 0..(l - 1)}
    <3>1. l \in 1..N /\ ~(k <= l)
      BY <1>1, <2>1
    <3>2. l \notin Around
      BY <1>6, <3>1
    <3> QED BY <3>1, <3>2
  <2> QED BY <2>1, <2>2 DEF StopsAt
<1>8. Climb(s) = CHOOSE n \in 1..N : StopsAt(s, n)
  BY DEF Climb, StopsAt, N
<1> QED BY <1>7, <1>8 DEF N

\* The first of the path is as far up as the climb goes before it stops.
LEMMA PathBegins ==
  ASSUME NavTypes, NEW s \in SpanId
  PROVE  /\ PathTo(s)[1] = above[Climb(s) - 1][s]
         /\ Above(s) = {above[h][s] : h \in 0..(Climb(s) - 1)}
<1>1. PICK c \in Nat : Climb(s) = c /\ 1 <= c
  BY EveryClimbStops, SpansAreNumbered DEF NavTypes
<1>2. PathTo(s) = [k \in 1..c |-> above[c - k][s]]
  BY <1>1 DEF PathTo
<1>3. 1 \in 1..c
  BY <1>1
<1>4. Above(s) = {above[c - k][s] : k \in 1..c}
  BY <1>2 DEF Above, Range
<1>5. ASSUME NEW h \in 0..(c - 1) PROVE c - h \in 1..c /\ c - (c - h) = h
  BY <1>1
<1>6. ASSUME NEW k \in 1..c PROVE c - k \in 0..(c - 1)
  BY <1>1
<1>7. {above[c - k][s] : k \in 1..c} = {above[h][s] : h \in 0..(c - 1)}
  BY <1>5, <1>6
<1> QED BY <1>1, <1>2, <1>3, <1>4, <1>7

\* What was visited has a root above ...
LEMMA VisitedAreRooted == ASSUME NInv, NEW n \in 1..Len(order) PROVE Rooted(order[n])
<1>1. PICK d : EndsAfter(n, d)
  BY WayUpEnds
<1>2. /\ NavTypes /\ Len(order) \in Nat /\ Cardinality(SpanId) \in Nat
      /\ Len(order) <= Cardinality(SpanId) /\ None \notin SpanId
      /\ \A k \in 1..Len(order) : order[k] \in SpanId
  BY PlacesKnown DEF NInv
<1>3. d \in 1..n /\ above[d][order[n]] = None /\ d - 1 \in 0..(d - 1) /\ d \in 1..Cardinality(SpanId)
  BY <1>1, <1>2 DEF EndsAfter
<1>4. PICK k \in 1..n : above[d - 1][order[n]] = order[k]
  BY <1>1, <1>3 DEF EndsAfter
<1>5. order[k] \in SpanId
  <2>1. k \in 1..Len(order)
    BY <1>2
  <2> QED BY <1>2, <2>1
<1>6. above[d][order[n]] = Parent(above[d - 1][order[n]])
  BY <1>2, <1>3, LastStepUp DEF Everyone
<1>7. PathTo(order[n])[1] = above[d - 1][order[n]]
  BY <1>1, <1>2, ClimbIs, PathBegins
<1> QED BY <1>2, <1>3, <1>4, <1>5, <1>6, <1>7 DEF Rooted, Parent

\* ... and in the end what has a root above was visited: its root was, and then each one
\* below, as all children are.
LEMMA RootedAreVisited == ASSUME NInv, Walked, NEW s \in SpanId, Rooted(s) PROVE s \in Range(order)
<1>1. NavTypes /\ None \notin SpanId /\ Cardinality(SpanId) \in Nat
  BY PlacesKnown DEF NInv
<1>2. PICK c \in 1..Cardinality(SpanId) : Climb(s) = c /\ StopsAt(s, c)
  BY <1>1, EveryClimbStops
<1>3. c \in Nat /\ 1 <= c
  BY <1>1
<1>4. \A t \in SpanId : ParentOf(t) \in {None} \cup Range(order) => t \in Range(order)
  BY DEF NInv, Reached, Walked
<1>5. above[0][s] = s
  BY <1>1, AboveIs DEF Heights, Everyone
<1>6. ASSUME NEW h \in 1..(c - 1) PROVE above[h][s] # None
  BY <1>2, <1>6 DEF StopsAt
<1>7. ASSUME NEW h \in 1..c PROVE above[h][s] = Parent(above[h - 1][s])
  <2>1. h \in 1..Cardinality(SpanId)
    BY <1>1, <1>2
  <2> QED BY <1>1, <2>1, LastStepUp DEF Everyone
<1>8. \A h \in 0..(c - 1) : above[h][s] \in SpanId
  <2> DEFINE Off == {h \in 0..(c - 1) : above[h][s] \notin SpanId}
  <2>1. SUFFICES ASSUME Off # {} PROVE FALSE
    OBVIOUS
  <2>2. PICK n \in Off : \A m \in Off : n <= m
    <3>1. Off \subseteq Nat
      OBVIOUS
    <3> HIDE DEF Off
    <3> QED BY <2>1, <3>1, LeastNumber
  <2>3. n # 0 /\ n \in 0..(c - 1) /\ above[n][s] \notin SpanId
    BY <1>5, <2>2
  <2>4. n \in 1..c /\ n \in 1..(c - 1) /\ n - 1 \in 0..(c - 1) /\ ~(n <= n - 1)
    BY <1>3, <2>3
  <2>5. above[n - 1][s] \in SpanId
    BY <2>2, <2>4
  <2>6. above[n][s] = ParentOf(above[n - 1][s]) /\ above[n][s] # None
    BY <1>1, <1>6, <1>7, <2>4, <2>5 DEF Parent
  <2>7. ParentOf(above[n - 1][s]) \in Everyone
    BY <1>1, <2>5, SpansAreNumbered DEF NavTypes, Everyone
  <2> QED BY <2>3, <2>6, <2>7 DEF Everyone
<1>9. ParentOf(above[c - 1][s]) = None
  BY <1>1, <1>2, PathBegins DEF Rooted
<1> DEFINE Missed == {e \in 0..(c - 1) : above[(c - 1) - e][s] \notin Range(order)}
<1>10. Missed = {}
  <2>1. SUFFICES ASSUME Missed # {} PROVE FALSE
    OBVIOUS
  <2>2. PICK e \in Missed : \A g \in Missed : e <= g
    <3>1. Missed \subseteq Nat
      OBVIOUS
    <3> HIDE DEF Missed
    <3> QED BY <2>1, <3>1, LeastNumber
  <2>3. e \in 0..(c - 1) /\ above[(c - 1) - e][s] \notin Range(order)
    BY <2>2
  <2>4. PICK h \in 0..(c - 1) : h = (c - 1) - e
    BY <1>3, <2>3
  <2>5. above[h][s] \in SpanId /\ above[h][s] \notin Range(order)
    BY <1>8, <2>3, <2>4
  <2>6. CASE e = 0
    <3>1. h = c - 1
      BY <1>3, <2>4, <2>6
    <3> QED BY <1>4, <1>9, <2>5, <3>1
  <2>7. CASE e # 0
    <3>1. e - 1 \in 0..(c - 1) /\ ~(e <= e - 1) /\ (c - 1) - (e - 1) = h + 1 /\ h + 1 \in 1..c
          /\ (h + 1) - 1 = h
      BY <1>3, <2>3, <2>4, <2>7
    <3>2. above[h + 1][s] \in Range(order)
      BY <2>2, <3>1
    <3>3. above[h + 1][s] = ParentOf(above[h][s])
      BY <1>1, <1>7, <2>5, <3>1 DEF Parent
    <3> QED BY <1>4, <2>5, <3>2, <3>3
  <2> QED BY <2>6, <2>7
<1>11. c - 1 \in 0..(c - 1) /\ (c - 1) - (c - 1) = 0
  BY <1>3
<1> QED BY <1>5, <1>10, <1>11

\* The ways up of spans of the walk: through places that come before, and one step longer
\* than that of the parent.
LEMMA AboveGrows ==
  ASSUME NInv, NEW n \in 1..Len(order)
  PROVE  /\ order[n] \in Above(order[n])
         /\ \A t \in Above(order[n]) : \E k \in 1..n : t = order[k]
         /\ ParentOf(order[n]) = None => Above(order[n]) = {order[n]}
         /\ \A m \in 1..(n - 1) : ParentOf(order[n]) = order[m] =>
              Above(order[n]) = Above(order[m]) \cup {order[n]}
<1>1. /\ NavTypes /\ Len(order) \in Nat /\ Cardinality(SpanId) \in Nat
      /\ Len(order) <= Cardinality(SpanId)
      /\ \A k \in 1..Len(order) : order[k] \in SpanId
  BY PlacesKnown DEF NInv
<1>2. 1 \in 1..Cardinality(SpanId)
  BY <1>1
<1>3. above[0][order[n]] = order[n]
  BY <1>2, OneAbove
<1>4. ASSUME NEW k \in 1..Len(order), NEW d, EndsAfter(k, d)
      PROVE  d \in Nat /\ 1 <= d /\ Above(order[k]) = {above[h][order[k]] : h \in 0..(d - 1)}
  <2>1. d \in 1..k
    BY <1>4 DEF EndsAfter
  <2>2. Climb(order[k]) = d
    BY <1>4, ClimbIs
  <2> QED BY <1>1, <2>1, <2>2, PathBegins
<1>5. PICK d : EndsAfter(n, d)
  BY WayUpEnds
<1>6. order[n] \in Above(order[n]) /\ \A t \in Above(order[n]) : \E k \in 1..n : t = order[k]
  <2>1. d \in Nat /\ 1 <= d /\ Above(order[n]) = {above[h][order[n]] : h \in 0..(d - 1)}
    BY <1>4, <1>5
  <2>2. 0 \in 0..(d - 1)
    BY <2>1
  <2>3. \A h \in 0..(d - 1) : \E k \in 1..n : above[h][order[n]] = order[k]
    BY <1>5 DEF EndsAfter
  <2> QED BY <1>3, <2>1, <2>2, <2>3
<1>7. ASSUME ParentOf(order[n]) = None PROVE Above(order[n]) = {order[n]}
  <2>1. EndsAfter(n, 1)
    BY <1>7, RootEnds
  <2>2. Above(order[n]) = {above[h][order[n]] : h \in 0..(1 - 1)}
    BY <1>4, <2>1
  <2> QED BY <1>3, <2>2
<1>8. ASSUME NEW m \in 1..(n - 1), ParentOf(order[n]) = order[m]
      PROVE  Above(order[n]) = Above(order[m]) \cup {order[n]}
  <2>1. m \in 1..Len(order)
    BY <1>1
  <2>2. PICK e : EndsAfter(m, e)
    BY <2>1, WayUpEnds
  <2>3. EndsAfter(n, e + 1) /\ \A h \in 1..(e + 1) : above[h][order[n]] = above[h - 1][order[m]]
    BY <1>8, <2>2, ChildEnds
  <2>4. e \in Nat /\ 1 <= e /\ Above(order[m]) = {above[h][order[m]] : h \in 0..(e - 1)}
    BY <1>4, <2>1, <2>2
  <2>5. Above(order[n]) = {above[h][order[n]] : h \in 0..e}
    <3>1. (e + 1) - 1 = e
      BY <2>4
    <3> QED BY <1>4, <2>3, <3>1
  <2>6. ASSUME NEW h \in 0..e PROVE above[h][order[n]] \in Above(order[m]) \cup {order[n]}
    <3>1. CASE h = 0
      BY <1>3, <3>1
    <3>2. CASE h # 0
      <4>1. h \in 1..(e + 1) /\ h - 1 \in 0..(e - 1)
        BY <2>4, <3>2
      <4> QED BY <2>3, <2>4, <4>1
    <3> QED BY <3>1, <3>2
  <2>7. ASSUME NEW h \in 0..(e - 1) PROVE above[h][order[m]] \in Above(order[n])
    <3>1. h + 1 \in 1..(e + 1) /\ (h + 1) - 1 = h /\ h + 1 \in 0..e
      BY <2>4
    <3> QED BY <2>3, <2>5, <3>1
  <2>8. Above(order[n]) \subseteq Above(order[m]) \cup {order[n]}
    BY <2>5, <2>6
  <2>9. Above(order[m]) \subseteq Above(order[n])
    BY <2>4, <2>7
  <2> QED BY <1>6, <2>8, <2>9
<1> QED BY <1>6, <1>7, <1>8

\* The places of what is below the span at place n.
Descendants(n) == {k \in 1..Len(order) : order[n] \in Above(order[k])}

\* All that comes inside a descendant is one.
LEMMA InsideDescends ==
  ASSUME NInv, NEW n \in 1..Len(order), NEW m \in Descendants(n), NEW e \in 0..Len(order),
         Inside(m, e)
  PROVE  \A q \in m..e : q \in Descendants(n)
<1> DEFINE Other == {q \in m..e : q \notin Descendants(n)}
<1>1. Len(order) \in Nat /\ m \in 1..Len(order)
  BY PlacesKnown DEF Descendants
<1>2. SUFFICES ASSUME Other # {} PROVE FALSE
  OBVIOUS
<1>3. PICK q \in Other : \A l \in Other : q <= l
  <2>1. Other \subseteq Nat
    BY <1>1
  <2> HIDE DEF Other
  <2> QED BY <1>2, <2>1, LeastNumber
<1>4. q \in m..e /\ q \notin Descendants(n) /\ q # m
  BY <1>3
<1>5. q \in (m + 1)..e /\ q \in 1..Len(order)
  BY <1>1, <1>4
<1>6. PICK l \in m..(q - 1) : ChildOf(order[q], l)
  BY <1>5 DEF Inside
<1>7. l \in m..e /\ l \in 1..(q - 1) /\ ~(q <= l) /\ l # 0
  BY <1>1, <1>5
<1>8. l \in Descendants(n)
  BY <1>3, <1>7
<1>9. ParentOf(order[q]) = order[l]
  BY <1>6, <1>7 DEF ChildOf
<1>10. Above(order[q]) = Above(order[l]) \cup {order[q]}
  BY <1>5, <1>7, <1>9, AboveGrows
<1> QED BY <1>4, <1>5, <1>8, <1>10 DEF Descendants

\* The descendants of a span follow it, one after the other.
LEMMA DescendantsFollow ==
  ASSUME NInv, NEW n \in 1..Len(order)
  PROVE  /\ n \in Descendants(n) /\ \A k \in Descendants(n) : n <= k
         /\ \A k \in Descendants(n) : \A q \in n..k : q \in Descendants(n)
<1>1. /\ Len(order) \in Nat
      /\ \A k, l \in 1..Len(order) : order[k] = order[l] => k = l
  BY PlacesKnown
<1>2. n \in Descendants(n)
  BY AboveGrows DEF Descendants
<1>3. ASSUME NEW k \in Descendants(n) PROVE n <= k
  <2>1. k \in 1..Len(order) /\ order[n] \in Above(order[k])
    BY DEF Descendants
  <2>2. PICK l \in 1..k : order[n] = order[l]
    BY <2>1, AboveGrows
  <2>3. l \in 1..Len(order)
    BY <1>1, <2>1
  <2> QED BY <1>1, <2>1, <2>2, <2>3
<1> DEFINE Broken == {k \in Descendants(n) : \E q \in n..k : q \notin Descendants(n)}
<1>4. Broken = {}
  <2>1. SUFFICES ASSUME Broken # {} PROVE FALSE
    OBVIOUS
  <2>2. PICK k \in Broken : \A l \in Broken : k <= l
    <3>1. Broken \subseteq Nat
      BY <1>1 DEF Descendants
    <3> HIDE DEF Broken
    <3> QED BY <2>1, <3>1, LeastNumber
  <2>3. k \in Descendants(n) /\ k \in 1..Len(order) /\ order[n] \in Above(order[k]) /\ n <= k
    BY <1>3, <2>2 DEF Descendants
  <2>4. PICK q \in n..k : q \notin Descendants(n)
    BY <2>2
  <2>5. k # n
    BY <1>2, <2>3, <2>4
  <2>6. PICK m \in 0..(k - 1) : ChildOf(order[k], m) /\ Inside(m, k - 1)
    BY <2>3 DEF NInv, Nested
  <2>7. order[n] # order[k]
    BY <1>1, <2>3, <2>5
  <2>8. m # 0
    BY <2>3, <2>6, <2>7, AboveGrows DEF ChildOf
  <2>9. m \in 1..(k - 1) /\ m \in 1..Len(order) /\ ~(k <= m) /\ k - 1 \in 0..Len(order)
    BY <1>1, <2>3, <2>8
  <2>10. Above(order[k]) = Above(order[m]) \cup {order[k]}
    BY <2>3, <2>6, <2>8, <2>9, AboveGrows DEF ChildOf
  <2>11. m \in Descendants(n)
    BY <2>3, <2>7, <2>9, <2>10 DEF Descendants
  <2>12. n <= m /\ \A l \in n..m : l \in Descendants(n)
    BY <1>3, <2>2, <2>9, <2>11
  <2>13. \A l \in m..(k - 1) : l \in Descendants(n)
    BY <2>6, <2>9, <2>11, InsideDescends
  <2>14. q \in n..m \/ q \in m..(k - 1) \/ q = k
    BY <2>3, <2>9, <2>12
  <2> QED BY <2>3, <2>4, <2>12, <2>13, <2>14
<1> QED BY <1>2, <1>3, <1>4

\* So they are at the places from its own up to one that comes next, as many as there are.
LEMMA BelowIsBlock ==
  ASSUME NInv, Walked, NEW n \in 1..Len(order)
  PROVE  Range(SubSeq(order, n, n + Cardinality(Below(order[n])) - 1)) = Below(order[n])
<1>1. /\ NavTypes /\ Len(order) \in Nat /\ Cardinality(SpanId) \in Nat /\ DOMAIN order = 1..Len(order)
      /\ \A k \in 1..Len(order) : order[k] \in SpanId
      /\ \A k, l \in 1..Len(order) : order[k] = order[l] => k = l
  BY PlacesKnown DEF NInv
<1>2. Below(order[n]) = {order[k] : k \in Descendants(n)}
  <2>1. ASSUME NEW t \in Below(order[n]) PROVE \E k \in Descendants(n) : t = order[k]
    <3>1. t \in SpanId /\ Rooted(t) /\ order[n] \in Above(t)
      BY DEF Below
    <3>2. PICK k \in 1..Len(order) : t = order[k]
      BY <1>1, <3>1, RootedAreVisited DEF Range
    <3> QED BY <3>1, <3>2 DEF Descendants
  <2>2. ASSUME NEW k \in Descendants(n) PROVE order[k] \in Below(order[n])
    <3>1. k \in 1..Len(order) /\ order[n] \in Above(order[k])
      BY DEF Descendants
    <3> QED BY <1>1, <3>1, VisitedAreRooted DEF Below
  <2> QED BY <2>1, <2>2
<1> DEFINE Beyond == {k \in n..(Len(order) + 1) : k \notin Descendants(n)}
<1>3. PICK u \in Beyond : \A l \in Beyond : u <= l
  <2>1. Beyond \subseteq Nat
    BY <1>1
  <2>2. Len(order) + 1 \in Beyond
    BY <1>1 DEF Descendants
  <2> HIDE DEF Beyond
  <2> QED BY <2>1, <2>2, LeastNumber
<1>4. /\ n \in Descendants(n) /\ \A k \in Descendants(n) : k \in 1..Len(order) /\ n <= k
      /\ \A k \in Descendants(n) : \A q \in n..k : q \in Descendants(n)
  BY DescendantsFollow DEF Descendants
<1>5. u \in Nat /\ n < u /\ u <= Len(order) + 1 /\ u \notin Descendants(n)
  <2>1. u \in n..(Len(order) + 1) /\ u \notin Descendants(n)
    BY <1>3
  <2> QED BY <1>1, <1>4, <2>1
<1>6. Descendants(n) = n..(u - 1)
  <2>1. ASSUME NEW k \in Descendants(n) PROVE k \in n..(u - 1)
    <3>1. k \in 1..Len(order) /\ n <= k
      BY <1>4
    <3>2. ~(u <= k)
      <4>1. u <= k => u \in n..k
        BY <1>5, <3>1
      <4> QED BY <1>4, <1>5, <4>1
    <3> QED BY <1>5, <3>1, <3>2
  <2>2. ASSUME NEW k \in n..(u - 1) PROVE k \in Descendants(n)
    <3>1. k \in n..(Len(order) + 1) /\ ~(u <= k)
      BY <1>1, <1>5
    <3> QED BY <1>3, <3>1
  <2> QED BY <2>1, <2>2
<1>7. Cardinality(Below(order[n])) = u - n
  <2> DEFINE f == [k \in n..(u - 1) |-> order[k]]
             T == Below(order[n])
  <2>1. IsFiniteSet(n..(u - 1)) /\ Cardinality(n..(u - 1)) = u - n
    <3>1. n \in Int /\ u - 1 \in Int /\ ~(n > u - 1) /\ (u - 1) - n + 1 = u - n
      BY <1>5
    <3> QED BY <3>1, FS_Interval
  <2>2. IsFiniteSet(T)
    <3>1. SpanId = 1..Cardinality(SpanId)
      BY <1>1, SpansAreNumbered DEF NavTypes
    <3>2. IsFiniteSet(1..Cardinality(SpanId))
      BY <1>1, FS_Interval
    <3>3. T \subseteq SpanId
      BY DEF Below
    <3> QED BY <3>1, <3>2, <3>3, FS_Subset
  <2>3. T = {order[k] : k \in n..(u - 1)}
    BY <1>2, <1>6
  <2>4. \A k \in n..(u - 1) : k \in 1..Len(order)
    BY <1>1, <1>5
  <2> HIDE DEF T
  <2>5. f \in [n..(u - 1) -> T] /\ \A k \in n..(u - 1) : f[k] = order[k]
    BY <2>3
  <2> HIDE DEF f
  <2>6. f \in Injection(n..(u - 1), T)
    BY <1>1, <2>4, <2>5 DEF Injection, IsInjective
  <2>7. f \in Surjection(n..(u - 1), T)
    BY <2>3, <2>5 DEF Surjection
  <2>8. Cardinality(n..(u - 1)) = Cardinality(T)
    BY <2>2, <2>6, <2>7, FS_Injection
  <2> QED BY <2>1, <2>8 DEF T
<1>8. n + Cardinality(Below(order[n])) - 1 = u - 1
  BY <1>5, <1>7
<1>9. PICK block : block = SubSeq(order, n, u - 1)
  OBVIOUS
<1>10. /\ block \in Seq(SpanId) /\ Len(block) = u - n
       /\ \A k \in 1..(u - n) : block[k] = order[n + k - 1]
  <2>1. n \in Int /\ u - 1 \in Int /\ n <= u - 1 /\ (u - 1) - n + 1 = u - n
    BY <1>5
  <2>2. \A k \in n..(u - 1) : order[k] \in SpanId
    <3>1. \A k \in n..(u - 1) : k \in 1..Len(order)
      BY <1>1, <1>5
    <3> QED BY <1>1, <3>1
  <2> QED BY <1>9, <2>1, <2>2, SubSeqProperties
<1>11. DOMAIN block = 1..(u - n)
  BY <1>10, LenProperties
<1>12. Range(block) = {order[k] : k \in n..(u - 1)}
  <2>1. ASSUME NEW k \in 1..(u - n) PROVE n + k - 1 \in n..(u - 1)
    BY <1>5
  <2>2. ASSUME NEW k \in n..(u - 1) PROVE (k - n) + 1 \in 1..(u - n) /\ n + ((k - n) + 1) - 1 = k
    BY <1>5
  <2>3. ASSUME NEW t \in Range(block) PROVE t \in {order[k] : k \in n..(u - 1)}
    BY <1>10, <1>11, <2>1 DEF Range
  <2>4. ASSUME NEW k \in n..(u - 1) PROVE order[k] \in Range(block)
    <3>1. block[(k - n) + 1] = order[k]
      BY <1>10, <2>2
    <3> QED BY <1>11, <2>2, <3>1 DEF Range
  <2> QED BY <2>3, <2>4
<1> QED BY <1>2, <1>6, <1>8, <1>9, <1>12

\* In a forest of any size, also one with parents that did not come and with cycles: when
\* the walk has ended it has what has a root above, each once, and all that is below a span
\* right after it (nav.ts:11-32).
THEOREM ForestIsWalked == WalkSpec => [](Walked => WalksTheForest)
<1>1. NInv => (Walked => WalksTheForest)
  <2> SUFFICES ASSUME NInv, Walked PROVE WalksTheForest
    OBVIOUS
  <2>1. /\ DOMAIN order = 1..Len(order) /\ \A n \in 1..Len(order) : order[n] \in SpanId
        /\ \A m, n \in 1..Len(order) : order[m] = order[n] => m = n
    BY PlacesKnown
  <2>2. Range(order) = {s \in SpanId : Rooted(s)}
    BY <2>1, VisitedAreRooted, RootedAreVisited DEF Range
  <2>3. IsInjective(order)
    BY <2>1 DEF IsInjective
  <2>4. \A n \in DOMAIN order :
          Range(SubSeq(order, n, n + Cardinality(Below(order[n])) - 1)) = Below(order[n])
    BY <2>1, BelowIsBlock
  <2> QED BY <2>2, <2>3, <2>4 DEF WalksTheForest
<1> QED BY <1>1, InitNInv, NextNInv, PTL DEF WalkSpec

-----------------------------------------------------------------------------
(* The rows of the tree *)

RowsStart == [rows |-> <<>>, left |-> <<Children(None)>>]
LastStep  == 2 * Cardinality(SpanId) + 1

\* What `Building' has after n steps.
Built(f, n, closed) == IF n = 0 THEN RowsStart ELSE AddRow(f[n - 1], closed)

BuildsTo(f, n, closed) == /\ f = [k \in 0..LastStep |-> f[k]]
                          /\ \A k \in 0..LastStep : k < n => f[k] = Built(f, k, closed)

\* One step more.
LEMMA BuildFurther ==
  ASSUME LastStep \in Nat, NEW closed, NEW f, NEW n \in Nat, BuildsTo(f, n, closed)
  PROVE  \E g : BuildsTo(g, n + 1, closed)
<1> DEFINE g == [k \in 0..LastStep |-> IF k = n THEN Built(f, n, closed) ELSE f[k]]
<1>1. g = [k \in 0..LastStep |-> g[k]]
  OBVIOUS
<1>2. ASSUME NEW k \in 0..LastStep, k < n + 1 PROVE g[k] = Built(g, k, closed)
  <2>1. Built(g, k, closed) = Built(f, k, closed)
    <3>1. CASE k = 0
      BY <3>1 DEF Built
    <3>2. CASE k # 0
      <4>1. k - 1 \in 0..LastStep /\ k - 1 # n
        BY <1>2, <3>2
      <4>2. g[k - 1] = f[k - 1]
        BY <4>1
      <4> QED BY <3>2, <4>2 DEF Built
    <3> QED BY <3>1, <3>2
  <2>2. CASE k = n
    BY <2>1, <2>2
  <2>3. CASE k # n
    <3>1. k < n /\ g[k] = f[k]
      BY <1>2, <2>3
    <3> QED BY <2>1, <3>1 DEF BuildsTo
  <2> QED BY <2>2, <2>3
<1> HIDE DEF g
<1> QED BY <1>1, <1>2 DEF BuildsTo

\* `Building' is what its recursion says.
LEMMA BuildingIs ==
  ASSUME NavTypes, NEW closed
  PROVE  /\ LastStep \in Nat /\ Building(closed)[0] = RowsStart
         /\ \A n \in 1..LastStep : Building(closed)[n] = AddRow(Building(closed)[n - 1], closed)
<1>1. Cardinality(SpanId) \in Nat /\ LastStep \in Nat
  BY SpansAreNumbered DEF NavTypes, LastStep
<1> DEFINE Unbuilt == {n \in Nat : ~\E f : BuildsTo(f, n, closed)}
<1>2. Unbuilt = {}
  <2>1. SUFFICES ASSUME Unbuilt # {} PROVE FALSE
    OBVIOUS
  <2>2. PICK n \in Unbuilt : \A m \in Unbuilt : n <= m
    <3>1. Unbuilt \subseteq Nat
      OBVIOUS
    <3> HIDE DEF Unbuilt
    <3> QED BY <2>1, <3>1, LeastNumber
  <2>3. n # 0
    <3> DEFINE f == [k \in 0..LastStep |-> k]
    <3>1. f = [k \in 0..LastStep |-> f[k]] /\ \A k \in 0..LastStep : ~(k < 0)
      BY <1>1
    <3> HIDE DEF f
    <3>2. BuildsTo(f, 0, closed)
      BY <3>1 DEF BuildsTo
    <3> QED BY <3>2
  <2>4. n - 1 \in Nat /\ (n - 1) + 1 = n /\ ~(n <= n - 1)
    BY <2>3
  <2>5. PICK f : BuildsTo(f, n - 1, closed)
    BY <2>2, <2>4
  <2>6. \E g : BuildsTo(g, n, closed)
    BY <1>1, <2>4, <2>5, BuildFurther
  <2> QED BY <2>6
<1>3. PICK f : BuildsTo(f, LastStep + 1, closed)
  <2>1. LastStep + 1 \in Nat
    BY <1>1
  <2> QED BY <1>2, <2>1
<1>4. \A k \in 0..LastStep : f[k] = Built(f, k, closed)
  <2>1. \A k \in 0..LastStep : k < LastStep + 1
    BY <1>1
  <2> QED BY <1>3, <2>1 DEF BuildsTo
<1> DEFINE IsBuilding(g) == g = [k \in 0..LastStep |-> Built(g, k, closed)]
<1>5. IsBuilding(f)
  BY <1>3, <1>4 DEF BuildsTo
<1>6. Building(closed) = CHOOSE g : IsBuilding(g)
  BY DEF Building, Built, RowsStart, LastStep
<1>7. IsBuilding(Building(closed))
  <2> HIDE DEF IsBuilding
  <2> QED BY <1>5, <1>6
<1>8. \A k \in 0..LastStep : Building(closed)[k] = Built(Building(closed), k, closed)
  <2> PICK g : g = Building(closed)
    OBVIOUS
  <2>1. g = [k \in 0..LastStep |-> Built(g, k, closed)]
    BY <1>7
  <2>2. \A k \in 0..LastStep : g[k] = Built(g, k, closed)
    BY <2>1
  <2> QED BY <2>2
<1>9. 0 \in 0..LastStep /\ \A n \in 1..LastStep : n \in 0..LastStep /\ n # 0
  BY <1>1
<1> QED BY <1>1, <1>8, <1>9 DEF Built

\* The first as the API lists them is one of them, and comes first if all have a start time.
LEMMA FirstListedIsFirst ==
  ASSUME NavTypes, NEW S, S \subseteq SpanId, S # {}
  PROVE  /\ FirstListed(S) \in S
         /\ untimed = {} => \A t \in S \ {FirstListed(S)} : FirstListed(S) < t
<1> DEFINE T == IF S \ untimed # {} THEN S \ untimed ELSE S
<1>1. SpanId \subseteq Nat
  BY SpansAreNumbered DEF NavTypes
<1>2. T \subseteq Nat /\ T # {} /\ T \subseteq S
  BY <1>1
<1>3. PICK s \in T : \A t \in T : s <= t
  <2> HIDE DEF T
  <2> QED BY <1>2, LeastNumber
<1>4. \A t \in S \ {s} : Listed(s, t)
  <2> TAKE t \in S \ {s}
  <2>1. s \in Nat /\ t \in Nat /\ (t \in T => s < t)
    BY <1>1, <1>2, <1>3
  <2> QED BY <2>1, <1>3 DEF Listed
<1>5. s \in S
  BY <1>2
<1>6. FirstListed(S) \in S /\ \A t \in S \ {FirstListed(S)} : Listed(FirstListed(S), t)
  BY <1>4, <1>5 DEF FirstListed
<1> QED BY <1>6 DEF Listed

RowState == [rows : Seq([span : SpanId, depth : Nat]), left : Seq(SUBSET SpanId)]

\* What is ahead below s.
Inner(s, closed) == IF s \in closed THEN {} ELSE Children(s)

\* The row of s is added.
Adds(v, w, s, closed) ==
  /\ s \in v.left[1]
  /\ untimed = {} => \A t \in v.left[1] \ {s} : s < t
  /\ w \in RowState /\ Len(v.left) \in Nat /\ 1 <= Len(v.left) /\ Len(v.rows) \in Nat
  /\ Len(w.rows) = Len(v.rows) + 1 /\ \A m \in 1..Len(v.rows) : w.rows[m] = v.rows[m]
  /\ w.rows[Len(v.rows) + 1] = [span |-> s, depth |-> Len(v.left) - 1]
  /\ Len(w.left) = Len(v.left) + 1
  /\ w.left[1] = Inner(s, closed) /\ w.left[2] = v.left[1] \ {s}
  /\ \A k \in 3..(Len(v.left) + 1) : w.left[k] = v.left[k - 1]

\* The innermost loop ends.
Leaves(v, w) ==
  /\ w \in RowState /\ w.rows = v.rows /\ v.left[1] = {} /\ Len(v.left) \in Nat /\ 1 <= Len(v.left)
  /\ Len(w.left) = Len(v.left) - 1 /\ \A k \in 1..Len(w.left) : w.left[k] = v.left[k + 1]

\* What a row adds.
LEMMA RowAdded ==
  ASSUME NavTypes, NEW closed, NEW v \in RowState, v.left # <<>>, Head(v.left) # {},
         NEW w, w = AddRow(v, closed)
  PROVE  \E s \in SpanId : Adds(v, w, s, closed)
<1> DEFINE S == SUBSET SpanId
           Row == [span : SpanId, depth : Nat]
<1>1. PICK left, rows : left = v.left /\ rows = v.rows /\ left \in Seq(S) /\ rows \in Seq(Row)
  BY DEF RowState
<1> DEFINE s == FirstListed(left[1])
           pair == <<Inner(s, closed), left[1] \ {s}>>
           row == [span |-> s, depth |-> Len(left) - 1]
<1>2. left # <<>> /\ Head(left) # {}
  BY <1>1
<1>3. /\ Len(left) \in Nat /\ 1 <= Len(left) /\ Head(left) = left[1] /\ left[1] \in S
      /\ Tail(left) \in Seq(S) /\ Len(Tail(left)) = Len(left) - 1
      /\ \A k \in 1..(Len(left) - 1) : Tail(left)[k] = left[k + 1]
      /\ Len(rows) \in Nat
  <2> HIDE DEF S, Row
  <2>1. Len(left) \in Nat /\ Len(left) # 0 /\ Head(left) = left[1] /\ Len(rows) \in Nat
    BY <1>1, <1>2, LenProperties
  <2>2. Head(left) \in S
    BY <1>1, <1>2, HeadTailProperties
  <2> QED BY <1>1, <1>2, <2>1, <2>2, HeadTailProperties
<1>4. s \in left[1] /\ s \in SpanId /\ (untimed = {} => \A t \in left[1] \ {s} : s < t)
  <2>1. left[1] \subseteq SpanId /\ left[1] # {}
    BY <1>2, <1>3
  <2> QED BY <2>1, FirstListedIsFirst
<1>5. w = [rows |-> Append(rows, row), left |-> pair \o Tail(left)]
  BY <1>1, <1>2, <1>3 DEF AddRow, Inner
<1> HIDE DEF s
<1>6. pair \in Seq(S) /\ Len(pair) = 2 /\ pair[1] = Inner(s, closed) /\ pair[2] = left[1] \ {s}
  <2>1. Inner(s, closed) \in S /\ left[1] \ {s} \in S
    BY <1>3 DEF Inner, Children
  <2> QED BY <2>1
<1>7. row \in Row
  BY <1>3, <1>4
<1> HIDE DEF pair, row, S, Row
<1>8. /\ Append(rows, row) \in Seq(Row) /\ Len(Append(rows, row)) = Len(rows) + 1
      /\ Append(rows, row)[Len(rows) + 1] = row
      /\ \A m \in 1..Len(rows) : Append(rows, row)[m] = rows[m]
  BY <1>1, <1>7, AppendProperties
<1> DEFINE rest == Tail(left)
<1>9. pair \in Seq(S) /\ rest \in Seq(S)
  BY <1>3, <1>6
<1> HIDE DEF rest
<1>10. /\ pair \o rest \in Seq(S) /\ Len(pair \o rest) = Len(pair) + Len(rest)
       /\ \A k \in 1..(Len(pair) + Len(rest)) :
            (pair \o rest)[k] = IF k <= Len(pair) THEN pair[k] ELSE rest[k - Len(pair)]
  BY <1>9, ConcatProperties
<1>11. /\ w.rows = Append(rows, row) /\ w.left = pair \o rest
  BY <1>5 DEF rest
<1>12. w \in RowState
  BY <1>8, <1>10, <1>11 , <1>5 DEF RowState, S, Row, rest
<1>13. /\ Len(w.left) = Len(left) + 1 /\ w.left[1] = Inner(s, closed) /\ w.left[2] = left[1] \ {s}
  BY <1>3, <1>6, <1>10, <1>11 DEF rest
<1>14. ASSUME NEW k \in 3..(Len(left) + 1) PROVE w.left[k] = left[k - 1]
  <2>1. /\ k \in 1..(Len(pair) + Len(rest)) /\ ~(k <= Len(pair)) /\ k - Len(pair) = k - 2
        /\ k - 2 \in 1..(Len(left) - 1) /\ (k - 2) + 1 = k - 1
    BY <1>3, <1>6 DEF rest
  <2> QED BY <1>3, <1>10, <1>11, <2>1 DEF rest
<1>15. /\ Len(w.rows) = Len(v.rows) + 1 /\ \A m \in 1..Len(v.rows) : w.rows[m] = v.rows[m]
       /\ w.rows[Len(v.rows) + 1] = [span |-> s, depth |-> Len(v.left) - 1]
  BY <1>1, <1>8, <1>11 DEF row
<1>16. /\ s \in v.left[1] /\ (untimed = {} => \A t \in v.left[1] \ {s} : s < t)
       /\ Len(v.left) \in Nat /\ 1 <= Len(v.left) /\ Len(v.rows) \in Nat
       /\ Len(w.left) = Len(v.left) + 1
       /\ w.left[1] = Inner(s, closed) /\ w.left[2] = v.left[1] \ {s}
       /\ \A k \in 3..(Len(v.left) + 1) : w.left[k] = v.left[k - 1]
  BY <1>1, <1>3, <1>4, <1>13, <1>14
<1>17. Adds(v, w, s, closed)
  BY <1>12, <1>15, <1>16 DEF Adds
<1> QED BY <1>4, <1>17

\* And what the end of a loop does.
LEMMA LoopEnded ==
  ASSUME NEW closed, NEW v \in RowState, v.left # <<>>, Head(v.left) = {},
         NEW w, w = AddRow(v, closed)
  PROVE  Leaves(v, w)
<1> DEFINE S == SUBSET SpanId
<1>1. w = [v EXCEPT !.left = Tail(v.left)]
  BY DEF AddRow
<1>2. PICK left : left = v.left /\ left \in Seq(S) /\ left # <<>>
  BY DEF RowState
<1> HIDE DEF S
<1>3. /\ Len(left) \in Nat /\ Len(left) # 0 /\ Head(left) = left[1]
      /\ Tail(left) \in Seq(S) /\ Len(Tail(left)) = Len(left) - 1
      /\ \A k \in 1..Len(Tail(left)) : Tail(left)[k] = left[k + 1]
  BY <1>2, HeadTailProperties, LenProperties
<1>4. w.rows = v.rows /\ w.left = Tail(left) /\ w \in RowState
  BY <1>1, <1>2, <1>3 DEF RowState, S
<1> QED BY <1>2, <1>3, <1>4 DEF Leaves

\* Places order spans.
LEMMA EarlierOrders ==
  ASSUME NInv
  PROVE  /\ \A s, t : Earlier(s, t) => s # t /\ ~Earlier(t, s)
         /\ \A s, t, u : Earlier(s, t) /\ Earlier(t, u) => Earlier(s, u)
<1>1. /\ Len(order) \in Nat /\ DOMAIN order = 1..Len(order)
      /\ \A m, n \in 1..Len(order) : order[m] = order[n] => m = n
  BY PlacesKnown
<1>2. ASSUME NEW s, NEW t, Earlier(s, t) PROVE s # t /\ ~Earlier(t, s)
  <2>1. PICK m, n \in 1..Len(order) : m < n /\ order[m] = s /\ order[n] = t
    BY <1>1, <1>2 DEF Earlier
  <2>2. \A k, l \in 1..Len(order) : order[k] = t /\ order[l] = s => k = n /\ l = m
    BY <1>1, <2>1
  <2>3. m # n /\ ~(n < m)
    BY <1>1, <2>1
  <2> QED BY <1>1, <2>1, <2>2, <2>3 DEF Earlier
<1>3. ASSUME NEW s, NEW t, NEW u, Earlier(s, t), Earlier(t, u) PROVE Earlier(s, u)
  <2>1. PICK m, n \in 1..Len(order) : m < n /\ order[m] = s /\ order[n] = t
    BY <1>1, <1>3 DEF Earlier
  <2>2. PICK k, l \in 1..Len(order) : k < l /\ order[k] = t /\ order[l] = u
    BY <1>1, <1>3 DEF Earlier
  <2>3. n = k
    BY <1>1, <2>1, <2>2
  <2>4. m < l
    BY <1>1, <2>1, <2>2, <2>3
  <2> QED BY <1>1, <2>1, <2>2, <2>4 DEF Earlier
<1> QED BY <1>2, <1>3

\* A child comes after its parent, with one more above it; a root has nothing above it.
LEMMA ChildIsLater ==
  ASSUME NInv, NEW s \in Range(order)
  PROVE  /\ s \in Above(s) /\ Climb(s) \in Nat
         /\ ParentOf(s) = None => Above(s) = {s} /\ Climb(s) = 1
         /\ ParentOf(s) # None =>
              /\ ParentOf(s) \in Range(order) /\ Earlier(ParentOf(s), s)
              /\ Above(s) = Above(ParentOf(s)) \cup {s} /\ Climb(s) = Climb(ParentOf(s)) + 1
<1>1. /\ Len(order) \in Nat /\ DOMAIN order = 1..Len(order)
      /\ \A n \in 1..Len(order) : \E m \in 0..(n - 1) : ChildOf(order[n], m)
  BY PlacesKnown
<1>2. PICK n \in 1..Len(order) : s = order[n]
  BY <1>1 DEF Range
<1>3. s \in Above(s)
  BY <1>2, AboveGrows
<1>4. Climb(s) \in Nat
  <2>1. PICK d : EndsAfter(n, d)
    BY WayUpEnds
  <2>2. Climb(s) = d /\ d \in 1..n
    BY <1>2, <2>1, ClimbIs DEF EndsAfter
  <2> QED BY <2>2
<1>5. CASE ParentOf(s) = None
  <2>1. Above(s) = {s} /\ EndsAfter(n, 1)
    BY <1>2, <1>5, AboveGrows, RootEnds
  <2>2. Climb(s) = 1
    BY <1>2, <2>1, ClimbIs
  <2> QED BY <1>3, <1>4, <1>5, <2>1, <2>2
<1>6. CASE ParentOf(s) # None
  <2>1. PICK m \in 0..(n - 1) : ChildOf(order[n], m)
    BY <1>1
  <2>2. m \in 1..(n - 1) /\ m \in 1..Len(order) /\ ParentOf(s) = order[m] /\ m < n
    BY <1>1, <1>2, <1>6, <2>1 DEF ChildOf
  <2>3. Above(s) = Above(ParentOf(s)) \cup {s}
    BY <1>2, <2>2, AboveGrows
  <2>4. ParentOf(s) \in Range(order) /\ Earlier(ParentOf(s), s)
    BY <1>1, <1>2, <2>2 DEF Range, Earlier
  <2>5. PICK d : EndsAfter(m, d)
    BY <2>2, WayUpEnds
  <2>6. EndsAfter(n, d + 1)
    BY <1>2, <2>2, <2>5, ChildEnds
  <2>7. Climb(order[m]) = d /\ Climb(order[n]) = d + 1
    <3>1. Climb(order[m]) = d
      BY <2>2, <2>5, ClimbIs
    <3>2. Climb(order[n]) = d + 1
      BY <2>6, ClimbIs
    <3> QED BY <3>1, <3>2
  <2> QED BY <1>2, <1>3, <1>4, <1>6, <2>2, <2>3, <2>4, <2>7
<1> QED BY <1>5, <1>6

\* What is above comes earlier.
LEMMA AboveIsEarlier ==
  ASSUME NInv, NEW s \in Range(order), NEW t \in Above(s)
  PROVE  t = s \/ Earlier(t, s)
<1>1. Len(order) \in Nat /\ DOMAIN order = 1..Len(order)
  BY PlacesKnown
<1>2. PICK n \in 1..Len(order) : s = order[n]
  BY <1>1 DEF Range
<1>3. PICK k \in 1..n : t = order[k]
  BY <1>2, AboveGrows
<1>4. k = n \/ (k < n /\ k \in 1..Len(order))
  BY <1>1, <1>2
<1> QED BY <1>1, <1>2, <1>3, <1>4 DEF Earlier

\* When all spans have a start time, siblings come in its order.
LEMMA SiblingIsLater ==
  ASSUME NInv, untimed = {}, NEW s \in Range(order), NEW t \in Range(order),
         ParentOf(s) = ParentOf(t), s < t
  PROVE  Earlier(s, t)
<1>1. /\ Len(order) \in Nat /\ DOMAIN order = 1..Len(order)
      /\ \A n \in 1..Len(order) : order[n] \in SpanId
  BY PlacesKnown
<1>2. PICK m, n \in 1..Len(order) : s = order[m] /\ t = order[n]
  BY <1>1 DEF Range
<1>3. s \in Nat /\ t \in Nat /\ s # t /\ ~(t < s)
  <2>1. s \in SpanId /\ t \in SpanId /\ SpanId \subseteq Nat
    BY <1>1, <1>2, SpansAreNumbered DEF NInv, NavTypes
  <2> QED BY <2>1
<1>4. ~(n < m)
  <2>1. n < m => Before(t, s)
    BY <1>2 DEF NInv, InOrder
  <2> QED BY <1>3, <2>1 DEF Before
<1>5. m < n
  BY <1>1, <1>2, <1>3, <1>4
<1> QED BY <1>1, <1>2, <1>5 DEF Earlier

\* What comes after a span and is not below it comes after its children too.
LEMMA ChildIsBefore ==
  ASSUME NInv, NEW s, NEW c \in Range(order), NEW t \in Range(order),
         Earlier(s, t), s \notin Above(t), ParentOf(c) = s
  PROVE  Earlier(c, t)
<1>1. /\ Len(order) \in Nat /\ DOMAIN order = 1..Len(order) /\ None \notin SpanId
      /\ \A n \in 1..Len(order) : order[n] \in SpanId
  BY PlacesKnown
<1>2. PICK n, l \in 1..Len(order) : n < l /\ order[n] = s /\ order[l] = t
  BY <1>1 DEF Earlier
<1>3. PICK k \in 1..Len(order) : order[k] = c
  BY <1>1 DEF Range
<1>4. s \in Above(c)
  <2>1. s # None /\ s \in Range(order)
    BY <1>1, <1>2 DEF Range
  <2>2. Above(c) = Above(s) \cup {c} /\ s \in Above(s)
    BY <2>1, ChildIsLater
  <2> QED BY <2>2
<1>5. k \in Descendants(n) /\ l \notin Descendants(n)
  BY <1>2, <1>3, <1>4 DEF Descendants
<1>6. k < l
  <2>1. l <= k => l \in n..k
    BY <1>1, <1>2
  <2>2. ~(l <= k)
    BY <1>5, <2>1, DescendantsFollow
  <2> QED BY <1>1, <2>2
<1> QED BY <1>1, <1>2, <1>3, <1>6 DEF Earlier

Shown(v) == {v.rows[m].span : m \in 1..Len(v.rows)}

\* No span is shown above a collapsed one.
Open(s, closed) == Above(s) \cap closed \subseteq {s}

\* No span has two rows, or a row and one ahead.
RowsOnce(v) ==
  /\ \A m, n \in 1..Len(v.rows) : v.rows[m].span = v.rows[n].span => m = n
  /\ \A m \in 1..Len(v.rows), k \in 1..Len(v.left) : v.rows[m].span \notin v.left[k]
  /\ \A k, l \in 1..Len(v.left) : k < l => v.left[k] \cap v.left[l] = {}

\* What may have a row: a span of the walk, not under a collapsed one, after its parent's.
Placed(s, v, closed) ==
  s \in Range(order) /\ Open(s, closed) /\ ParentOf(s) \in {None} \cup Shown(v)

RowsPlaced(v, closed) ==
  /\ \A m \in 1..Len(v.rows) : Placed(v.rows[m].span, v, closed)
  /\ \A k \in 1..Len(v.left) : \A s \in v.left[k] : Placed(s, v, closed)

\* Depths are those of the way up; the spans of a loop are siblings.
RowsDeep(v) ==
  /\ \A m \in 1..Len(v.rows) : v.rows[m].depth + 1 = Climb(v.rows[m].span)
  /\ \A k \in 1..Len(v.left) : \A s \in v.left[k] :
       Climb(s) = Len(v.left) - k + 1 /\ \A t \in v.left[k] : ParentOf(s) = ParentOf(t)

\* The roots, and the children of spans shown and not collapsed, have a row or are ahead.
RowsReach(v, closed) ==
  \A s \in SpanId : ParentOf(s) \in {None} \cup (Shown(v) \ closed) =>
    s \in Shown(v) \/ \E k \in 1..Len(v.left) : s \in v.left[k]

\* A row costs a step, and so does the end of the loop it opens.
RowsCount(v, n) == Len(v.left) = 0 \/ n + Len(v.left) = 2 * Len(v.rows) + 1

\* The rows are in the walk's order, and what is ahead comes after them in that order.
RowsSorted(v) ==
  /\ \A m, n \in 1..Len(v.rows) : m < n => Earlier(v.rows[m].span, v.rows[n].span)
  /\ \A m \in 1..Len(v.rows), k \in 1..Len(v.left) : \A t \in v.left[k] : Earlier(v.rows[m].span, t)
  /\ \A k, l \in 1..Len(v.left) : k < l => \A s \in v.left[k], t \in v.left[l] : Earlier(s, t)

RowsInv(v, n, closed) ==
  /\ v \in RowState /\ RowsOnce(v) /\ RowsPlaced(v, closed) /\ RowsDeep(v)
  /\ RowsReach(v, closed) /\ RowsCount(v, n) /\ (untimed = {} => RowsSorted(v))

\* What is in the places of rows and loops.
LEMMA RowTypes ==
  ASSUME NEW v \in RowState
  PROVE  /\ Len(v.rows) \in Nat /\ Len(v.left) \in Nat
         /\ \A m \in 1..Len(v.rows) : v.rows[m].span \in SpanId /\ v.rows[m].depth \in Nat
         /\ \A k \in 1..Len(v.left) : v.left[k] \subseteq SpanId
<1> DEFINE S == SUBSET SpanId
           Row == [span : SpanId, depth : Nat]
<1>1. PICK left, rows : left = v.left /\ rows = v.rows /\ left \in Seq(S) /\ rows \in Seq(Row)
  BY DEF RowState
<1> HIDE DEF S, Row
<1>2. /\ Len(left) \in Nat /\ Len(rows) \in Nat
      /\ \A m \in 1..Len(rows) : rows[m] \in Row
      /\ \A k \in 1..Len(left) : left[k] \in S
  BY <1>1, LenProperties, ElementOfSeq
<1> QED BY <1>1, <1>2 DEF S, Row

\* Where rows and loops come from when a row is added.
RowsOf(v, w, s) == \A m \in 1..Len(w.rows) :
  \/ m \in 1..Len(v.rows) /\ w.rows[m] = v.rows[m]
  \/ m = Len(v.rows) + 1 /\ w.rows[m].span = s /\ w.rows[m].depth = Len(v.left) - 1
LoopsOf(v, w, s, closed) == \A k \in 1..Len(w.left) :
  \/ k = 1 /\ w.left[k] = Inner(s, closed)
  \/ k = 2 /\ w.left[k] = v.left[1] \ {s} /\ 1 \in 1..Len(v.left)
  \/ k >= 3 /\ k - 1 \in 2..Len(v.left) /\ w.left[k] = v.left[k - 1]

\* They do come from there.
LEMMA WhatIsAdded ==
  ASSUME NEW v \in RowState, NEW w, NEW s \in SpanId, NEW closed, Adds(v, w, s, closed)
  PROVE  /\ RowsOf(v, w, s) /\ LoopsOf(v, w, s, closed)
         /\ Shown(w) = Shown(v) \cup {s}
         /\ \A l \in 1..Len(v.left) : \A t \in v.left[l] \ {s} :
              l + 1 \in 1..Len(w.left) /\ t \in w.left[l + 1]
         /\ \A t \in Inner(s, closed) : 1 \in 1..Len(w.left) /\ t \in w.left[1]
         /\ s \in v.left[1] /\ 1 \in 1..Len(v.left)
<1> DEFINE R == Len(v.rows)
           L == Len(v.left)
<1>1. /\ R \in Nat /\ L \in Nat /\ 1 <= L /\ Len(w.rows) = R + 1 /\ Len(w.left) = L + 1
      /\ \A m \in 1..R : w.rows[m] = v.rows[m]
      /\ w.rows[R + 1].span = s /\ w.rows[R + 1].depth = L - 1
      /\ w.left[1] = Inner(s, closed) /\ w.left[2] = v.left[1] \ {s}
      /\ \A k \in 3..(L + 1) : w.left[k] = v.left[k - 1]
      /\ s \in v.left[1]
  BY DEF Adds
<1> HIDE DEF R, L
<1>2. ASSUME NEW m \in 1..(R + 1)
      PROVE  \/ m \in 1..R /\ w.rows[m] = v.rows[m]
             \/ m = R + 1 /\ w.rows[m].span = s /\ w.rows[m].depth = L - 1
  BY <1>1
<1>3. ASSUME NEW k \in 1..(L + 1)
      PROVE  \/ k = 1 /\ w.left[k] = Inner(s, closed)
             \/ k = 2 /\ w.left[k] = v.left[1] \ {s} /\ 1 \in 1..L
             \/ k >= 3 /\ k - 1 \in 2..L /\ w.left[k] = v.left[k - 1]
  <2>1. k = 1 \/ k = 2 \/ (k \in 3..(L + 1) /\ k - 1 \in 2..L)
    BY <1>1
  <2>2. 1 \in 1..L
    BY <1>1
  <2> QED BY <1>1, <2>1, <2>2
<1>4. Shown(w) = Shown(v) \cup {s}
  <2>1. Shown(w) \subseteq Shown(v) \cup {s}
    BY <1>1, <1>2 DEF Shown, R
  <2>2. Shown(v) \subseteq Shown(w)
    <3>1. \A m \in 1..R : m \in 1..(R + 1)
      BY <1>1
    <3> QED BY <1>1, <3>1 DEF Shown, R
  <2>3. s \in Shown(w)
    <3>1. R + 1 \in 1..(R + 1)
      BY <1>1
    <3> QED BY <1>1, <3>1 DEF Shown
  <2> QED BY <2>1, <2>2, <2>3
<1>5. ASSUME NEW l \in 1..L, NEW t \in v.left[l] \ {s} PROVE l + 1 \in 1..(L + 1) /\ t \in w.left[l + 1]
  <2>1. l + 1 \in 1..(L + 1) /\ (l = 1 \/ (l + 1 \in 3..(L + 1) /\ (l + 1) - 1 = l))
    BY <1>1
  <2>2. CASE l = 1
    <3>1. l + 1 = 2
      BY <2>2
    <3> QED BY <1>1, <2>1, <2>2, <3>1
  <2>3. CASE l + 1 \in 3..(L + 1) /\ (l + 1) - 1 = l
    BY <1>1, <2>1, <2>3
  <2> QED BY <2>1, <2>2, <2>3
<1>6. 1 \in 1..(L + 1) /\ 1 \in 1..L
  BY <1>1
<1>7. RowsOf(v, w, s) /\ LoopsOf(v, w, s, closed)
  BY <1>1, <1>2, <1>3 DEF R, L, RowsOf, LoopsOf
<1> QED BY <1>1, <1>4, <1>5, <1>6, <1>7 DEF R, L

\* Where they come from when a loop ends.
LEMMA WhatIsLeft ==
  ASSUME NEW v \in RowState, NEW w, Leaves(v, w)
  PROVE  /\ w.rows = v.rows /\ Shown(w) = Shown(v)
         /\ \A k \in 1..Len(w.left) : k + 1 \in 1..Len(v.left) /\ w.left[k] = v.left[k + 1]
         /\ \A l \in 1..Len(v.left) : \A t \in v.left[l] :
              l - 1 \in 1..Len(w.left) /\ t \in w.left[l - 1]
         /\ Len(v.left) \in Nat /\ Len(w.left) = Len(v.left) - 1 /\ 1 <= Len(v.left)
<1> DEFINE L == Len(v.left)
<1>1. /\ L \in Nat /\ 1 <= L /\ Len(w.left) = L - 1 /\ v.left[1] = {} /\ w.rows = v.rows
      /\ \A k \in 1..(L - 1) : w.left[k] = v.left[k + 1]
  BY DEF Leaves
<1> HIDE DEF L
<1>2. ASSUME NEW k \in 1..(L - 1) PROVE k + 1 \in 1..L
  BY <1>1
<1>3. ASSUME NEW l \in 1..L, NEW t \in v.left[l] PROVE l - 1 \in 1..(L - 1) /\ t \in w.left[l - 1]
  <2>1. l # 1
    BY <1>1
  <2>2. l - 1 \in 1..(L - 1) /\ (l - 1) + 1 = l
    BY <1>1, <2>1
  <2> QED BY <1>1, <2>2
<1>4. Shown(w) = Shown(v)
  BY <1>1 DEF Shown
<1> QED BY <1>1, <1>2, <1>3, <1>4 DEF L

\* What a row opens is new: its parent is the span just shown.
LEMMA InnerIsNew ==
  ASSUME NavTypes, NEW closed, NEW v \in RowState, NEW w, NEW s \in SpanId, Adds(v, w, s, closed),
         RowsOnce(v), RowsPlaced(v, closed), NEW c \in Inner(s, closed)
  PROVE  /\ c \in SpanId /\ ParentOf(c) = s /\ c # s /\ s # None /\ s \notin closed
         /\ \A m \in 1..Len(v.rows) : v.rows[m].span # c
         /\ \A k \in 1..Len(v.left) : c \notin v.left[k]
<1>1. s \in v.left[1] /\ 1 \in 1..Len(v.left)
  BY WhatIsAdded
<1>2. s \notin Shown(v) /\ s # None
  <2>1. \A m \in 1..Len(v.rows) : v.rows[m].span # s
    BY <1>1 DEF RowsOnce
  <2> QED BY <2>1, SpansAreNumbered DEF Shown, NavTypes
<1>3. c \in SpanId /\ ParentOf(c) = s /\ s \notin closed
  <2>1. c \in Children(s) /\ s \notin closed
    BY DEF Inner
  <2> QED BY <2>1, SpansAreNumbered DEF NavTypes
<1>4. ~Placed(c, v, closed)
  BY <1>2, <1>3 DEF Placed
<1> QED BY <1>1, <1>2, <1>3, <1>4 DEF RowsPlaced

\* A row keeps the others apart ...
LEMMA RowKeepsOnce ==
  ASSUME NavTypes, NEW closed, NEW v \in RowState, NEW w, NEW s \in SpanId, Adds(v, w, s, closed),
         RowsOnce(v), RowsPlaced(v, closed)
  PROVE  RowsOnce(w)
<1>0. RowsOf(v, w, s) /\ LoopsOf(v, w, s, closed)
  BY WhatIsAdded
<1>1. /\ \A m \in 1..Len(w.rows) :
           \/ m \in 1..Len(v.rows) /\ w.rows[m] = v.rows[m]
           \/ m = Len(v.rows) + 1 /\ w.rows[m].span = s /\ w.rows[m].depth = Len(v.left) - 1
      /\ \A k \in 1..Len(w.left) :
           \/ k = 1 /\ w.left[k] = Inner(s, closed)
           \/ k = 2 /\ w.left[k] = v.left[1] \ {s} /\ 1 \in 1..Len(v.left)
           \/ k >= 3 /\ k - 1 \in 2..Len(v.left) /\ w.left[k] = v.left[k - 1]
      /\ s \in v.left[1] /\ 1 \in 1..Len(v.left)
  BY <1>0, WhatIsAdded DEF RowsOf, LoopsOf
<1>2. /\ \A c \in Inner(s, closed) : /\ c # s
                                     /\ \A m \in 1..Len(v.rows) : v.rows[m].span # c
                                     /\ \A k \in 1..Len(v.left) : c \notin v.left[k]
  BY InnerIsNew
<1>3. Len(v.left) \in Nat /\ Len(w.left) \in Nat /\ Len(v.rows) \in Nat
  BY RowTypes DEF Adds
<1>4. /\ \A m \in 1..Len(v.rows) : v.rows[m].span # s
      /\ \A k \in 2..Len(v.left) : k \in 1..Len(v.left) /\ s \notin v.left[k]
  <2>1. \A k \in 2..Len(v.left) : k \in 1..Len(v.left) /\ 1 < k
    BY <1>3
  <2>2. \A k \in 2..Len(v.left) : v.left[1] \cap v.left[k] = {}
    BY <1>1, <2>1 DEF RowsOnce
  <2> QED BY <1>1, <2>1, <2>2 DEF RowsOnce
<1>5. ASSUME NEW m \in 1..Len(w.rows), NEW n \in 1..Len(w.rows), w.rows[m].span = w.rows[n].span
      PROVE  m = n
  BY <1>1, <1>4, <1>5 DEF RowsOnce
<1>6. ASSUME NEW m \in 1..Len(w.rows), NEW k \in 1..Len(w.left) PROVE w.rows[m].span \notin w.left[k]
  <2>1. CASE m = Len(v.rows) + 1 /\ w.rows[m].span = s
    BY <1>1, <1>2, <1>4, <2>1
  <2>2. CASE m \in 1..Len(v.rows) /\ w.rows[m] = v.rows[m]
    <3>1. \A l \in 1..Len(v.left) : v.rows[m].span \notin v.left[l]
      BY <2>2 DEF RowsOnce
    <3> QED BY <1>1, <1>2, <1>4, <2>2, <3>1
  <2> QED BY <1>1, <2>1, <2>2
<1>7. ASSUME NEW k \in 1..Len(w.left), NEW l \in 1..Len(w.left), k < l
      PROVE  w.left[k] \cap w.left[l] = {}
  <2>1. CASE k = 1 /\ w.left[k] = Inner(s, closed)
    <3>1. l # 1
      BY <1>7, <2>1
    <3>2. \A t \in w.left[l] : \E h \in 1..Len(v.left) : t \in v.left[h]
      BY <1>1, <1>4, <3>1
    <3> QED BY <1>2, <2>1, <3>2
  <2>2. CASE k = 2 /\ w.left[k] = v.left[1] \ {s}
    <3>1. l >= 3
      BY <1>7, <2>2
    <3>2. l - 1 \in 1..Len(v.left) /\ 1 < l - 1 /\ w.left[l] = v.left[l - 1]
      BY <1>1, <1>4, <3>1
    <3>3. v.left[1] \cap v.left[l - 1] = {}
      BY <1>1, <3>2 DEF RowsOnce
    <3> QED BY <2>2, <3>2, <3>3
  <2>3. CASE k >= 3 /\ k - 1 \in 2..Len(v.left) /\ w.left[k] = v.left[k - 1]
    <3>1. l >= 3 /\ k - 1 < l - 1
      BY <1>7, <2>3
    <3>2. l - 1 \in 1..Len(v.left) /\ k - 1 \in 1..Len(v.left) /\ w.left[l] = v.left[l - 1]
      BY <1>1, <1>4, <2>3, <3>1
    <3> QED BY <2>3, <3>1, <3>2 DEF RowsOnce
  <2> QED BY <1>1, <2>1, <2>2, <2>3
<1> QED BY <1>5, <1>6, <1>7 DEF RowsOnce

\* ... and in its place, and opens what may have a row.
LEMMA RowKeepsPlaced ==
  ASSUME NInv, Walked, NEW closed, NEW v \in RowState, NEW w, NEW s \in SpanId, Adds(v, w, s, closed),
         RowsOnce(v), RowsPlaced(v, closed)
  PROVE  RowsPlaced(w, closed)
<1>0. RowsOf(v, w, s) /\ LoopsOf(v, w, s, closed)
  BY WhatIsAdded
<1>1. /\ \A m \in 1..Len(w.rows) :
           \/ m \in 1..Len(v.rows) /\ w.rows[m] = v.rows[m]
           \/ m = Len(v.rows) + 1 /\ w.rows[m].span = s /\ w.rows[m].depth = Len(v.left) - 1
      /\ \A k \in 1..Len(w.left) :
           \/ k = 1 /\ w.left[k] = Inner(s, closed)
           \/ k = 2 /\ w.left[k] = v.left[1] \ {s} /\ 1 \in 1..Len(v.left)
           \/ k >= 3 /\ k - 1 \in 2..Len(v.left) /\ w.left[k] = v.left[k - 1]
      /\ s \in v.left[1] /\ 1 \in 1..Len(v.left) /\ Shown(w) = Shown(v) \cup {s}
  BY <1>0, WhatIsAdded DEF RowsOf, LoopsOf
<1>2. \A t : Placed(t, v, closed) => Placed(t, w, closed)
  BY <1>1 DEF Placed
<1>3. Placed(s, v, closed)
  BY <1>1 DEF RowsPlaced
<1>4. \A k \in 2..Len(v.left) : k \in 1..Len(v.left)
  BY RowTypes
<1>5. ASSUME NEW c \in Inner(s, closed) PROVE Placed(c, w, closed)
  <2>1. c \in SpanId /\ ParentOf(c) = s /\ s # None /\ s \notin closed
    BY InnerIsNew DEF NInv
  <2>2. c \in Range(order)
    <3>1. Len(frames) = 0
      BY DEF Walked
    <3> QED BY <1>3, <2>1, <3>1 DEF NInv, Reached, Placed
  <2>3. Above(c) = Above(s) \cup {c}
    BY <2>1, <2>2, ChildIsLater
  <2>4. Open(c, closed)
    BY <1>3, <2>1, <2>3 DEF Open, Placed
  <2> QED BY <1>1, <2>1, <2>2, <2>4 DEF Placed
<1>6. ASSUME NEW m \in 1..Len(w.rows) PROVE Placed(w.rows[m].span, w, closed)
  BY <1>1, <1>2, <1>3 DEF RowsPlaced
<1>7. ASSUME NEW k \in 1..Len(w.left), NEW t \in w.left[k] PROVE Placed(t, w, closed)
  <2>1. t \in Inner(s, closed) \/ \E l \in 1..Len(v.left) : t \in v.left[l]
    BY <1>1, <1>4
  <2> QED BY <1>2, <1>5, <2>1 DEF RowsPlaced
<1> QED BY <1>6, <1>7 DEF RowsPlaced

\* Its depth is that of the loop, and what it opens is one deeper.
LEMMA RowKeepsDeep ==
  ASSUME NInv, Walked, NEW closed, NEW v \in RowState, NEW w, NEW s \in SpanId, Adds(v, w, s, closed),
         RowsOnce(v), RowsPlaced(v, closed), RowsDeep(v)
  PROVE  RowsDeep(w)
<1>0. RowsOf(v, w, s) /\ LoopsOf(v, w, s, closed)
  BY WhatIsAdded
<1>1. /\ \A m \in 1..Len(w.rows) :
           \/ m \in 1..Len(v.rows) /\ w.rows[m] = v.rows[m]
           \/ m = Len(v.rows) + 1 /\ w.rows[m].span = s /\ w.rows[m].depth = Len(v.left) - 1
      /\ \A k \in 1..Len(w.left) :
           \/ k = 1 /\ w.left[k] = Inner(s, closed)
           \/ k = 2 /\ w.left[k] = v.left[1] \ {s} /\ 1 \in 1..Len(v.left)
           \/ k >= 3 /\ k - 1 \in 2..Len(v.left) /\ w.left[k] = v.left[k - 1]
      /\ s \in v.left[1] /\ 1 \in 1..Len(v.left)
  BY <1>0, WhatIsAdded DEF RowsOf, LoopsOf
<1>2. Len(v.left) \in Nat /\ Len(w.left) = Len(v.left) + 1
  BY DEF Adds
<1>3. Climb(s) = Len(v.left)
  <2>1. Climb(s) = Len(v.left) - 1 + 1
    BY <1>1 DEF RowsDeep
  <2> QED BY <1>2, <2>1
<1>4. ASSUME NEW c \in Inner(s, closed) PROVE ParentOf(c) = s /\ Climb(c) = Len(v.left) + 1
  <2>1. ParentOf(c) = s /\ s # None
    BY InnerIsNew DEF NInv
  <2>2. c \in Range(order)
    <3>1. Placed(c, w, closed)
      <4>1. RowsPlaced(w, closed)
        BY RowKeepsPlaced
      <4>2. 1 \in 1..Len(w.left) /\ c \in w.left[1]
        BY WhatIsAdded
      <4> QED BY <4>1, <4>2 DEF RowsPlaced
    <3> QED BY <3>1 DEF Placed
  <2> QED BY <1>3, <2>1, <2>2, ChildIsLater
<1>5. ASSUME NEW m \in 1..Len(w.rows) PROVE w.rows[m].depth + 1 = Climb(w.rows[m].span)
  <2>1. CASE m \in 1..Len(v.rows) /\ w.rows[m] = v.rows[m]
    BY <2>1 DEF RowsDeep
  <2>2. CASE w.rows[m].span = s /\ w.rows[m].depth = Len(v.left) - 1
    BY <1>2, <1>3, <2>2
  <2> QED BY <1>1, <2>1, <2>2
<1>6. ASSUME NEW k \in 1..Len(w.left), NEW t \in w.left[k]
      PROVE  Climb(t) = Len(w.left) - k + 1 /\ \A u \in w.left[k] : ParentOf(t) = ParentOf(u)
  <2>1. CASE k = 1 /\ w.left[k] = Inner(s, closed)
    BY <1>2, <1>4, <2>1
  <2>2. CASE k = 2 /\ w.left[k] = v.left[1] \ {s}
    <3>1. /\ Climb(t) = Len(v.left) - 1 + 1
          /\ \A u \in v.left[1] : ParentOf(t) = ParentOf(u)
      BY <1>1, <2>2 DEF RowsDeep
    <3> QED BY <1>2, <2>2, <3>1
  <2>3. CASE k >= 3 /\ k - 1 \in 2..Len(v.left) /\ w.left[k] = v.left[k - 1]
    <3>1. k - 1 \in 1..Len(v.left)
      BY <1>2, <2>3
    <3>2. /\ Climb(t) = Len(v.left) - (k - 1) + 1
          /\ \A u \in v.left[k - 1] : ParentOf(t) = ParentOf(u)
      BY <2>3, <3>1 DEF RowsDeep
    <3> QED BY <1>2, <2>3, <3>2
  <2> QED BY <1>1, <2>1, <2>2, <2>3
<1> QED BY <1>5, <1>6 DEF RowsDeep

\* Nothing is passed over, and the count is kept.
LEMMA RowKeepsReach ==
  ASSUME NavTypes, NEW closed, NEW v \in RowState, NEW w, NEW s \in SpanId, Adds(v, w, s, closed),
         RowsReach(v, closed), NEW n \in Nat, RowsCount(v, n)
  PROVE  RowsReach(w, closed) /\ RowsCount(w, n + 1)
<1>1. /\ Shown(w) = Shown(v) \cup {s}
      /\ \A l \in 1..Len(v.left) : \A t \in v.left[l] \ {s} :
              l + 1 \in 1..Len(w.left) /\ t \in w.left[l + 1]
      /\ \A t \in Inner(s, closed) : 1 \in 1..Len(w.left) /\ t \in w.left[1]
  BY WhatIsAdded
<1>2. ASSUME NEW t \in SpanId, ParentOf(t) \in {None} \cup (Shown(w) \ closed), t \notin Shown(w)
      PROVE  \E k \in 1..Len(w.left) : t \in w.left[k]
  <2>1. CASE ParentOf(t) \in {None} \cup (Shown(v) \ closed)
    <3>1. PICK l \in 1..Len(v.left) : t \in v.left[l]
      BY <1>1, <1>2, <2>1 DEF RowsReach
    <3>2. l + 1 \in 1..Len(w.left) /\ t \in w.left[l + 1]
      BY <1>1, <1>2, <3>1
    <3> QED BY <3>2
  <2>2. CASE ParentOf(t) = s /\ s \notin closed
    <3>1. t \in Inner(s, closed)
      BY <2>2, SpansAreNumbered DEF Inner, NavTypes
    <3> QED BY <1>1, <3>1
  <2> QED BY <1>1, <1>2, <2>1, <2>2
<1>3. RowsCount(w, n + 1)
  <2>1. /\ Len(v.left) \in Nat /\ 1 <= Len(v.left) /\ Len(v.rows) \in Nat
        /\ Len(w.left) = Len(v.left) + 1 /\ Len(w.rows) = Len(v.rows) + 1
    BY DEF Adds
  <2>2. PICK l, r, l2, r2 : l = Len(v.left) /\ r = Len(v.rows) /\ l2 = Len(w.left) /\ r2 = Len(w.rows)
    OBVIOUS
  <2>3. l \in Nat /\ l # 0 /\ r \in Nat /\ l2 = l + 1 /\ r2 = r + 1
    BY <2>1, <2>2
  <2>4. n + l = 2 * r + 1
    BY <2>2, <2>3 DEF RowsCount
  <2>5. (n + 1) + l2 = 2 * r2 + 1
    BY <2>3, <2>4
  <2> QED BY <2>2, <2>5 DEF RowsCount
<1> QED BY <1>2, <1>3 DEF RowsReach

\* When all spans have a start time, the row comes after those before it in the walk, and
\* before all that is ahead.
LEMMA RowKeepsSorted ==
  ASSUME NInv, Walked, NEW closed, NEW v \in RowState, NEW w, NEW s \in SpanId, Adds(v, w, s, closed),
         RowsOnce(v), RowsPlaced(v, closed), RowsDeep(v), untimed = {}, RowsSorted(v)
  PROVE  RowsSorted(w)
<1>0. RowsOf(v, w, s) /\ LoopsOf(v, w, s, closed)
  BY WhatIsAdded
<1>1. /\ \A m \in 1..Len(w.rows) :
           \/ m \in 1..Len(v.rows) /\ w.rows[m] = v.rows[m]
           \/ m = Len(v.rows) + 1 /\ w.rows[m].span = s /\ w.rows[m].depth = Len(v.left) - 1
      /\ \A k \in 1..Len(w.left) :
           \/ k = 1 /\ w.left[k] = Inner(s, closed)
           \/ k = 2 /\ w.left[k] = v.left[1] \ {s} /\ 1 \in 1..Len(v.left)
           \/ k >= 3 /\ k - 1 \in 2..Len(v.left) /\ w.left[k] = v.left[k - 1]
      /\ s \in v.left[1] /\ 1 \in 1..Len(v.left)
  BY <1>0, WhatIsAdded DEF RowsOf, LoopsOf
<1>2. Len(v.left) \in Nat /\ Len(v.rows) \in Nat /\ s \in Range(order)
  BY <1>1, RowTypes DEF RowsPlaced, Placed
<1>3. \A t \in v.left[1] \ {s} : s < t
  BY DEF Adds
<1>4. ASSUME NEW l \in 1..Len(v.left), NEW t \in v.left[l], t # s
      PROVE  t \in Range(order) /\ Earlier(s, t) /\ s \notin Above(t)
  <2>1. Placed(t, v, closed)
    BY DEF RowsPlaced
  <2>2. Earlier(s, t)
    <3>1. CASE l = 1
      <4>1. s < t /\ ParentOf(s) = ParentOf(t)
        BY <1>1, <1>3, <1>4, <3>1 DEF RowsDeep
      <4> QED BY <1>2, <2>1, <4>1, SiblingIsLater DEF Placed
    <3>2. CASE l # 1
      <4>1. 1 < l
        BY <1>2, <3>2
      <4> QED BY <1>1, <4>1 DEF RowsSorted
    <3> QED BY <3>1, <3>2
  <2>3. s \notin Above(t)
    <3>1. CASE ParentOf(t) = None
      <4>1. Above(t) = {t}
        BY <2>1, <3>1, ChildIsLater DEF Placed
      <4> QED BY <1>4, <4>1
    <3>2. CASE ParentOf(t) \in Shown(v) /\ ParentOf(t) # None
      <4>1. /\ ParentOf(t) \in Range(order) /\ Above(t) = Above(ParentOf(t)) \cup {t}
        BY <2>1, <3>2, ChildIsLater DEF Placed
      <4>2. Earlier(ParentOf(t), s)
        <5>1. PICK m \in 1..Len(v.rows) : ParentOf(t) = v.rows[m].span
          BY <3>2 DEF Shown
        <5> QED BY <1>1, <5>1 DEF RowsSorted
      <4>3. s # ParentOf(t) /\ ~Earlier(s, ParentOf(t))
        BY <4>2, EarlierOrders
      <4>4. s \notin Above(ParentOf(t))
        BY <4>1, <4>3, AboveIsEarlier
      <4> QED BY <1>4, <4>1, <4>4
    <3> QED BY <2>1, <3>1, <3>2 DEF Placed
  <2> QED BY <2>1, <2>2, <2>3 DEF Placed
<1>5. ASSUME NEW c \in Inner(s, closed)
      PROVE  /\ Earlier(s, c)
             /\ \A l \in 1..Len(v.left) : \A t \in v.left[l] : t # s => Earlier(c, t)
  <2>1. ParentOf(c) = s /\ s # None
    BY InnerIsNew DEF NInv
  <2>2. c \in Range(order)
    <3>1. RowsPlaced(w, closed)
      BY RowKeepsPlaced
    <3>2. 1 \in 1..Len(w.left) /\ c \in w.left[1]
      BY WhatIsAdded
    <3> QED BY <3>1, <3>2 DEF RowsPlaced, Placed
  <2>3. Earlier(s, c)
    BY <2>1, <2>2, ChildIsLater
  <2>4. ASSUME NEW l \in 1..Len(v.left), NEW t \in v.left[l], t # s PROVE Earlier(c, t)
    BY <1>4, <2>1, <2>2, <2>4, ChildIsBefore
  <2> QED BY <2>3, <2>4
<1>6. ASSUME NEW m \in 1..Len(v.rows)
      PROVE  /\ Earlier(v.rows[m].span, s)
             /\ \A c \in Inner(s, closed) : Earlier(v.rows[m].span, c)
             /\ \A l \in 1..Len(v.left) : \A t \in v.left[l] : Earlier(v.rows[m].span, t)
  <2>1. /\ Earlier(v.rows[m].span, s)
        /\ \A l \in 1..Len(v.left) : \A t \in v.left[l] : Earlier(v.rows[m].span, t)
    BY <1>1 DEF RowsSorted
  <2>2. \A c \in Inner(s, closed) : Earlier(v.rows[m].span, c)
    BY <1>5, <2>1, EarlierOrders
  <2> QED BY <2>1, <2>2
<1>7. \A k \in 2..Len(v.left) : k \in 1..Len(v.left) /\ s \notin v.left[k]
  <2>1. \A k \in 2..Len(v.left) : k \in 1..Len(v.left) /\ 1 < k
    BY <1>2
  <2>2. \A k \in 2..Len(v.left) : v.left[1] \cap v.left[k] = {}
    BY <1>1, <2>1 DEF RowsOnce
  <2> QED BY <1>1, <2>1, <2>2
<1>8. ASSUME NEW k \in 1..Len(w.left), NEW t \in w.left[k]
      PROVE  t \in Inner(s, closed) \/ (t # s /\ \E l \in 1..Len(v.left) : t \in v.left[l])
  BY <1>1, <1>7
<1>9. ASSUME NEW m \in 1..Len(w.rows), NEW n \in 1..Len(w.rows), m < n
      PROVE  Earlier(w.rows[m].span, w.rows[n].span)
  <2>1. m \in 1..Len(v.rows) /\ w.rows[m] = v.rows[m]
    BY <1>1, <1>2, <1>9
  <2> QED BY <1>1, <1>6, <1>9, <2>1 DEF RowsSorted
<1>10. ASSUME NEW m \in 1..Len(w.rows), NEW k \in 1..Len(w.left), NEW t \in w.left[k]
       PROVE  Earlier(w.rows[m].span, t)
  <2>1. CASE m \in 1..Len(v.rows) /\ w.rows[m] = v.rows[m]
    BY <1>6, <1>8, <2>1
  <2>2. CASE w.rows[m].span = s
    BY <1>4, <1>5, <1>8, <2>2
  <2> QED BY <1>1, <2>1, <2>2
<1>11. ASSUME NEW k \in 1..Len(w.left), NEW l \in 1..Len(w.left), k < l,
              NEW t \in w.left[k], NEW u \in w.left[l]
       PROVE  Earlier(t, u)
  <2>1. l # 1 /\ u # s /\ \E h \in 1..Len(v.left) : u \in v.left[h]
    <3>1. l # 1
      BY <1>11
    <3>2. u \in v.left[1] \ {s} \/ (l - 1 \in 2..Len(v.left) /\ u \in v.left[l - 1])
      BY <1>1, <3>1
    <3> QED BY <1>1, <1>7, <3>1, <3>2
  <2>2. CASE k = 1 /\ w.left[k] = Inner(s, closed)
    BY <1>5, <2>1, <2>2
  <2>3. CASE k = 2 /\ w.left[k] = v.left[1] \ {s}
    <3>1. l >= 3
      BY <1>11, <2>3
    <3>2. l - 1 \in 1..Len(v.left) /\ 1 < l - 1 /\ w.left[l] = v.left[l - 1]
      BY <1>1, <1>7, <3>1
    <3>3. t \in v.left[1] /\ u \in v.left[l - 1]
      BY <2>3, <3>2
    <3> QED BY <1>1, <3>2, <3>3 DEF RowsSorted
  <2>4. CASE k >= 3 /\ k - 1 \in 2..Len(v.left) /\ w.left[k] = v.left[k - 1]
    <3>1. l >= 3 /\ k - 1 < l - 1
      BY <1>11, <2>4
    <3>2. l - 1 \in 1..Len(v.left) /\ k - 1 \in 1..Len(v.left) /\ w.left[l] = v.left[l - 1]
      <4>1. l - 1 \in 2..Len(v.left) /\ w.left[l] = v.left[l - 1]
        BY <1>1, <3>1
      <4> QED BY <1>7, <2>4, <4>1
    <3>3. t \in v.left[k - 1] /\ u \in v.left[l - 1]
      BY <2>4, <3>2
    <3> QED BY <3>1, <3>2, <3>3 DEF RowsSorted
  <2> QED BY <1>1, <2>2, <2>3, <2>4
<1> QED BY <1>9, <1>10, <1>11 DEF RowsSorted

\* The end of a loop keeps all of it.
LEMMA LeavingKeeps ==
  ASSUME NEW closed, NEW n \in Nat, NEW v, RowsInv(v, n, closed), NEW w, Leaves(v, w)
  PROVE  RowsInv(w, n + 1, closed)
<1>1. /\ w.rows = v.rows /\ Shown(w) = Shown(v)
      /\ \A k \in 1..Len(w.left) : k + 1 \in 1..Len(v.left) /\ w.left[k] = v.left[k + 1]
      /\ \A l \in 1..Len(v.left) : \A t \in v.left[l] :
           l - 1 \in 1..Len(w.left) /\ t \in w.left[l - 1]
      /\ Len(v.left) \in Nat /\ Len(w.left) = Len(v.left) - 1 /\ 1 <= Len(v.left)
      /\ v \in RowState /\ w \in RowState /\ Len(v.rows) \in Nat
  <2>1. v \in RowState /\ w \in RowState
    BY DEF RowsInv, Leaves
  <2> QED BY <2>1, WhatIsLeft, RowTypes
<1>2. RowsOnce(w)
  <2>1. ASSUME NEW m \in 1..Len(w.rows), NEW k \in 1..Len(w.left) PROVE w.rows[m].span \notin w.left[k]
    BY <1>1 DEF RowsInv, RowsOnce
  <2>2. ASSUME NEW k \in 1..Len(w.left), NEW l \in 1..Len(w.left), k < l
        PROVE  w.left[k] \cap w.left[l] = {}
    <3>1. k + 1 < l + 1 /\ k + 1 \in 1..Len(v.left) /\ l + 1 \in 1..Len(v.left)
      BY <1>1, <2>2
    <3>2. v.left[k + 1] \cap v.left[l + 1] = {}
      BY <3>1 DEF RowsInv, RowsOnce
    <3> QED BY <1>1, <3>2
  <2> QED BY <1>1, <2>1, <2>2 DEF RowsInv, RowsOnce
<1>3. RowsPlaced(w, closed)
  BY <1>1 DEF RowsInv, RowsPlaced, Placed
<1>4. RowsDeep(w)
  <2>1. ASSUME NEW k \in 1..Len(w.left), NEW s \in w.left[k]
        PROVE  Climb(s) = Len(w.left) - k + 1 /\ \A t \in w.left[k] : ParentOf(s) = ParentOf(t)
    <3>1. /\ Climb(s) = Len(v.left) - (k + 1) + 1
          /\ \A t \in v.left[k + 1] : ParentOf(s) = ParentOf(t)
      BY <1>1 DEF RowsInv, RowsDeep
    <3>2. Len(v.left) - (k + 1) + 1 = Len(w.left) - k + 1
      <4>1. PICK l, x : l = Len(v.left) /\ x = Len(w.left) /\ l \in Nat /\ x = l - 1
        BY <1>1
      <4>2. k \in Int /\ l - (k + 1) + 1 = (l - 1) - k + 1
        BY <4>1
      <4> QED BY <4>1, <4>2
    <3> QED BY <1>1, <3>1, <3>2
  <2> QED BY <1>1, <2>1 DEF RowsInv, RowsDeep
<1>5. RowsReach(w, closed)
  <2>1. ASSUME NEW s \in SpanId, ParentOf(s) \in {None} \cup (Shown(w) \ closed), s \notin Shown(w)
        PROVE  \E k \in 1..Len(w.left) : s \in w.left[k]
    <3>1. PICK l \in 1..Len(v.left) : s \in v.left[l]
      BY <1>1, <2>1 DEF RowsInv, RowsReach
    <3> QED BY <1>1, <3>1
  <2> QED BY <2>1 DEF RowsReach
<1>6. RowsCount(w, n + 1)
  <2>1. PICK l, r, x : l = Len(v.left) /\ r = Len(v.rows) /\ x = Len(w.left)
    OBVIOUS
  <2>2. l \in Nat /\ l # 0 /\ r \in Nat /\ x = l - 1 /\ r = Len(w.rows)
    BY <1>1, <2>1
  <2>3. n + l = 2 * r + 1
    BY <2>1, <2>2 DEF RowsInv, RowsCount
  <2>4. (n + 1) + x = 2 * r + 1
    BY <2>2, <2>3
  <2> QED BY <2>1, <2>2, <2>4 DEF RowsCount
<1>7. ASSUME untimed = {} PROVE RowsSorted(w)
  <2>1. RowsSorted(v)
    BY <1>7 DEF RowsInv
  <2>2. ASSUME NEW k \in 1..Len(w.left), NEW l \in 1..Len(w.left), k < l,
               NEW s \in w.left[k], NEW t \in w.left[l]
        PROVE  Earlier(s, t)
    <3>1. k + 1 < l + 1 /\ k + 1 \in 1..Len(v.left) /\ l + 1 \in 1..Len(v.left)
      BY <1>1, <2>2
    <3> QED BY <1>1, <2>1, <3>1 DEF RowsSorted
  <2>3. ASSUME NEW m \in 1..Len(w.rows), NEW k \in 1..Len(w.left), NEW t \in w.left[k]
        PROVE  Earlier(w.rows[m].span, t)
    BY <1>1, <2>1 DEF RowsSorted
  <2> QED BY <1>1, <2>1, <2>2, <2>3 DEF RowsSorted
<1> QED BY <1>1, <1>2, <1>3, <1>4, <1>5, <1>6, <1>7 DEF RowsInv

\* At the beginning the roots are ahead.
LEMMA RowsBegin ==
  ASSUME NInv, Walked, NEW closed
  PROVE  RowsInv(RowsStart, 0, closed)
<1> DEFINE v == RowsStart
<1>1. v.rows = <<>> /\ v.left = <<Children(None)>>
  BY DEF RowsStart
<1>2. Len(v.rows) = 0 /\ Len(v.left) = 1 /\ v.left[1] = Children(None) /\ Shown(v) = {}
  BY <1>1 DEF Shown
<1>3. v \in RowState
  <2>1. Children(None) \in SUBSET SpanId
    BY DEF Children
  <2>2. <<Children(None)>> \in Seq(SUBSET SpanId)
    BY <2>1
  <2> QED BY <2>2 DEF RowState, RowsStart
<1>4. \A s \in Children(None) : s \in SpanId /\ ParentOf(s) = None
  BY SpansAreNumbered DEF NInv, NavTypes
<1>5. \A s \in SpanId : ParentOf(s) = None => s \in Children(None)
  BY SpansAreNumbered DEF NInv, NavTypes
<1>6. ASSUME NEW s \in Children(None)
      PROVE  s \in Range(order) /\ Above(s) = {s} /\ Climb(s) = 1
  <2>1. Len(frames) = 0
    BY DEF Walked
  <2>2. s \in Range(order)
    BY <1>4, <2>1 DEF NInv, Reached
  <2> QED BY <1>4, <2>2, ChildIsLater
<1> HIDE DEF v
<1>7. RowsOnce(v)
  BY <1>2 DEF RowsOnce
<1>8. RowsPlaced(v, closed)
  BY <1>2, <1>4, <1>6 DEF RowsPlaced, Placed, Open
<1>9. RowsDeep(v)
  BY <1>2, <1>4, <1>6 DEF RowsDeep
<1>10. RowsReach(v, closed)
  <2>1. 1 \in 1..Len(v.left)
    BY <1>2
  <2> QED BY <1>2, <1>5, <2>1 DEF RowsReach
<1>11. RowsCount(v, 0)
  BY <1>2 DEF RowsCount
<1>12. RowsSorted(v)
  BY <1>2 DEF RowsSorted
<1> QED BY <1>3, <1>7, <1>8, <1>9, <1>10, <1>11, <1>12 DEF RowsInv, v

\* Each step keeps what is right of the rows.
LEMMA RowsGoOn ==
  ASSUME NInv, Walked, NEW closed, NEW n \in Nat, NEW v, RowsInv(v, n, closed),
         NEW w, w = AddRow(v, closed)
  PROVE  RowsInv(w, n + 1, closed)
<1>1. v \in RowState /\ NavTypes
  BY DEF RowsInv, NInv
<1>2. CASE v.left = <<>>
  <2>1. w = v
    BY <1>2 DEF AddRow
  <2>2. RowsCount(v, n + 1)
    BY <1>2 DEF RowsCount
  <2> QED BY <2>1, <2>2 DEF RowsInv
<1>3. CASE v.left # <<>> /\ Head(v.left) = {}
  <2>1. Leaves(v, w)
    BY <1>1, <1>3, LoopEnded
  <2> QED BY <2>1, LeavingKeeps
<1>4. CASE v.left # <<>> /\ Head(v.left) # {}
  <2>1. PICK s \in SpanId : Adds(v, w, s, closed)
    BY <1>1, <1>4, RowAdded
  <2>2. /\ RowsOnce(v) /\ RowsPlaced(v, closed) /\ RowsDeep(v)
        /\ RowsReach(v, closed) /\ RowsCount(v, n) /\ (untimed = {} => RowsSorted(v))
    BY DEF RowsInv
  <2>3. w \in RowState
    BY <2>1 DEF Adds
  <2>4. RowsOnce(w)
    BY <1>1, <2>1, <2>2, RowKeepsOnce
  <2>5. RowsPlaced(w, closed)
    BY <1>1, <2>1, <2>2, RowKeepsPlaced
  <2>6. RowsDeep(w)
    BY <1>1, <2>1, <2>2, RowKeepsDeep
  <2>7. RowsReach(w, closed) /\ RowsCount(w, n + 1)
    BY <1>1, <2>1, <2>2, RowKeepsReach
  <2>8. untimed = {} => RowsSorted(w)
    BY <1>1, <2>1, <2>2, RowKeepsSorted
  <2> QED BY <2>3, <2>4, <2>5, <2>6, <2>7, <2>8 DEF RowsInv
<1> QED BY <1>2, <1>3, <1>4

\* So it is right after every step.
LEMMA RowsStayRight ==
  ASSUME NInv, Walked, NEW closed
  PROVE  \A n \in 0..LastStep : RowsInv(Building(closed)[n], n, closed)
<1> PICK f : f = Building(closed)
  OBVIOUS
<1>1. /\ LastStep \in Nat /\ f[0] = RowsStart
      /\ \A n \in 1..LastStep : f[n] = AddRow(f[n - 1], closed)
  BY BuildingIs DEF NInv
<1> DEFINE Wrong == {n \in 0..LastStep : ~RowsInv(f[n], n, closed)}
<1>2. Wrong = {}
  <2>1. SUFFICES ASSUME Wrong # {} PROVE FALSE
    OBVIOUS
  <2>2. PICK n \in Wrong : \A m \in Wrong : n <= m
    <3>1. Wrong \subseteq Nat
      BY <1>1
    <3> HIDE DEF Wrong
    <3> QED BY <2>1, <3>1, LeastNumber
  <2>3. n \in 0..LastStep /\ ~RowsInv(f[n], n, closed)
    OBVIOUS
  <2>4. n # 0
    BY <1>1, <2>3, RowsBegin
  <2>5. n \in 1..LastStep /\ n - 1 \in 0..LastStep /\ n - 1 \in Nat /\ (n - 1) + 1 = n /\ ~(n <= n - 1)
    BY <1>1, <2>3, <2>4
  <2>6. RowsInv(f[n - 1], n - 1, closed)
    BY <2>2, <2>5
  <2>7. f[n] = AddRow(f[n - 1], closed)
    BY <1>1, <2>5
  <2>8. RowsInv(f[n], (n - 1) + 1, closed)
    BY <2>5, <2>6, <2>7, RowsGoOn
  <2> QED BY <2>3, <2>5, <2>8
<1> QED BY <1>2

\* There are no more rows than spans, so that at the last step nothing is ahead.
LEMMA NothingAhead ==
  ASSUME NavTypes, NEW closed, NEW v, RowsInv(v, LastStep, closed)
  PROVE  Len(v.left) = 0
<1>1. /\ Len(v.rows) \in Nat /\ Len(v.left) \in Nat
      /\ \A m \in 1..Len(v.rows) : v.rows[m].span \in SpanId
  BY RowTypes DEF RowsInv
<1>2. Cardinality(SpanId) \in Nat /\ IsFiniteSet(SpanId)
  <2>1. Cardinality(SpanId) \in Nat /\ SpanId = 1..Cardinality(SpanId)
    BY SpansAreNumbered DEF NavTypes
  <2>2. IsFiniteSet(1..Cardinality(SpanId))
    BY <2>1, FS_Interval
  <2> QED BY <2>1, <2>2
<1> DEFINE shown == [m \in 1..Len(v.rows) |-> v.rows[m].span]
<1>3. shown \in Injection(1..Len(v.rows), SpanId)
  BY <1>1 DEF RowsInv, RowsOnce, Injection, IsInjective
<1>4. Cardinality(1..Len(v.rows)) = Len(v.rows)
  BY <1>1, FS_Interval
<1> HIDE DEF shown
<1>5. Cardinality(1..Len(v.rows)) <= Cardinality(SpanId)
  BY <1>2, <1>3, FS_Injection
<1>6. PICK l, r, c : l = Len(v.left) /\ r = Len(v.rows) /\ c = Cardinality(SpanId)
  OBVIOUS
<1>7. l = 0 \/ (2 * c + 1) + l = 2 * r + 1
  BY <1>6 DEF RowsInv, RowsCount, LastStep
<1>8. l \in Nat /\ r \in Nat /\ c \in Nat /\ r <= c
  BY <1>1, <1>2, <1>4, <1>5, <1>6
<1> QED BY <1>6, <1>7, <1>8

\* Then everything open has a row.
LEMMA AllOpenShown ==
  ASSUME NInv, NEW closed, NEW v, RowsReach(v, closed), Len(v.left) = 0
  PROVE  \A s \in Range(order) : Open(s, closed) => s \in Shown(v)
<1>1. /\ Len(order) \in Nat /\ DOMAIN order = 1..Len(order)
      /\ \A n \in 1..Len(order) : order[n] \in SpanId
      /\ \A m, n \in 1..Len(order) : order[m] = order[n] => m = n
  BY PlacesKnown
<1> DEFINE Missing == {n \in 1..Len(order) : Open(order[n], closed) /\ order[n] \notin Shown(v)}
<1>2. Missing = {}
  <2>1. SUFFICES ASSUME Missing # {} PROVE FALSE
    OBVIOUS
  <2>2. PICK n \in Missing : \A m \in Missing : n <= m
    <3>1. Missing \subseteq Nat
      BY <1>1
    <3> HIDE DEF Missing
    <3> QED BY <2>1, <3>1, LeastNumber
  <2>3. PICK s : s = order[n]
    OBVIOUS
  <2>4. /\ n \in 1..Len(order) /\ s \in SpanId /\ s \in Range(order)
        /\ Open(s, closed) /\ s \notin Shown(v)
    BY <1>1, <2>3 DEF Range
  <2>5. ParentOf(s) \notin {None} \cup (Shown(v) \ closed)
    BY <2>4 DEF RowsReach
  <2>6. /\ ParentOf(s) \in Range(order) /\ Earlier(ParentOf(s), s)
        /\ Above(s) = Above(ParentOf(s)) \cup {s}
    BY <2>4, <2>5, ChildIsLater
  <2>7. PICK m \in 1..Len(order) : ParentOf(s) = order[m] /\ m < n
    BY <1>1, <2>3, <2>4, <2>6 DEF Earlier
  <2>8. s \notin Above(ParentOf(s))
    BY <2>6, EarlierOrders, AboveIsEarlier
  <2>9. Above(ParentOf(s)) \cap closed = {}
    BY <2>4, <2>6, <2>8 DEF Open
  <2>10. ParentOf(s) \in Above(ParentOf(s))
    BY <2>6, ChildIsLater
  <2>11. ParentOf(s) \in Shown(v)
    <3>1. Open(ParentOf(s), closed)
      BY <2>9 DEF Open
    <3>2. m \notin Missing
      <4>1. ~(n <= m)
        BY <1>1, <2>4, <2>7
      <4> QED BY <2>2, <4>1
    <3> QED BY <2>7, <3>1, <3>2
  <2> QED BY <2>5, <2>9, <2>10, <2>11
<1> QED BY <1>1, <1>2 DEF Range

\* The rows of the tree are right, whatever is collapsed.
LEMMA TreeIsRight == ASSUME NInv, Walked PROVE RowsShowTheWalk
<1> SUFFICES ASSUME NEW closed \in SUBSET SpanId
             PROVE  LET rows    == TreeRows(closed)
                        spans   == [n \in DOMAIN rows |-> rows[n].span]
                        open(s) == Above(s) \cap closed \subseteq {s}
                    IN  /\ IsInjective(spans) /\ Range(spans) = {s \in Range(order) : open(s)}
                        /\ \A n \in DOMAIN rows : rows[n].depth + 1 = Len(PathTo(spans[n]))
                        /\ untimed = {} => \A m, n \in DOMAIN rows : m < n => Earlier(spans[m], spans[n])
  BY DEF RowsShowTheWalk
<1>1. PICK v : v = Building(closed)[LastStep]
  OBVIOUS
<1>2. RowsInv(v, LastStep, closed)
  <2>1. LastStep \in 0..LastStep
    BY BuildingIs DEF NInv
  <2> QED BY <1>1, <2>1, RowsStayRight
<1>3. PICK rows : rows = v.rows
  OBVIOUS
<1>4. TreeRows(closed) = rows /\ Len(rows) \in Nat /\ DOMAIN rows = 1..Len(rows)
  <2>1. TreeRows(closed) = rows
    BY <1>1, <1>3 DEF TreeRows, LastStep
  <2>2. rows \in Seq([span : SpanId, depth : Nat])
    BY <1>2, <1>3 DEF RowsInv, RowState
  <2> QED BY <2>1, <2>2, LenProperties
<1>5. PICK spans : spans = [n \in DOMAIN rows |-> rows[n].span]
  OBVIOUS
<1>6. DOMAIN spans = 1..Len(rows) /\ \A n \in 1..Len(rows) : spans[n] = rows[n].span
  BY <1>4, <1>5
<1>7. IsInjective(spans)
  BY <1>2, <1>3, <1>6 DEF RowsInv, RowsOnce, IsInjective
<1>8. Shown(v) = Range(spans)
  BY <1>3, <1>6 DEF Shown, Range
<1>9. \A s \in Range(spans) : s \in Range(order) /\ Open(s, closed)
  <2>1. \A m \in 1..Len(rows) : Placed(spans[m], v, closed)
    BY <1>2, <1>3, <1>6 DEF RowsInv, RowsPlaced
  <2> QED BY <1>6, <2>1 DEF Placed, Range
<1>10. \A s \in Range(order) : Open(s, closed) => s \in Range(spans)
  <2>1. RowsReach(v, closed) /\ Len(v.left) = 0
    BY <1>2, NothingAhead DEF NInv, RowsInv
  <2> QED BY <1>8, <2>1, AllOpenShown
<1>11. Range(spans) = {s \in Range(order) : Above(s) \cap closed \subseteq {s}}
  BY <1>9, <1>10 DEF Open
<1>12. ASSUME NEW n \in 1..Len(rows) PROVE rows[n].depth + 1 = Len(PathTo(spans[n]))
  <2>1. rows[n].depth + 1 = Climb(spans[n])
    BY <1>2, <1>3, <1>6 DEF RowsInv, RowsDeep
  <2>2. spans[n] \in Range(order)
    BY <1>6, <1>9 DEF Range
  <2>3. PICK d : d = Climb(spans[n]) /\ d \in Nat
    BY <2>2, ChildIsLater
  <2>4. PathTo(spans[n]) = [k \in 1..d |-> above[d - k][spans[n]]]
    BY <2>3 DEF PathTo
  <2>5. Len(PathTo(spans[n])) = d
    BY <2>3, <2>4
  <2> QED BY <2>1, <2>3, <2>5
<1>13. untimed = {} => \A m, n \in 1..Len(rows) : m < n => Earlier(spans[m], spans[n])
  BY <1>2, <1>3, <1>6 DEF RowsInv, RowsSorted
<1> QED BY <1>4, <1>5, <1>7, <1>11, <1>12, <1>13

\* In a trace of any size, whatever parents are missing or form cycles and whatever is
\* collapsed, the walk and the tree beside it show one forest (nav.ts:11-32, tree.ts:14-42).
THEOREM ViewsAgree == WalkSpec => []OneForest
<1>1. NInv /\ (Walked => WalksTheForest) => OneForest
  BY TreeIsRight DEF OneForest
<1>2. WalkSpec => []NInv
  BY InitNInv, NextNInv, PTL DEF WalkSpec
<1> QED BY <1>1, <1>2, ForestIsWalked, PTL

==============================================================================
