---------------------------- MODULE PredicateProofs ----------------------------
(***************************************************************************)
(* The conditions, for sources of any length.  The parsers build what the  *)
(* grammar derives: what a call returns is derived, and what is derived is *)
(* returned, where it matters that nothing follows that would go on with   *)
(* it.  And the three comparisons agree, so that a mirror's conditions     *)
(* hold for the spans for which Rust's do.                                 *)
(***************************************************************************)
EXTENDS Predicate, SequenceTheorems, FiniteSetTheorems, WellFoundedInduction, TLAPS

-----------------------------------------------------------------------------
(* What the recursions compute *)

\* The least number principle, from that strict subsets of finite sets are well-founded.
LEMMA LeastNumber ==
  ASSUME NEW T, T \subseteq Nat, T # {}
  PROVE  \E x \in T : \A y \in T : x <= y
<1> DEFINE S == {0..n : n \in T}
<1>1. ASSUME NEW n \in T PROVE 0..n \in FiniteSubsetsOf(Nat)
  <2>1. n \in Nat /\ IsFiniteSet(0..n)
    BY FS_Interval
  <2> QED BY <2>1 DEF FiniteSubsetsOf
<1>2. S \subseteq FiniteSubsetsOf(Nat) /\ S # {}
  BY <1>1
<1>3. PICK X \in S : \A Y \in S : ~(<<Y, X>> \in StrictSubsetOrdering(Nat))
  <2> HIDE DEF S
  <2> QED BY <1>2, FS_StrictSubsetOrderingWellFounded, WFMin
<1>4. PICK x \in T : X = 0..x
  BY <1>3
<1>5. ASSUME NEW y \in T PROVE x <= y
  <2>1. SUFFICES ASSUME y < x PROVE FALSE
    OBVIOUS
  <2>2. 0..y \subseteq 0..x /\ x \in 0..x /\ x \notin 0..y /\ 0..x \subseteq Nat
    BY <2>1
  <2>3. <<0..y, X>> \in StrictSubsetOrdering(Nat)
    BY <1>4, <2>2 DEF StrictSubsetOrdering
  <2> QED BY <1>3, <2>3
<1> QED BY <1>5


\* The turns of a loop.
TurnStep(f, n, t, call, left, word, g) == IF n = 0 THEN left ELSE Turn(t, call, f[n - 1], word, g)

TurnUpTo(f, m, t, call, left, word, g) ==
  /\ f = [k \in 0..MaxTurns(t) |-> f[k]]
  /\ \A k \in 0..MaxTurns(t) : k < m => f[k] = TurnStep(f, k, t, call, left, word, g)

\* One step more.
LEMMA TurnFurther ==
  ASSUME NEW t, NEW call, NEW left, NEW word, NEW g, MaxTurns(t) \in Nat,
         NEW f, NEW m \in Nat, TurnUpTo(f, m, t, call, left, word, g)
  PROVE  \E h : TurnUpTo(h, m + 1, t, call, left, word, g)
<1> DEFINE h == [k \in 0..MaxTurns(t) |-> IF k = m THEN TurnStep(f, m, t, call, left, word, g) ELSE f[k]]
<1>1. h = [k \in 0..MaxTurns(t) |-> h[k]]
  OBVIOUS
<1>2. ASSUME NEW k \in 0..MaxTurns(t), k < m + 1 PROVE h[k] = TurnStep(h, k, t, call, left, word, g)
  <2>1. TurnStep(h, k, t, call, left, word, g) = TurnStep(f, k, t, call, left, word, g)
    <3>1. CASE k = 0
      BY <3>1 DEF TurnStep
    <3>2. CASE k # 0
      <4>1. k - 1 \in 0..MaxTurns(t) /\ k - 1 # m
        BY <1>2, <3>2
      <4>2. h[k - 1] = f[k - 1]
        BY <4>1
      <4> HIDE DEF h
      <4> QED BY <3>2, <4>2 DEF TurnStep
    <3> QED BY <3>1, <3>2
  <2>2. CASE k = m
    BY <2>1, <2>2
  <2>3. CASE k # m
    <3>1. k < m /\ h[k] = f[k]
      BY <1>2, <2>3
    <3> QED BY <2>1, <3>1 DEF TurnUpTo
  <2> QED BY <2>2, <2>3
<1> HIDE DEF h
<1> QED BY <1>1, <1>2 DEF TurnUpTo

\* The function is what its recursion says.
LEMMA TurnIs ==
  ASSUME NEW t, NEW call, NEW left, NEW word, NEW g, MaxTurns(t) \in Nat
  PROVE  \A n \in 0..MaxTurns(t) :
           Turns(t, call, left, word, g)[n] = TurnStep(Turns(t, call, left, word, g), n, t, call, left, word, g)
<1> DEFINE Wrong == {m \in Nat : ~\E f : TurnUpTo(f, m, t, call, left, word, g)}
<1>1. Wrong = {}
  <2>1. SUFFICES ASSUME Wrong # {} PROVE FALSE
    OBVIOUS
  <2>2. PICK m \in Wrong : \A k \in Wrong : m <= k
    <3>1. Wrong \subseteq Nat
      OBVIOUS
    <3> HIDE DEF Wrong
    <3> QED BY <2>1, <3>1, LeastNumber
  <2>3. m # 0
    <3> DEFINE f == [k \in 0..MaxTurns(t) |-> k]
    <3>1. f = [k \in 0..MaxTurns(t) |-> f[k]] /\ \A k \in 0..MaxTurns(t) : ~(k < 0)
      OBVIOUS
    <3> HIDE DEF f
    <3>2. TurnUpTo(f, 0, t, call, left, word, g)
      BY <3>1 DEF TurnUpTo
    <3> QED BY <3>2
  <2>4. m - 1 \in Nat /\ (m - 1) + 1 = m /\ ~(m <= m - 1)
    BY <2>3
  <2>5. PICK f : TurnUpTo(f, m - 1, t, call, left, word, g)
    BY <2>2, <2>4
  <2>6. \E h : TurnUpTo(h, m, t, call, left, word, g)
    BY <2>4, <2>5, TurnFurther
  <2> QED BY <2>6
<1>2. PICK f : TurnUpTo(f, MaxTurns(t) + 1, t, call, left, word, g)
  <2>1. MaxTurns(t) + 1 \in Nat
    OBVIOUS
  <2> QED BY <1>1, <2>1
<1>3. \A k \in 0..MaxTurns(t) : f[k] = TurnStep(f, k, t, call, left, word, g)
  <2>1. \A k \in 0..MaxTurns(t) : k < MaxTurns(t) + 1
    OBVIOUS
  <2> QED BY <1>2, <2>1 DEF TurnUpTo
<1> DEFINE Right(h) == h = [k \in 0..MaxTurns(t) |-> TurnStep(h, k, t, call, left, word, g)]
<1>4. Right(f)
  BY <1>2, <1>3 DEF TurnUpTo
<1>5. Turns(t, call, left, word, g) = CHOOSE h : Right(h)
  BY DEF Turns, TurnStep
<1>6. PICK h : h = Turns(t, call, left, word, g)
  OBVIOUS
<1>7. Right(h)
  <2> HIDE DEF Right
  <2> QED BY <1>4, <1>5, <1>6
<1>8. \A k \in 0..MaxTurns(t) : h[k] = TurnStep(h, k, t, call, left, word, g)
  BY <1>7
<1> QED BY <1>6, <1>8

\* Calls, by their depth.
CallStep(f, n, t) == 
  [i \in 1..(Len(t) + 1) |-> [g \in Nonterminal |->
     IF n = 0 THEN Fails(i) ELSE Called(t, i, g, f[n - 1])]]

CallUpTo(f, m, t) ==
  /\ f = [k \in 0..Len(t) |-> f[k]]
  /\ \A k \in 0..Len(t) : k < m => f[k] = CallStep(f, k, t)

\* One step more.
LEMMA CallFurther ==
  ASSUME NEW t, Len(t) \in Nat,
         NEW f, NEW m \in Nat, CallUpTo(f, m, t)
  PROVE  \E h : CallUpTo(h, m + 1, t)
<1> DEFINE h == [k \in 0..Len(t) |-> IF k = m THEN CallStep(f, m, t) ELSE f[k]]
<1>1. h = [k \in 0..Len(t) |-> h[k]]
  OBVIOUS
<1>2. ASSUME NEW k \in 0..Len(t), k < m + 1 PROVE h[k] = CallStep(h, k, t)
  <2>1. CallStep(h, k, t) = CallStep(f, k, t)
    <3>1. CASE k = 0
      BY <3>1 DEF CallStep
    <3>2. CASE k # 0
      <4>1. k - 1 \in 0..Len(t) /\ k - 1 # m
        BY <1>2, <3>2
      <4>2. h[k - 1] = f[k - 1]
        BY <4>1
      <4> HIDE DEF h
      <4> QED BY <3>2, <4>2 DEF CallStep
    <3> QED BY <3>1, <3>2
  <2>2. CASE k = m
    BY <2>1, <2>2
  <2>3. CASE k # m
    <3>1. k < m /\ h[k] = f[k]
      BY <1>2, <2>3
    <3> QED BY <2>1, <3>1 DEF CallUpTo
  <2> QED BY <2>2, <2>3
<1> HIDE DEF h
<1> QED BY <1>1, <1>2 DEF CallUpTo

\* The function is what its recursion says.
LEMMA CallIs ==
  ASSUME NEW t, Len(t) \in Nat
  PROVE  \A n \in 0..Len(t) :
           Calls(t)[n] = CallStep(Calls(t), n, t)
<1> DEFINE Wrong == {m \in Nat : ~\E f : CallUpTo(f, m, t)}
<1>1. Wrong = {}
  <2>1. SUFFICES ASSUME Wrong # {} PROVE FALSE
    OBVIOUS
  <2>2. PICK m \in Wrong : \A k \in Wrong : m <= k
    <3>1. Wrong \subseteq Nat
      OBVIOUS
    <3> HIDE DEF Wrong
    <3> QED BY <2>1, <3>1, LeastNumber
  <2>3. m # 0
    <3> DEFINE f == [k \in 0..Len(t) |-> k]
    <3>1. f = [k \in 0..Len(t) |-> f[k]] /\ \A k \in 0..Len(t) : ~(k < 0)
      OBVIOUS
    <3> HIDE DEF f
    <3>2. CallUpTo(f, 0, t)
      BY <3>1 DEF CallUpTo
    <3> QED BY <3>2
  <2>4. m - 1 \in Nat /\ (m - 1) + 1 = m /\ ~(m <= m - 1)
    BY <2>3
  <2>5. PICK f : CallUpTo(f, m - 1, t)
    BY <2>2, <2>4
  <2>6. \E h : CallUpTo(h, m, t)
    BY <2>4, <2>5, CallFurther
  <2> QED BY <2>6
<1>2. PICK f : CallUpTo(f, Len(t) + 1, t)
  <2>1. Len(t) + 1 \in Nat
    OBVIOUS
  <2> QED BY <1>1, <2>1
<1>3. \A k \in 0..Len(t) : f[k] = CallStep(f, k, t)
  <2>1. \A k \in 0..Len(t) : k < Len(t) + 1
    OBVIOUS
  <2> QED BY <1>2, <2>1 DEF CallUpTo
<1> DEFINE Right(h) == h = [k \in 0..Len(t) |-> CallStep(h, k, t)]
<1>4. Right(f)
  BY <1>2, <1>3 DEF CallUpTo
<1>5. Calls(t) = CHOOSE h : Right(h)
  BY DEF Calls, CallStep
<1>6. PICK h : h = Calls(t)
  OBVIOUS
<1>7. Right(h)
  <2> HIDE DEF Right
  <2> QED BY <1>4, <1>5, <1>6
<1>8. \A k \in 0..Len(t) : h[k] = CallStep(h, k, t)
  BY <1>7
<1> QED BY <1>6, <1>8

\* Derivations, by their depth.
DeriveStep(f, n, t) == 
  [i \in 1..Len(t) |-> [j \in 1..Len(t) |-> [g \in Nonterminal |->
     IF n = 0 THEN {} ELSE DerivedAs(t, i, j, g, f[n - 1])]]]

DeriveUpTo(f, m, t) ==
  /\ f = [k \in 0..Len(t) |-> f[k]]
  /\ \A k \in 0..Len(t) : k < m => f[k] = DeriveStep(f, k, t)

\* One step more.
LEMMA DeriveFurther ==
  ASSUME NEW t, Len(t) \in Nat,
         NEW f, NEW m \in Nat, DeriveUpTo(f, m, t)
  PROVE  \E h : DeriveUpTo(h, m + 1, t)
<1> DEFINE h == [k \in 0..Len(t) |-> IF k = m THEN DeriveStep(f, m, t) ELSE f[k]]
<1>1. h = [k \in 0..Len(t) |-> h[k]]
  OBVIOUS
<1>2. ASSUME NEW k \in 0..Len(t), k < m + 1 PROVE h[k] = DeriveStep(h, k, t)
  <2>1. DeriveStep(h, k, t) = DeriveStep(f, k, t)
    <3>1. CASE k = 0
      BY <3>1 DEF DeriveStep
    <3>2. CASE k # 0
      <4>1. k - 1 \in 0..Len(t) /\ k - 1 # m
        BY <1>2, <3>2
      <4>2. h[k - 1] = f[k - 1]
        BY <4>1
      <4> HIDE DEF h
      <4> QED BY <3>2, <4>2 DEF DeriveStep
    <3> QED BY <3>1, <3>2
  <2>2. CASE k = m
    BY <2>1, <2>2
  <2>3. CASE k # m
    <3>1. k < m /\ h[k] = f[k]
      BY <1>2, <2>3
    <3> QED BY <2>1, <3>1 DEF DeriveUpTo
  <2> QED BY <2>2, <2>3
<1> HIDE DEF h
<1> QED BY <1>1, <1>2 DEF DeriveUpTo

\* The function is what its recursion says.
LEMMA DeriveIs ==
  ASSUME NEW t, Len(t) \in Nat
  PROVE  \A n \in 0..Len(t) :
           Derived(t)[n] = DeriveStep(Derived(t), n, t)
<1> DEFINE Wrong == {m \in Nat : ~\E f : DeriveUpTo(f, m, t)}
<1>1. Wrong = {}
  <2>1. SUFFICES ASSUME Wrong # {} PROVE FALSE
    OBVIOUS
  <2>2. PICK m \in Wrong : \A k \in Wrong : m <= k
    <3>1. Wrong \subseteq Nat
      OBVIOUS
    <3> HIDE DEF Wrong
    <3> QED BY <2>1, <3>1, LeastNumber
  <2>3. m # 0
    <3> DEFINE f == [k \in 0..Len(t) |-> k]
    <3>1. f = [k \in 0..Len(t) |-> f[k]] /\ \A k \in 0..Len(t) : ~(k < 0)
      OBVIOUS
    <3> HIDE DEF f
    <3>2. DeriveUpTo(f, 0, t)
      BY <3>1 DEF DeriveUpTo
    <3> QED BY <3>2
  <2>4. m - 1 \in Nat /\ (m - 1) + 1 = m /\ ~(m <= m - 1)
    BY <2>3
  <2>5. PICK f : DeriveUpTo(f, m - 1, t)
    BY <2>2, <2>4
  <2>6. \E h : DeriveUpTo(h, m, t)
    BY <2>4, <2>5, DeriveFurther
  <2> QED BY <2>6
<1>2. PICK f : DeriveUpTo(f, Len(t) + 1, t)
  <2>1. Len(t) + 1 \in Nat
    OBVIOUS
  <2> QED BY <1>1, <2>1
<1>3. \A k \in 0..Len(t) : f[k] = DeriveStep(f, k, t)
  <2>1. \A k \in 0..Len(t) : k < Len(t) + 1
    OBVIOUS
  <2> QED BY <1>2, <2>1 DEF DeriveUpTo
<1> DEFINE Right(h) == h = [k \in 0..Len(t) |-> DeriveStep(h, k, t)]
<1>4. Right(f)
  BY <1>2, <1>3 DEF DeriveUpTo
<1>5. Derived(t) = CHOOSE h : Right(h)
  BY DEF Derived, DeriveStep
<1>6. PICK h : h = Derived(t)
  OBVIOUS
<1>7. Right(h)
  <2> HIDE DEF Right
  <2> QED BY <1>4, <1>5, <1>6
<1>8. \A k \in 0..Len(t) : h[k] = DeriveStep(h, k, t)
  BY <1>7
<1> QED BY <1>6, <1>8

\* Evaluation, node by node.
ValueStep(f, n, d, e, ctx) == IF n = 0 THEN <<>> ELSE Apply(d, e[n], ctx, f[n - 1])

ValueUpTo(f, m, d, e, ctx) ==
  /\ f = [k \in 0..Len(e) |-> f[k]]
  /\ \A k \in 0..Len(e) : k < m => f[k] = ValueStep(f, k, d, e, ctx)

\* One step more.
LEMMA ValueFurther ==
  ASSUME NEW d, NEW e, NEW ctx, Len(e) \in Nat,
         NEW f, NEW m \in Nat, ValueUpTo(f, m, d, e, ctx)
  PROVE  \E h : ValueUpTo(h, m + 1, d, e, ctx)
<1> DEFINE h == [k \in 0..Len(e) |-> IF k = m THEN ValueStep(f, m, d, e, ctx) ELSE f[k]]
<1>1. h = [k \in 0..Len(e) |-> h[k]]
  OBVIOUS
<1>2. ASSUME NEW k \in 0..Len(e), k < m + 1 PROVE h[k] = ValueStep(h, k, d, e, ctx)
  <2>1. ValueStep(h, k, d, e, ctx) = ValueStep(f, k, d, e, ctx)
    <3>1. CASE k = 0
      BY <3>1 DEF ValueStep
    <3>2. CASE k # 0
      <4>1. k - 1 \in 0..Len(e) /\ k - 1 # m
        BY <1>2, <3>2
      <4>2. h[k - 1] = f[k - 1]
        BY <4>1
      <4> HIDE DEF h
      <4> QED BY <3>2, <4>2 DEF ValueStep
    <3> QED BY <3>1, <3>2
  <2>2. CASE k = m
    BY <2>1, <2>2
  <2>3. CASE k # m
    <3>1. k < m /\ h[k] = f[k]
      BY <1>2, <2>3
    <3> QED BY <2>1, <3>1 DEF ValueUpTo
  <2> QED BY <2>2, <2>3
<1> HIDE DEF h
<1> QED BY <1>1, <1>2 DEF ValueUpTo

\* The function is what its recursion says.
LEMMA ValueIs ==
  ASSUME NEW d, NEW e, NEW ctx, Len(e) \in Nat
  PROVE  \A n \in 0..Len(e) :
           Values(d, e, ctx)[n] = ValueStep(Values(d, e, ctx), n, d, e, ctx)
<1> DEFINE Wrong == {m \in Nat : ~\E f : ValueUpTo(f, m, d, e, ctx)}
<1>1. Wrong = {}
  <2>1. SUFFICES ASSUME Wrong # {} PROVE FALSE
    OBVIOUS
  <2>2. PICK m \in Wrong : \A k \in Wrong : m <= k
    <3>1. Wrong \subseteq Nat
      OBVIOUS
    <3> HIDE DEF Wrong
    <3> QED BY <2>1, <3>1, LeastNumber
  <2>3. m # 0
    <3> DEFINE f == [k \in 0..Len(e) |-> k]
    <3>1. f = [k \in 0..Len(e) |-> f[k]] /\ \A k \in 0..Len(e) : ~(k < 0)
      OBVIOUS
    <3> HIDE DEF f
    <3>2. ValueUpTo(f, 0, d, e, ctx)
      BY <3>1 DEF ValueUpTo
    <3> QED BY <3>2
  <2>4. m - 1 \in Nat /\ (m - 1) + 1 = m /\ ~(m <= m - 1)
    BY <2>3
  <2>5. PICK f : ValueUpTo(f, m - 1, d, e, ctx)
    BY <2>2, <2>4
  <2>6. \E h : ValueUpTo(h, m, d, e, ctx)
    BY <2>4, <2>5, ValueFurther
  <2> QED BY <2>6
<1>2. PICK f : ValueUpTo(f, Len(e) + 1, d, e, ctx)
  <2>1. Len(e) + 1 \in Nat
    OBVIOUS
  <2> QED BY <1>1, <2>1
<1>3. \A k \in 0..Len(e) : f[k] = ValueStep(f, k, d, e, ctx)
  <2>1. \A k \in 0..Len(e) : k < Len(e) + 1
    OBVIOUS
  <2> QED BY <1>2, <2>1 DEF ValueUpTo
<1> DEFINE Right(h) == h = [k \in 0..Len(e) |-> ValueStep(h, k, d, e, ctx)]
<1>4. Right(f)
  BY <1>2, <1>3 DEF ValueUpTo
<1>5. Values(d, e, ctx) = CHOOSE h : Right(h)
  BY DEF Values, ValueStep
<1>6. PICK h : h = Values(d, e, ctx)
  OBVIOUS
<1>7. Right(h)
  <2> HIDE DEF Right
  <2> QED BY <1>4, <1>5, <1>6
<1>8. \A k \in 0..Len(e) : h[k] = ValueStep(h, k, d, e, ctx)
  BY <1>7
<1> QED BY <1>6, <1>8

-----------------------------------------------------------------------------
(* What the grammar derives *)

\* The deeper derivations are made of those less deep by one.
LEMMA Deeper ==
  ASSUME NEW t, Len(t) \in Nat, NEW m \in 0..Len(t), NEW i \in 1..Len(t), NEW j \in 1..Len(t), NEW g \in Nonterminal
  PROVE  Derived(t)[m][i][j][g] = IF m = 0 THEN {} ELSE DerivedAs(t, i, j, g, Derived(t)[m - 1])
<1>1. Derived(t)[m] = DeriveStep(Derived(t), m, t)
  BY DeriveIs
<1> QED BY <1>1 DEF DeriveStep

\* Derivable at some depth, and at each depth that is enough for so many tokens.
Gets(t, i, j, g, e) == \E m \in 0..Len(t) : e \in DerivedAs(t, i, j, g, Derived(t)[m])
Gives(t, i, j, g, e) ==
  /\ i \in 1..Len(t) /\ j \in 1..Len(t) /\ i <= j
  /\ \A m \in 0..Len(t) : j - i <= m => e \in DerivedAs(t, i, j, g, Derived(t)[m])

\* A level of the grammar has what the one below it has.
LEMMA GivesUp ==
  ASSUME NEW t, NEW i, NEW j, NEW e
  PROVE  /\ Gives(t, i, j, "not", e) => Gives(t, i, j, "and", e)
         /\ Gives(t, i, j, "and", e) => Gives(t, i, j, "or", e)
BY DEF Gives, DerivedAs, DerivedAnd, DerivedOr

\* Less deep derivations are there to build on.
LEMMA GivesBelow ==
  ASSUME NEW t, Len(t) \in Nat, NEW i, NEW j, NEW g \in Nonterminal, NEW e, Gives(t, i, j, g, e),
         NEW m \in 0..Len(t), j - i < m
  PROVE  e \in Derived(t)[m][i][j][g]
<1>1. i \in 1..Len(t) /\ j \in 1..Len(t) /\ m # 0 /\ m - 1 \in 0..Len(t) /\ j - i <= m - 1
  BY DEF Gives
<1>2. Derived(t)[m][i][j][g] = DerivedAs(t, i, j, g, Derived(t)[m - 1])
  BY <1>1, Deeper
<1> QED BY <1>1, <1>2 DEF Gives

\* not.
LEMMA GivesNegated ==
  ASSUME NEW t, Len(t) \in Nat, NEW i \in 1..Len(t), NEW j, NEW e, Is(t, i, "not"), Gives(t, i + 1, j, "not", e)
  PROVE  Gives(t, i, j, "not", Append(e, Node("not")))
<1>1. j \in 1..Len(t) /\ i < j
  BY DEF Gives
<1>2. ASSUME NEW m \in 0..Len(t), j - i <= m
      PROVE  Append(e, Node("not")) \in DerivedAs(t, i, j, "not", Derived(t)[m])
  <2>1. j - (i + 1) < m
    BY <1>1, <1>2
  <2>2. e \in Derived(t)[m][i + 1][j]["not"]
    BY <2>1, GivesBelow DEF Nonterminal
  <2>3. Append(e, Node("not")) \in Negated(t, i, j, Derived(t)[m])
    BY <1>1, <2>2 DEF Negated
  <2> QED BY <2>3 DEF DerivedAs, DerivedNot
<1> QED BY <1>1, <1>2 DEF Gives

\* Parentheses.
LEMMA GivesInside ==
  ASSUME NEW t, Len(t) \in Nat, NEW i \in 1..Len(t), NEW j \in 1..Len(t), NEW e,
         Is(t, i, "("), Is(t, j, ")"), Gives(t, i + 1, j - 1, "or", e)
  PROVE  Gives(t, i, j, "not", e)
<1>1. i + 1 < j
  BY DEF Gives
<1>2. ASSUME NEW m \in 0..Len(t), j - i <= m
      PROVE  e \in DerivedAs(t, i, j, "not", Derived(t)[m])
  <2>1. (j - 1) - (i + 1) < m
    BY <1>1, <1>2
  <2>2. e \in Derived(t)[m][i + 1][j - 1]["or"]
    BY <2>1, GivesBelow DEF Nonterminal
  <2>3. e \in Inside(t, i, j, Derived(t)[m])
    BY <1>1, <2>2 DEF Inside
  <2> QED BY <2>3 DEF DerivedAs, DerivedNot
<1> QED BY <1>1, <1>2 DEF Gives

\* A comparison.
LEMMA GivesCompared ==
  ASSUME NEW t, Len(t) \in Nat, NEW i \in 1..Len(t), i + 2 <= Len(t),
         Is(t, i, "id"), Is(t, i + 1, "op"), Is(t, i + 2, "lit")
  PROVE  Gives(t, i, i + 2, "not", <<CmpNode(t[i].n, t[i + 1].n, t[i + 2].v)>>)
<1>1. <<CmpNode(t[i].n, t[i + 1].n, t[i + 2].v)>> \in Compared(t, i, i + 2)
  BY DEF Compared
<1> QED BY <1>1 DEF Gives, DerivedAs, DerivedNot

\* The word of a loop, and what its operands are.
Operand == [w \in {"and", "or"} |-> IF w = "and" THEN "not" ELSE "and"]

\* Two expressions and the word between them.
LEMMA GivesJoined ==
  ASSUME NEW t, Len(t) \in Nat, NEW i, NEW j, NEW k \in 1..Len(t), NEW word \in {"and", "or"}, NEW a, NEW b,
         Gives(t, i, k - 1, word, a), Is(t, k, word), Gives(t, k + 1, j, Operand[word], b)
  PROVE  Gives(t, i, j, word, Join(a, b, word))
<1> DEFINE g == Operand[word]
<1>1. i \in 1..Len(t) /\ j \in 1..Len(t) /\ i + 1 <= k /\ k + 1 <= j /\ k \in (i + 1)..(j - 1)
  BY DEF Gives
<1>2. word \in Nonterminal /\ g \in Nonterminal
  BY DEF Nonterminal, Operand
<1>3. ASSUME NEW m \in 0..Len(t), j - i <= m
      PROVE  Join(a, b, word) \in DerivedAs(t, i, j, word, Derived(t)[m])
  <2>1. (k - 1) - i < m /\ j - (k + 1) < m
    BY <1>1, <1>3
  <2>2. a \in Derived(t)[m][i][k - 1][word]
    BY <1>2, <2>1, GivesBelow
  <2>3. b \in Derived(t)[m][k + 1][j][g]
    BY <1>2, <2>1, GivesBelow
  <2>4. Join(a, b, word) \in Joined(t, i, j, Derived(t)[m], word, g)
    <3>1. Join(a, b, word) \in JoinAll(Derived(t)[m][i][k - 1][word], Derived(t)[m][k + 1][j][g], word)
      BY <2>2, <2>3 DEF JoinAll
    <3> QED BY <1>1, <3>1 DEF Joined
  <2> QED BY <2>4 DEF DerivedAs, DerivedAnd, DerivedOr, Operand
<1> QED BY <1>1, <1>3 DEF Gives

-----------------------------------------------------------------------------
(* And what is derived is made of *)

\* What a derivation is made of is derived.
LEMMA GetsBelow ==
  ASSUME NEW t, Len(t) \in Nat, NEW m \in 0..Len(t), NEW i \in 1..Len(t), NEW j \in 1..Len(t), NEW g \in Nonterminal,
         NEW e \in Derived(t)[m][i][j][g]
  PROVE  Gets(t, i, j, g, e)
<1>1. m # 0 /\ e \in DerivedAs(t, i, j, g, Derived(t)[m - 1])
  BY Deeper
<1>2. m - 1 \in 0..Len(t)
  BY <1>1
<1> QED BY <1>1, <1>2 DEF Gets

\* The three forms of the lowest level: a not, parentheses, a comparison.
LEMMA GetsNot ==
  ASSUME NEW t, Len(t) \in Nat, NEW i \in 1..Len(t), NEW j \in 1..Len(t), NEW e, Gets(t, i, j, "not", e)
  PROVE  \/ i < j /\ Is(t, i, "not") /\ \E a : Gets(t, i + 1, j, "not", a) /\ e = Append(a, Node("not"))
         \/ i + 1 < j /\ Is(t, i, "(") /\ Is(t, j, ")") /\ Gets(t, i + 1, j - 1, "or", e)
         \/ /\ j = i + 2 /\ Is(t, i, "id") /\ Is(t, i + 1, "op") /\ Is(t, j, "lit")
            /\ e = <<CmpNode(t[i].n, t[i + 1].n, t[j].v)>>
<1>1. PICK m \in 0..Len(t) : e \in DerivedNot(t, i, j, Derived(t)[m])
  BY DEF Gets, DerivedAs
<1>2. CASE e \in Negated(t, i, j, Derived(t)[m])
  <2>1. i < j /\ Is(t, i, "not")
    BY <1>2 DEF Negated
  <2>2. PICK a \in Derived(t)[m][i + 1][j]["not"] : e = Append(a, Node("not"))
    BY <1>2, <2>1 DEF Negated
  <2>3. Gets(t, i + 1, j, "not", a)
    BY <2>1, <2>2, GetsBelow DEF Nonterminal
  <2> QED BY <2>1, <2>2, <2>3
<1>3. CASE e \in Inside(t, i, j, Derived(t)[m])
  <2>1. i + 1 < j /\ Is(t, i, "(") /\ Is(t, j, ")") /\ e \in Derived(t)[m][i + 1][j - 1]["or"]
    BY <1>3 DEF Inside
  <2>2. Gets(t, i + 1, j - 1, "or", e)
    BY <2>1, GetsBelow DEF Nonterminal
  <2> QED BY <2>1, <2>2
<1>4. CASE e \in Compared(t, i, j)
  BY <1>4 DEF Compared
<1> QED BY <1>1, <1>2, <1>3, <1>4 DEF DerivedNot

\* Every expression made of two sets of them is made of one of each.
LEMMA JoinAllHas ==
  ASSUME NEW A, NEW B, NEW word, NEW e \in JoinAll(A, B, word)
  PROVE  \E a \in A, b \in B : e = Join(a, b, word)
BY DEF JoinAll

\* The other levels: an operand alone, or joined to what was before it.
LEMMA GetsJoined ==
  ASSUME NEW t, Len(t) \in Nat, NEW i \in 1..Len(t), NEW j \in 1..Len(t), NEW e, NEW word \in {"and", "or"},
         Gets(t, i, j, word, e)
  PROVE  \/ Gets(t, i, j, Operand[word], e)
         \/ \E k \in (i + 1)..(j - 1) : \E a, b :
              /\ Is(t, k, word) /\ Gets(t, i, k - 1, word, a) /\ Gets(t, k + 1, j, Operand[word], b)
              /\ e = Join(a, b, word)
<1> DEFINE g == Operand[word]
<1>1. word \in Nonterminal /\ g \in Nonterminal
  BY DEF Nonterminal, Operand
<1>2. PICK m \in 0..Len(t) : e \in DerivedAs(t, i, j, word, Derived(t)[m])
  BY DEF Gets
<1>3. e \in DerivedAs(t, i, j, g, Derived(t)[m]) \/ e \in Joined(t, i, j, Derived(t)[m], word, g)
  BY <1>2 DEF DerivedAs, DerivedAnd, DerivedOr, Operand
<1>4. CASE e \in DerivedAs(t, i, j, g, Derived(t)[m])
  BY <1>4 DEF Gets
<1>5. CASE e \in Joined(t, i, j, Derived(t)[m], word, g)
  <2>1. PICK k \in (i + 1)..(j - 1) :
          Is(t, k, word) /\ e \in JoinAll(Derived(t)[m][i][k - 1][word], Derived(t)[m][k + 1][j][g], word)
    BY <1>5 DEF Joined
  <2>2. PICK a \in Derived(t)[m][i][k - 1][word], b \in Derived(t)[m][k + 1][j][g] : e = Join(a, b, word)
    BY <2>1, JoinAllHas
  <2>3. k - 1 \in 1..Len(t) /\ k + 1 \in 1..Len(t)
    OBVIOUS
  <2>4. Gets(t, i, k - 1, word, a)
    BY <1>1, <2>3, GetsBelow
  <2>5. Gets(t, k + 1, j, g, b)
    BY <1>1, <2>3, GetsBelow
  <2> QED BY <2>1, <2>2, <2>4, <2>5
<1> QED BY <1>3, <1>4, <1>5

-----------------------------------------------------------------------------
(* Nothing but what the grammar derives is accepted *)

\* A result that found an expression ends after it, and the tokens up to there give it.
Good(t, i, g, r) == r.ok => r.i \in (i + 3)..(Len(t) + 1) /\ Gives(t, i, r.i - 1, g, r.e)

GoodCalls(t, call) == \A i \in 1..(Len(t) + 1), g \in Nonterminal : Good(t, i, g, call[i][g])

\* What is right for a level is right for the ones above.
LEMMA GoodUp ==
  ASSUME NEW t, NEW i, NEW r
  PROVE  /\ Good(t, i, "not", r) => Good(t, i, "and", r)
         /\ Good(t, i, "and", r) => Good(t, i, "or", r)
BY GivesUp DEF Good

\* A comparison that is returned is derived.
LEMMA GoodComparison ==
  ASSUME NEW t, Len(t) \in Nat, NEW i \in 1..(Len(t) + 1)
  PROVE  Good(t, i, "not", Comparison(t, i))
<1> DEFINE e == <<CmpNode(t[i].n, t[i + 1].n, t[i + 2].v)>>
<1>1. CASE Is(t, i, "id") /\ Is(t, i + 1, "op") /\ Is(t, i + 2, "lit")
  <2>1. i \in 1..Len(t) /\ i + 2 <= Len(t)
    BY <1>1 DEF Is
  <2>2. Gives(t, i, i + 2, "not", e)
    BY <1>1, <2>1, GivesCompared
  <2>3. Comparison(t, i) = Found(i + 3, e)
    BY <1>1 DEF Comparison
  <2>4. (i + 3) - 1 = i + 2 /\ i + 3 \in (i + 3)..(Len(t) + 1)
    BY <2>1
  <2> HIDE DEF e
  <2> QED BY <2>2, <2>3, <2>4 DEF Good, Found
<1>2. CASE ~(Is(t, i, "id") /\ Is(t, i + 1, "op") /\ Is(t, i + 2, "lit"))
  BY <1>2 DEF Comparison, Good, Fails
<1> QED BY <1>1, <1>2

\* So is what `not' and, without one, `primary' return.
LEMMA GoodNot ==
  ASSUME NEW t, Len(t) \in Nat, NEW i \in 1..(Len(t) + 1), NEW call, GoodCalls(t, call)
  PROVE  Good(t, i, "not", Not(t, i, call))
<1>1. CASE Is(t, i, "not")
  <2>1. i \in 1..Len(t) /\ i + 1 \in 1..(Len(t) + 1)
    BY <1>1 DEF Is
  <2> DEFINE arg == call[i + 1]["not"]
  <2>2. Good(t, i + 1, "not", arg)
    BY <2>1 DEF GoodCalls, Nonterminal
  <2> HIDE DEF arg
  <2>3. CASE arg.ok
    <3>1. arg.i \in (i + 4)..(Len(t) + 1) /\ Gives(t, i + 1, arg.i - 1, "not", arg.e)
      BY <2>2, <2>3 DEF Good
    <3>2. Gives(t, i, arg.i - 1, "not", Append(arg.e, Node("not")))
      BY <1>1, <2>1, <3>1, GivesNegated
    <3>3. Not(t, i, call) = Found(arg.i, Append(arg.e, Node("not")))
      BY <1>1, <2>3 DEF Not, arg
    <3> QED BY <3>1, <3>2, <3>3 DEF Good, Found
  <2>4. CASE ~arg.ok
    BY <1>1, <2>4 DEF Not, arg, Good
  <2> QED BY <2>3, <2>4
<1>2. CASE ~Is(t, i, "not") /\ Is(t, i, "(")
  <2>1. i \in 1..Len(t) /\ i + 1 \in 1..(Len(t) + 1)
    BY <1>2 DEF Is
  <2> DEFINE inner == call[i + 1]["or"]
  <2>2. Good(t, i + 1, "or", inner)
    BY <2>1 DEF GoodCalls, Nonterminal
  <2> HIDE DEF inner
  <2>3. CASE inner.ok /\ Is(t, inner.i, ")")
    <3>1. inner.i \in (i + 4)..Len(t) /\ Gives(t, i + 1, inner.i - 1, "or", inner.e)
      BY <2>2, <2>3 DEF Good, Is
    <3>2. Gives(t, i, inner.i, "not", inner.e)
      BY <1>2, <2>1, <2>3, <3>1, GivesInside
    <3>3. Not(t, i, call) = Found(inner.i + 1, inner.e)
      BY <1>2, <2>3 DEF Not, Primary, inner
    <3>4. (inner.i + 1) - 1 = inner.i /\ inner.i + 1 \in (i + 3)..(Len(t) + 1)
      BY <3>1
    <3> QED BY <3>2, <3>3, <3>4 DEF Good, Found
  <2>4. CASE ~(inner.ok /\ Is(t, inner.i, ")"))
    BY <1>2, <2>4 DEF Not, Primary, inner, Good, Fails
  <2> QED BY <2>3, <2>4
<1>3. CASE ~Is(t, i, "not") /\ ~Is(t, i, "(")
  BY <1>3, GoodComparison DEF Not, Primary
<1> QED BY <1>1, <1>2, <1>3

\* A turn of a loop goes on with an operand to a longer expression.
LEMMA GoodTurn ==
  ASSUME NEW t, Len(t) \in Nat, NEW i \in 1..(Len(t) + 1), NEW call, GoodCalls(t, call),
         NEW word \in {"and", "or"}, NEW left, Good(t, i, word, left)
  PROVE  Good(t, i, word, Turn(t, call, left, word, Operand[word]))
<1>1. CASE left.ok /\ Is(t, left.i, word)
  <2>1. left.i \in (i + 3)..Len(t) /\ Gives(t, i, left.i - 1, word, left.e)
    BY <1>1 DEF Good, Is
  <2> DEFINE right == call[left.i + 1][Operand[word]]
  <2>2. Good(t, left.i + 1, Operand[word], right)
    <3>1. left.i + 1 \in 1..(Len(t) + 1) /\ Operand[word] \in Nonterminal
      BY <2>1 DEF Operand, Nonterminal
    <3> QED BY <3>1 DEF GoodCalls
  <2>3. Turn(t, call, left, word, Operand[word]) =
          IF right.ok THEN Found(right.i, Join(left.e, right.e, word)) ELSE right
    BY <1>1 DEF Turn
  <2> HIDE DEF right
  <2>4. CASE right.ok
    <3>1. right.i \in (left.i + 4)..(Len(t) + 1) /\ Gives(t, left.i + 1, right.i - 1, Operand[word], right.e)
      BY <2>1, <2>2, <2>4 DEF Good
    <3>2. left.i \in 1..Len(t)
      BY <2>1
    <3>3. Gives(t, i, right.i - 1, word, Join(left.e, right.e, word))
      BY <1>1, <2>1, <3>1, <3>2, GivesJoined
    <3>4. right.i \in (i + 3)..(Len(t) + 1)
      BY <2>1, <3>1
    <3> QED BY <2>3, <2>4, <3>3, <3>4 DEF Good, Found
  <2>5. CASE ~right.ok
    BY <2>3, <2>5 DEF Good
  <2> QED BY <2>4, <2>5
<1>2. CASE ~(left.ok /\ Is(t, left.i, word))
  BY <1>2 DEF Turn
<1> QED BY <1>1, <1>2

\* The turns are as many as there can be.
LEMMA TurnsAreNat ==
  ASSUME NEW t, Len(t) \in Nat
  PROVE  MaxTurns(t) \in Nat /\ \A n \in Nat : 4 * n <= Len(t) => n <= MaxTurns(t)
<1>1. PICK k \in Nat : k = Len(t)
  OBVIOUS
<1>2. k \div 4 \in Nat /\ \A n \in Nat : 4 * n <= k => n <= k \div 4
  OBVIOUS
<1> QED BY <1>1, <1>2 DEF MaxTurns

\* So do all of them.
LEMMA GoodTurns ==
  ASSUME NEW t, Len(t) \in Nat, NEW i \in 1..(Len(t) + 1), NEW call, GoodCalls(t, call),
         NEW word \in {"and", "or"}, NEW left, Good(t, i, word, left)
  PROVE  Good(t, i, word, Turns(t, call, left, word, Operand[word])[MaxTurns(t)])
<1> DEFINE turn == Turns(t, call, left, word, Operand[word])
<1> DEFINE Wrong == {n \in 0..MaxTurns(t) : ~Good(t, i, word, turn[n])}
<1>1. MaxTurns(t) \in Nat
  BY TurnsAreNat
<1>2. \A n \in 0..MaxTurns(t) : turn[n] = IF n = 0 THEN left ELSE Turn(t, call, turn[n - 1], word, Operand[word])
  BY <1>1, TurnIs DEF TurnStep
<1> HIDE DEF turn
<1>3. SUFFICES ASSUME Wrong # {} PROVE FALSE
  <2>1. MaxTurns(t) \in 0..MaxTurns(t)
    BY <1>1
  <2> QED BY <1>3, <2>1 DEF turn
<1>4. PICK n \in Wrong : \A k \in Wrong : n <= k
  <2>1. Wrong \subseteq Nat
    BY <1>1
  <2> HIDE DEF Wrong
  <2> QED BY <1>3, <2>1, LeastNumber
<1>5. n # 0
  BY <1>2, <1>4
<1>6. n - 1 \in 0..MaxTurns(t) /\ ~(n <= n - 1)
  BY <1>1, <1>4, <1>5
<1>7. Good(t, i, word, turn[n - 1])
  BY <1>4, <1>6
<1>8. Good(t, i, word, Turn(t, call, turn[n - 1], word, Operand[word]))
  BY <1>7, GoodTurn
<1> QED BY <1>2, <1>4, <1>5, <1>8

\* What a nonterminal returns is derived when what the calls in it return is.
LEMMA GoodCalled ==
  ASSUME NEW t, Len(t) \in Nat, NEW i \in 1..(Len(t) + 1), NEW g \in Nonterminal, NEW call, GoodCalls(t, call)
  PROVE  Good(t, i, g, Called(t, i, g, call))
<1>1. Good(t, i, "and", And(t, i, call))
  <2>1. Good(t, i, "and", Not(t, i, call))
    BY GoodNot, GoodUp
  <2>2. Good(t, i, "and", Turns(t, call, Not(t, i, call), "and", Operand["and"])[MaxTurns(t)])
    BY <2>1, GoodTurns
  <2> QED BY <2>2 DEF And, Operand
<1>2. Good(t, i, "or", Or(t, i, call))
  <2>1. Good(t, i, "or", And(t, i, call))
    BY <1>1, GoodUp
  <2>2. Good(t, i, "or", Turns(t, call, And(t, i, call), "or", Operand["or"])[MaxTurns(t)])
    BY <2>1, GoodTurns
  <2> QED BY <2>2 DEF Or, Operand
<1> QED BY <1>1, <1>2, GoodNot DEF Called, Nonterminal

\* Calls make less deep ones.
LEMMA CallsAre ==
  ASSUME NEW t, Len(t) \in Nat, NEW m \in 0..Len(t), NEW i \in 1..(Len(t) + 1), NEW g \in Nonterminal
  PROVE  Calls(t)[m][i][g] = IF m = 0 THEN Fails(i) ELSE Called(t, i, g, Calls(t)[m - 1])
<1>1. Calls(t)[m] = CallStep(Calls(t), m, t)
  BY CallIs
<1> QED BY <1>1 DEF CallStep

\* However deep calls go, what they return is derived.
LEMMA AllCallsAreGood ==
  ASSUME NEW t, Len(t) \in Nat
  PROVE  GoodCalls(t, Calls(t)[Len(t)])
<1> DEFINE Wrong == {m \in 0..Len(t) : ~GoodCalls(t, Calls(t)[m])}
<1>1. SUFFICES ASSUME Wrong # {} PROVE FALSE
  OBVIOUS
<1>2. PICK m \in Wrong : \A k \in Wrong : m <= k
  <2>1. Wrong \subseteq Nat
    OBVIOUS
  <2> HIDE DEF Wrong
  <2> QED BY <1>1, <2>1, LeastNumber
<1>3. ASSUME NEW i \in 1..(Len(t) + 1), NEW g \in Nonterminal PROVE Good(t, i, g, Calls(t)[m][i][g])
  <2>1. CASE m = 0
    <3>1. Calls(t)[m][i][g] = Fails(i)
      BY <2>1, CallsAre
    <3> QED BY <3>1 DEF Good, Fails
  <2>2. CASE m # 0
    <3>1. m - 1 \in 0..Len(t) /\ ~(m <= m - 1)
      BY <2>2
    <3>2. GoodCalls(t, Calls(t)[m - 1])
      BY <1>2, <3>1
    <3>3. Good(t, i, g, Called(t, i, g, Calls(t)[m - 1]))
      BY <3>2, GoodCalled
    <3> QED BY <2>2, <3>3, CallsAre
  <2> QED BY <2>1, <2>2
<1>4. GoodCalls(t, Calls(t)[m])
  BY <1>3 DEF GoodCalls
<1> QED BY <1>2, <1>4

-----------------------------------------------------------------------------
(* And all that the grammar derives is accepted *)

\* What an expression is made of is three tokens at least.
LEMMA Short ==
  ASSUME NEW t, Len(t) \in Nat, NEW i \in 1..Len(t), NEW j \in 1..Len(t), NEW g \in Nonterminal,
         NEW e, Gets(t, i, j, g, e)
  PROVE  i + 2 <= j
<1> DEFINE Wrong == {m \in 0..Len(t) : \E a \in 1..Len(t), b \in 1..Len(t), n \in Nonterminal :
                                          ~(a + 2 <= b) /\ DerivedAs(t, a, b, n, Derived(t)[m]) # {}}
<1>1. Wrong = {}
  <2>1. SUFFICES ASSUME Wrong # {} PROVE FALSE
    OBVIOUS
  <2>2. PICK m \in Wrong : \A k \in Wrong : m <= k
    <3>1. Wrong \subseteq Nat
      OBVIOUS
    <3> HIDE DEF Wrong
    <3> QED BY <2>1, <3>1, LeastNumber
  <2>3. PICK a \in 1..Len(t), b \in 1..Len(t), n \in Nonterminal :
          ~(a + 2 <= b) /\ DerivedAs(t, a, b, n, Derived(t)[m]) # {}
    BY <2>2
  <2>4. ASSUME NEW c \in 1..Len(t), NEW d \in 1..Len(t), NEW w \in Nonterminal, ~(c + 2 <= d)
        PROVE  Derived(t)[m][c][d][w] = {}
    <3>1. Derived(t)[m][c][d][w] = IF m = 0 THEN {} ELSE DerivedAs(t, c, d, w, Derived(t)[m - 1])
      BY Deeper
    <3>2. m # 0 => m - 1 \in 0..Len(t) /\ ~(m <= m - 1)
      OBVIOUS
    <3>3. m # 0 => m - 1 \notin Wrong
      BY <2>2, <3>2
    <3>4. m # 0 => DerivedAs(t, c, d, w, Derived(t)[m - 1]) = {}
      BY <2>4, <3>2, <3>3
    <3> QED BY <3>1, <3>4
  <2> DEFINE of == Derived(t)[m]
  <2>7. Negated(t, a, b, of) = {}
    <3>1. CASE a < b /\ Is(t, a, "not")
      <4>1. a + 1 \in 1..Len(t) /\ ~((a + 1) + 2 <= b)
        BY <2>3, <3>1
      <4> QED BY <2>4, <3>1, <4>1 DEF Negated, Nonterminal
    <3> QED BY <3>1 DEF Negated
  <2>8. Inside(t, a, b, of) = {}
    BY <2>3 DEF Inside
  <2>9. Compared(t, a, b) = {}
    BY <2>3 DEF Compared
  <2>10. \A w \in {"and", "or"} : Joined(t, a, b, of, w, Operand[w]) = {}
    <3>1. (a + 1)..(b - 1) = {}
      BY <2>3
    <3> QED BY <3>1 DEF Joined
  <2>11. DerivedAs(t, a, b, n, of) = {}
    BY <2>7, <2>8, <2>9, <2>10 DEF DerivedAs, DerivedNot, DerivedAnd, DerivedOr, Operand
  <2> QED BY <2>3, <2>11
<1> QED BY <1>1 DEF Gets

\* An expression of a level can only end where nothing goes on with it.
Follow(t, j, g) ==
  /\ g \in {"or", "and"} => ~Is(t, j + 1, "and")
  /\ g = "or" => ~Is(t, j + 1, "or")

\* Expressions of m tokens and less are returned, the derived ones.
Returns(t, call, m) ==
  \A i \in 1..Len(t), j \in 1..Len(t), g \in Nonterminal : \A e :
    (j - i < m /\ Gets(t, i, j, g, e) /\ Follow(t, j, g)) => call[i][g] = Found(j + 1, e)

\* The lowest level returns what is derived as such, whatever follows it.
LEMMA ReturnsNot ==
  ASSUME NEW t, Len(t) \in Nat, NEW m \in Nat, NEW call, Returns(t, call, m),
         NEW i \in 1..Len(t), NEW j \in 1..Len(t), j - i <= m, NEW e, Gets(t, i, j, "not", e)
  PROVE  Not(t, i, call) = Found(j + 1, e)
<1>1. CASE i < j /\ Is(t, i, "not") /\ \E a : Gets(t, i + 1, j, "not", a) /\ e = Append(a, Node("not"))
  <2>1. PICK a : Gets(t, i + 1, j, "not", a) /\ e = Append(a, Node("not"))
    BY <1>1
  <2>2. i + 1 \in 1..Len(t) /\ j - (i + 1) < m /\ Follow(t, j, "not") /\ "not" \in Nonterminal
    BY <1>1 DEF Follow, Nonterminal
  <2>3. call[i + 1]["not"] = Found(j + 1, a)
    BY <2>1, <2>2 DEF Returns
  <2> DEFINE arg == call[i + 1]["not"]
  <2>4. Not(t, i, call) = IF arg.ok THEN Found(arg.i, Append(arg.e, Node("not"))) ELSE arg
    BY <1>1 DEF Not
  <2>5. arg.ok /\ arg.i = j + 1 /\ arg.e = a
    BY <2>3 DEF Found
  <2> HIDE DEF arg
  <2> QED BY <2>1, <2>4, <2>5
<1>2. CASE i + 1 < j /\ Is(t, i, "(") /\ Is(t, j, ")") /\ Gets(t, i + 1, j - 1, "or", e)
  <2>1. i + 1 \in 1..Len(t) /\ j - 1 \in 1..Len(t) /\ (j - 1) - (i + 1) < m /\ (j - 1) + 1 = j /\ "or" \in Nonterminal
    BY <1>2 DEF Nonterminal
  <2>2. Follow(t, j - 1, "or")
    BY <1>2, <2>1 DEF Follow, Is
  <2>3. call[i + 1]["or"] = Found(j, e)
    BY <1>2, <2>1, <2>2 DEF Returns
  <2>4. ~Is(t, i, "not")
    BY <1>2 DEF Is
  <2> QED BY <1>2, <2>3, <2>4 DEF Not, Primary, Found
<1>3. CASE /\ j = i + 2 /\ Is(t, i, "id") /\ Is(t, i + 1, "op") /\ Is(t, j, "lit")
           /\ e = <<CmpNode(t[i].n, t[i + 1].n, t[j].v)>>
  <2>1. ~Is(t, i, "not") /\ ~Is(t, i, "(") /\ i + 3 = j + 1
    BY <1>3 DEF Is
  <2> QED BY <1>3, <2>1 DEF Not, Primary, Comparison
<1> QED BY <1>1, <1>2, <1>3, GetsNot

\* What a loop starts from is its first operand.
Starts(t, i, m, word, left) ==
  \A j \in 1..Len(t) : \A e :
    (j - i <= m /\ Gets(t, i, j, Operand[word], e) /\ Follow(t, j, Operand[word])) => left = Found(j + 1, e)

\* The turn in which a loop has come to an expression.
LEMMA TurnComes ==
  ASSUME NEW t, Len(t) \in Nat, NEW m \in Nat, NEW call, Returns(t, call, m), NEW word \in {"and", "or"},
         NEW i \in 1..Len(t), NEW left, Starts(t, i, m, word, left),
         NEW j \in 1..Len(t), j - i <= m, NEW e, Gets(t, i, j, word, e), Follow(t, j, Operand[word])
  PROVE  \E n \in Nat : 4 * n <= j - i /\ Turns(t, call, left, word, Operand[word])[n] = Found(j + 1, e)
<1> DEFINE g == Operand[word]
<1> DEFINE turn == Turns(t, call, left, word, Operand[word])
<1> DEFINE Comes(k, x) == \E n \in Nat : 4 * n <= k - i /\ turn[n] = Found(k + 1, x)
<1> DEFINE Wrong == {k \in 1..Len(t) : k - i <= m /\ Follow(t, k, g) /\ \E x : Gets(t, i, k, word, x) /\ ~Comes(k, x)}
<1>1. MaxTurns(t) \in Nat /\ \A n \in Nat : 4 * n <= Len(t) => n <= MaxTurns(t)
  BY TurnsAreNat
<1>2. \A n \in 0..MaxTurns(t) : turn[n] = IF n = 0 THEN left ELSE Turn(t, call, turn[n - 1], word, g)
  BY <1>1, TurnIs DEF TurnStep
<1> HIDE DEF turn
<1>3. word \in Nonterminal /\ g \in Nonterminal
  BY DEF Operand, Nonterminal
<1>4. Wrong = {}
  <2>1. SUFFICES ASSUME Wrong # {} PROVE FALSE
    OBVIOUS
  <2>2. PICK k \in Wrong : \A l \in Wrong : k <= l
    <3>1. Wrong \subseteq Nat
      OBVIOUS
    <3> HIDE DEF Wrong
    <3> QED BY <2>1, <3>1, LeastNumber
  <2>3. k \in 1..Len(t) /\ k - i <= m /\ Follow(t, k, g)
    OBVIOUS
  <2>4. PICK x : Gets(t, i, k, word, x) /\ ~Comes(k, x)
    OBVIOUS
  <2>5. i + 2 <= k
    BY <1>3, <2>4, Short
  <2>6. CASE Gets(t, i, k, g, x)
    <3>1. left = Found(k + 1, x)
      BY <2>3, <2>6 DEF Starts
    <3>2. turn[0] = Found(k + 1, x)
      BY <1>1, <1>2, <3>1
    <3>3. 4 * 0 <= k - i
      BY <2>5
    <3> QED BY <2>4, <3>2, <3>3
  <2>7. ASSUME NEW l \in (i + 1)..(k - 1), NEW a, NEW b, Is(t, l, word),
               Gets(t, i, l - 1, word, a), Gets(t, l + 1, k, g, b),
               x = Join(a, b, word)
        PROVE  FALSE
    <3>1. l - 1 \in 1..Len(t) /\ l + 1 \in 1..Len(t) /\ (l - 1) - i <= m /\ (l - 1) + 1 = l /\ k - (l + 1) < m
      BY <2>3, <2>7
    <3>2. Follow(t, l - 1, g)
      BY <2>7, <3>1 DEF Follow, Is, Operand
    <3>3. l - 1 \notin Wrong
      BY <2>2, <2>7, <3>1
    <3>4. Comes(l - 1, a)
      BY <2>7, <3>1, <3>2, <3>3
    <3>5. PICK n \in Nat : 4 * n <= (l - 1) - i /\ turn[n] = Found(l, a)
      BY <3>1, <3>4
    <3>6. call[l + 1][g] = Found(k + 1, b)
      <4>1. /\ l + 1 \in 1..Len(t) /\ k \in 1..Len(t) /\ g \in Nonterminal
            /\ k - (l + 1) < m /\ Gets(t, l + 1, k, g, b) /\ Follow(t, k, g)
        BY <1>3, <2>3, <2>7, <3>1
      <4> HIDE DEF g
      <4> QED BY <4>1 DEF Returns
    <3>7. (l + 1) + 2 <= k
      BY <1>3, <2>7, <3>1, Short
    <3>8. 4 * (n + 1) <= k - i /\ 4 * (n + 1) <= Len(t)
      BY <2>3, <3>5, <3>7
    <3>9. n + 1 \in 0..MaxTurns(t) /\ (n + 1) - 1 = n /\ n + 1 # 0
      BY <1>1, <3>8
    <3>10. turn[n + 1] = Turn(t, call, turn[n], word, g)
      BY <1>2, <3>9
    <3>11. turn[n + 1] = Found(k + 1, x)
      <4>1. turn[n].ok /\ turn[n].i = l /\ turn[n].e = a
        BY <3>5 DEF Found
      <4> DEFINE right == call[l + 1][g]
      <4>2. right.ok /\ right.i = k + 1 /\ right.e = b
        BY <3>6 DEF Found
      <4>3. turn[n + 1] = IF right.ok THEN Found(right.i, Join(a, right.e, word)) ELSE right
        BY <2>7, <3>10, <4>1 DEF Turn
      <4> HIDE DEF right
      <4> QED BY <2>7, <4>2, <4>3
    <3> QED BY <2>4, <3>8, <3>9, <3>11
  <2> QED BY <2>3, <2>4, <2>6, <2>7, GetsJoined
<1>5. Comes(j, e)
  BY <1>4
<1> QED BY <1>5 DEF turn

\* And in which it stays, when its word does not come.
LEMMA TurnStays ==
  ASSUME NEW t, Len(t) \in Nat, NEW call, NEW word, NEW g, NEW left,
         NEW n \in 0..MaxTurns(t), ~Is(t, Turns(t, call, left, word, g)[n].i, word)
  PROVE  Turns(t, call, left, word, g)[MaxTurns(t)] = Turns(t, call, left, word, g)[n]
<1> DEFINE turn == Turns(t, call, left, word, g)
<1> DEFINE Wrong == {k \in n..MaxTurns(t) : turn[k] # turn[n]}
<1>1. MaxTurns(t) \in Nat
  BY TurnsAreNat
<1>2. \A k \in 0..MaxTurns(t) : turn[k] = IF k = 0 THEN left ELSE Turn(t, call, turn[k - 1], word, g)
  BY <1>1, TurnIs DEF TurnStep
<1> HIDE DEF turn
<1>3. Wrong = {}
  <2>1. SUFFICES ASSUME Wrong # {} PROVE FALSE
    OBVIOUS
  <2>2. PICK k \in Wrong : \A l \in Wrong : k <= l
    <3>1. Wrong \subseteq Nat
      BY <1>1
    <3> HIDE DEF Wrong
    <3> QED BY <2>1, <3>1, LeastNumber
  <2>3. k # n /\ k \in 0..MaxTurns(t) /\ k - 1 \in n..MaxTurns(t) /\ ~(k <= k - 1) /\ k # 0
    BY <1>1, <2>2
  <2>4. turn[k - 1] = turn[n]
    BY <2>2, <2>3
  <2>5. Turn(t, call, turn[n], word, g) = turn[n]
    BY DEF Turn, turn
  <2>6. turn[k] = turn[n]
    BY <1>2, <2>3, <2>4, <2>5
  <2> QED BY <2>2, <2>6
<1>4. MaxTurns(t) \in n..MaxTurns(t)
  BY <1>1
<1> QED BY <1>3, <1>4 DEF turn

\* A loop returns what is derived as its level.
LEMMA LoopReturns ==
  ASSUME NEW t, Len(t) \in Nat, NEW m \in Nat, NEW call, Returns(t, call, m), NEW word \in {"and", "or"},
         NEW i \in 1..Len(t), NEW left, Starts(t, i, m, word, left),
         NEW j \in 1..Len(t), j - i <= m, NEW e, Gets(t, i, j, word, e), Follow(t, j, word)
  PROVE  Turns(t, call, left, word, Operand[word])[MaxTurns(t)] = Found(j + 1, e)
<1> DEFINE turn == Turns(t, call, left, word, Operand[word])
<1>1. Follow(t, j, Operand[word]) /\ ~Is(t, j + 1, word)
  BY DEF Follow, Operand
<1>2. PICK n \in Nat : 4 * n <= j - i /\ turn[n] = Found(j + 1, e)
  BY <1>1, TurnComes
<1>3. n \in 0..MaxTurns(t)
  <2>1. 4 * n <= Len(t)
    BY <1>2
  <2> QED BY <2>1, TurnsAreNat
<1>4. ~Is(t, turn[n].i, word)
  BY <1>1, <1>2 DEF Found
<1> QED BY <1>2, <1>3, <1>4, TurnStays

\* A nonterminal returns expressions of one token more than the calls in it do.
LEMMA ReturnsCalled ==
  ASSUME NEW t, Len(t) \in Nat, NEW m \in Nat, NEW call, Returns(t, call, m), NEW g \in Nonterminal,
         NEW i \in 1..Len(t), NEW j \in 1..Len(t), j - i <= m, NEW e, Gets(t, i, j, g, e), Follow(t, j, g)
  PROVE  Called(t, i, g, call) = Found(j + 1, e)
<1>1. \A k \in 1..Len(t) : \A x : (k - i <= m /\ Gets(t, i, k, "not", x)) => Not(t, i, call) = Found(k + 1, x)
  BY ReturnsNot
<1>2. ASSUME NEW k \in 1..Len(t), NEW x, k - i <= m, Gets(t, i, k, "and", x), Follow(t, k, "and")
      PROVE  And(t, i, call) = Found(k + 1, x)
  <2>1. Operand["and"] = "not"
    BY DEF Operand
  <2>2. Starts(t, i, m, "and", Not(t, i, call))
    BY <1>1, <2>1 DEF Starts
  <2>3. Turns(t, call, Not(t, i, call), "and", Operand["and"])[MaxTurns(t)] = Found(k + 1, x)
    BY <1>2, <2>2, LoopReturns
  <2> QED BY <2>1, <2>3 DEF And
<1>3. ASSUME NEW k \in 1..Len(t), NEW x, k - i <= m, Gets(t, i, k, "or", x), Follow(t, k, "or")
      PROVE  Or(t, i, call) = Found(k + 1, x)
  <2>1. Operand["or"] = "and"
    BY DEF Operand
  <2>2. Starts(t, i, m, "or", And(t, i, call))
    BY <1>2, <2>1 DEF Starts
  <2>3. Turns(t, call, And(t, i, call), "or", Operand["or"])[MaxTurns(t)] = Found(k + 1, x)
    BY <1>3, <2>2, LoopReturns
  <2> QED BY <2>1, <2>3 DEF Or
<1> QED BY <1>1, <1>2, <1>3 DEF Called, Nonterminal

\* Calls as deep as there are tokens return every expression derived from them.
LEMMA AllCallsReturn ==
  ASSUME NEW t, Len(t) \in Nat
  PROVE  Returns(t, Calls(t)[Len(t)], Len(t))
<1> DEFINE Wrong == {m \in 0..Len(t) : ~Returns(t, Calls(t)[m], m)}
<1>1. SUFFICES ASSUME Wrong # {} PROVE FALSE
  OBVIOUS
<1>2. PICK m \in Wrong : \A k \in Wrong : m <= k
  <2>1. Wrong \subseteq Nat
    OBVIOUS
  <2> HIDE DEF Wrong
  <2> QED BY <1>1, <2>1, LeastNumber
<1>3. ASSUME NEW i \in 1..Len(t), NEW j \in 1..Len(t), NEW g \in Nonterminal, NEW e,
             j - i < m, Gets(t, i, j, g, e), Follow(t, j, g)
      PROVE  Calls(t)[m][i][g] = Found(j + 1, e)
  <2>1. i + 2 <= j
    BY <1>3, Short
  <2>2. m # 0 /\ m - 1 \in 0..Len(t) /\ ~(m <= m - 1) /\ j - i <= m - 1 /\ i \in 1..(Len(t) + 1)
    BY <1>3, <2>1
  <2>3. Returns(t, Calls(t)[m - 1], m - 1)
    BY <1>2, <2>2
  <2>4. Called(t, i, g, Calls(t)[m - 1]) = Found(j + 1, e)
    BY <1>3, <2>2, <2>3, ReturnsCalled
  <2> QED BY <2>2, <2>4, CallsAre
<1>4. Returns(t, Calls(t)[m], m)
  BY <1>3 DEF Returns
<1> QED BY <1>2, <1>4

-----------------------------------------------------------------------------
(* The parsers and the grammar *)

\* The parse of a source is what the grammar derives from it.
LEMMA ParseIsDerived ==
  ASSUME NEW d, NEW src, Len(src) \in Nat, DOMAIN src = 1..Len(src), ~LexFails(d, src)
  PROVE  LET t == Lex(d, src)
             r == Parse(d, src)
         IN  /\ DerivedOr(t, 1, Len(t), Derived(t)[Len(t)]) = IF r.ok THEN {r.e} ELSE {}
             /\ r.ok => Len(t) \in 1..Len(t) /\ Gets(t, 1, Len(t), "or", r.e)
<1> DEFINE t == Lex(d, src)
<1> DEFINE r == Or(t, 1, Calls(t)[Len(t)])
<1> DEFINE S == DerivedOr(t, 1, Len(t), Derived(t)[Len(t)])
<1>1. Len(t) \in Nat
  <2>1. DOMAIN t = 1..Len(src)
    BY DEF Lex
  <2> QED BY <2>1
<1> HIDE DEF t
<1>2. Parse(d, src) = IF r.ok /\ r.i # Len(t) + 1 THEN Fails(r.i) ELSE r
  BY DEF Parse, t
<1> HIDE DEF r
<1>3. Good(t, 1, "or", r)
  <2>1. 1 \in 1..(Len(t) + 1)
    BY <1>1
  <2>2. Good(t, 1, "or", Called(t, 1, "or", Calls(t)[Len(t)]))
    BY <1>1, <2>1, AllCallsAreGood, GoodCalled DEF Nonterminal
  <2> QED BY <2>2 DEF Called, r
<1>4. ASSUME r.ok, r.i = Len(t) + 1
      PROVE  r.e \in S /\ Len(t) \in 1..Len(t) /\ Gets(t, 1, Len(t), "or", r.e)
  <2>1. Gives(t, 1, Len(t), "or", r.e)
    BY <1>1, <1>3, <1>4 DEF Good
  <2>2. Len(t) \in 0..Len(t) /\ Len(t) - 1 <= Len(t)
    BY <1>1
  <2>3. r.e \in DerivedAs(t, 1, Len(t), "or", Derived(t)[Len(t)])
    BY <2>1, <2>2 DEF Gives
  <2> QED BY <2>1, <2>2, <2>3 DEF DerivedAs, Gives, Gets
<1>5. ASSUME NEW e \in S PROVE r = Found(Len(t) + 1, e)
  <2>1. Len(t) # 0
    <3>1. SUFFICES ASSUME Len(t) = 0 PROVE FALSE
      OBVIOUS
    <3>2. Negated(t, 1, Len(t), Derived(t)[Len(t)]) = {} /\ Inside(t, 1, Len(t), Derived(t)[Len(t)]) = {}
      BY <3>1 DEF Negated, Inside
    <3>3. Compared(t, 1, Len(t)) = {} /\ (1 + 1)..(Len(t) - 1) = {}
      BY <3>1 DEF Compared
    <3>4. \A w, g : Joined(t, 1, Len(t), Derived(t)[Len(t)], w, g) = {}
      BY <3>3 DEF Joined
    <3> QED BY <3>2, <3>3, <3>4 DEF DerivedNot, DerivedAnd, DerivedOr
  <2>2. 1 \in 1..Len(t) /\ Len(t) \in 1..Len(t) /\ Len(t) \in 0..Len(t) /\ Len(t) - 1 <= Len(t)
    BY <1>1, <2>1
  <2>3. Gets(t, 1, Len(t), "or", e)
    BY <2>2 DEF Gets, DerivedAs
  <2>4. Follow(t, Len(t), "or")
    BY <1>1 DEF Follow, Is
  <2>5. Called(t, 1, "or", Calls(t)[Len(t)]) = Found(Len(t) + 1, e)
    BY <1>1, <2>2, <2>3, <2>4, AllCallsReturn, ReturnsCalled DEF Nonterminal
  <2> QED BY <2>5 DEF Called, r
<1> HIDE DEF S
<1>6. CASE r.ok /\ r.i = Len(t) + 1
  <2>1. \A e \in S : e = r.e
    BY <1>5 DEF Found
  <2>2. S = {r.e}
    BY <1>4, <1>6, <2>1
  <2> QED BY <1>2, <1>4, <1>6, <2>2 DEF t, S
<1>7. CASE ~(r.ok /\ r.i = Len(t) + 1)
  <2>1. S = {}
    BY <1>5, <1>7 DEF Found
  <2>2. ~Parse(d, src).ok
    BY <1>2, <1>7 DEF Fails
  <2> QED BY <2>1, <2>2 DEF t, S
<1> QED BY <1>6, <1>7

-----------------------------------------------------------------------------
(* The dialects *)

\* What expressions over tokens are made of.
Nodes(t) == {Node(k) : k \in {"and", "or", "not"}}
              \cup {CmpNode(t[a].n, t[b].n, t[c].v) : a \in 1..Len(t), b \in 1..Len(t), c \in 1..Len(t)}

\* Two expressions over tokens, joined, are one.
LEMMA JoinedNodes ==
  ASSUME NEW t, NEW a \in Seq(Nodes(t)), NEW b \in Seq(Nodes(t)), NEW word \in {"and", "or"}
  PROVE  Join(a, b, word) \in Seq(Nodes(t))
<1> DEFINE N == Nodes(t)
<1>1. Node(word) \in N
  BY DEF Nodes
<1> HIDE DEF N
<1>2. a \in Seq(N) /\ b \in Seq(N)
  BY DEF N
<1>3. a \o b \in Seq(N) /\ <<Node(word)>> \in Seq(N)
  BY <1>1, <1>2
<1>4. (a \o b) \o <<Node(word)>> \in Seq(N)
  BY <1>3
<1> QED BY <1>4 DEF Join, N

\* Derived expressions are sequences of them.
LEMMA DerivedNodes ==
  ASSUME NEW t, Len(t) \in Nat, NEW i \in 1..Len(t), NEW j \in 1..Len(t), NEW g \in Nonterminal,
         NEW e, Gets(t, i, j, g, e)
  PROVE  e \in Seq(Nodes(t))
<1> DEFINE S == Seq(Nodes(t))
<1> DEFINE Wrong == {m \in 0..Len(t) : \E a \in 1..Len(t), b \in 1..Len(t), n \in Nonterminal :
                                          ~(DerivedAs(t, a, b, n, Derived(t)[m]) \subseteq S)}
<1>1. Wrong = {}
  <2>1. SUFFICES ASSUME Wrong # {} PROVE FALSE
    OBVIOUS
  <2>2. PICK m \in Wrong : \A k \in Wrong : m <= k
    <3>1. Wrong \subseteq Nat
      OBVIOUS
    <3> HIDE DEF Wrong
    <3> QED BY <2>1, <3>1, LeastNumber
  <2>3. PICK a \in 1..Len(t), b \in 1..Len(t), n \in Nonterminal : ~(DerivedAs(t, a, b, n, Derived(t)[m]) \subseteq S)
    BY <2>2
  <2>4. ASSUME NEW c \in 1..Len(t), NEW d \in 1..Len(t), NEW w \in Nonterminal
        PROVE  Derived(t)[m][c][d][w] \subseteq S
    <3>1. Derived(t)[m][c][d][w] = IF m = 0 THEN {} ELSE DerivedAs(t, c, d, w, Derived(t)[m - 1])
      BY Deeper
    <3>2. m # 0 => m - 1 \in 0..Len(t) /\ ~(m <= m - 1)
      OBVIOUS
    <3>3. m # 0 => m - 1 \notin Wrong
      BY <2>2, <3>2
    <3>4. m # 0 => DerivedAs(t, c, d, w, Derived(t)[m - 1]) \subseteq S
      BY <2>4, <3>2, <3>3
    <3> QED BY <3>1, <3>4
  <2> DEFINE of == Derived(t)[m]
  <2>5. ASSUME NEW x \in DerivedAs(t, a, b, "not", of) PROVE x \in S
    <3>1. Gets(t, a, b, "not", x)
      BY DEF Gets
    <3>2. CASE x \in Negated(t, a, b, of)
      <4>1. a < b
        BY <3>2 DEF Negated
      <4>2. PICK y \in of[a + 1][b]["not"] : x = Append(y, Node("not"))
        BY <3>2 DEF Negated
      <4>3. y \in Seq(Nodes(t)) /\ Node("not") \in Nodes(t)
        <5>1. a + 1 \in 1..Len(t) /\ "not" \in Nonterminal
          BY <4>1 DEF Nonterminal
        <5>2. of[a + 1][b]["not"] \subseteq S
          BY <2>4, <5>1
        <5>3. Node("not") \in Nodes(t)
          BY DEF Nodes
        <5> QED BY <4>2, <5>2, <5>3
      <4> QED BY <4>2, <4>3
    <3>3. CASE x \in Inside(t, a, b, of)
      BY <2>4, <3>3 DEF Inside, Nonterminal
    <3>4. CASE x \in Compared(t, a, b)
      <4>1. a + 1 \in 1..Len(t) /\ x = <<CmpNode(t[a].n, t[a + 1].n, t[b].v)>>
        BY <3>4 DEF Compared
      <4>2. CmpNode(t[a].n, t[a + 1].n, t[b].v) \in Nodes(t)
        BY <4>1 DEF Nodes
      <4> QED BY <4>1, <4>2
    <3> QED BY <3>2, <3>3, <3>4 DEF DerivedAs, DerivedNot
  <2>6. ASSUME NEW word \in {"and", "or"}, NEW x \in Joined(t, a, b, of, word, Operand[word]) PROVE x \in S
    <3>1. PICK k \in (a + 1)..(b - 1) : x \in JoinAll(of[a][k - 1][word], of[k + 1][b][Operand[word]], word)
      BY <2>6 DEF Joined
    <3>2. PICK y \in of[a][k - 1][word], z \in of[k + 1][b][Operand[word]] : x = Join(y, z, word)
      BY <3>1, JoinAllHas
    <3>3. k - 1 \in 1..Len(t) /\ k + 1 \in 1..Len(t) /\ word \in Nonterminal /\ Operand[word] \in Nonterminal
      BY DEF Nonterminal, Operand
    <3>4. y \in S /\ z \in S
      BY <2>4, <3>2, <3>3
    <3> QED BY <3>2, <3>4, JoinedNodes
  <2>7. DerivedAs(t, a, b, "and", of) \subseteq S
    BY <2>5, <2>6 DEF DerivedAs, DerivedAnd, Operand
  <2>8. DerivedAs(t, a, b, "or", of) \subseteq S
    BY <2>6, <2>7 DEF DerivedAs, DerivedOr, Operand
  <2> QED BY <2>3, <2>5, <2>7, <2>8 DEF Nonterminal
<1> QED BY <1>1 DEF Gets

\* No token of kind `lone' is derived.
LEMMA DerivedOps ==
  ASSUME NEW t, Len(t) \in Nat, NEW i \in 1..Len(t), NEW j \in 1..Len(t), NEW g \in Nonterminal,
         NEW e, Gets(t, i, j, g, e)
  PROVE  \A l \in i..j : t[l].k # "lone"
<1> DEFINE Clean(a, b) == \A l \in a..b : t[l].k # "lone"
<1> DEFINE Wrong == {m \in 0..Len(t) : \E a \in 1..Len(t), b \in 1..Len(t), n \in Nonterminal :
                                          DerivedAs(t, a, b, n, Derived(t)[m]) # {} /\ ~Clean(a, b)}
<1>1. Wrong = {}
  <2>1. SUFFICES ASSUME Wrong # {} PROVE FALSE
    OBVIOUS
  <2>2. PICK m \in Wrong : \A k \in Wrong : m <= k
    <3>1. Wrong \subseteq Nat
      OBVIOUS
    <3> HIDE DEF Wrong
    <3> QED BY <2>1, <3>1, LeastNumber
  <2>3. PICK a \in 1..Len(t), b \in 1..Len(t), n \in Nonterminal :
          DerivedAs(t, a, b, n, Derived(t)[m]) # {} /\ ~Clean(a, b)
    BY <2>2
  <2>4. ASSUME NEW c \in 1..Len(t), NEW d \in 1..Len(t), NEW w \in Nonterminal, Derived(t)[m][c][d][w] # {}
        PROVE  Clean(c, d)
    <3> HIDE DEF Clean
    <3>0. m \in 0..Len(t)
      BY DEF Wrong
    <3> HIDE DEF Wrong
    <3>1. Derived(t)[m][c][d][w] = IF m = 0 THEN {} ELSE DerivedAs(t, c, d, w, Derived(t)[m - 1])
      BY <3>0, Deeper
    <3>2. m # 0 /\ m - 1 \in 0..Len(t) /\ ~(m <= m - 1)
      BY <2>4, <3>0, <3>1
    <3>3. m - 1 \notin Wrong
      BY <2>2, <3>2
    <3> QED BY <2>4, <3>1, <3>2, <3>3 DEF Wrong
  <2> DEFINE of == Derived(t)[m]
  <2>5. ASSUME NEW x \in DerivedAs(t, a, b, "not", of) PROVE Clean(a, b)
    <3>1. CASE x \in Negated(t, a, b, of)
      <4>1. a < b /\ t[a].k = "not" /\ of[a + 1][b]["not"] # {}
        BY <3>1 DEF Negated, Is
      <4>2. a + 1 \in 1..Len(t) /\ "not" \in Nonterminal
        BY <4>1 DEF Nonterminal
      <4>3. Clean(a + 1, b)
        BY <2>4, <4>1, <4>2
      <4> QED BY <4>1, <4>3
    <3>2. CASE x \in Inside(t, a, b, of)
      <4>1. a + 1 < b /\ t[a].k = "(" /\ t[b].k = ")" /\ of[a + 1][b - 1]["or"] # {}
        BY <3>2 DEF Inside, Is
      <4>2. a + 1 \in 1..Len(t) /\ b - 1 \in 1..Len(t) /\ "or" \in Nonterminal
        BY <4>1 DEF Nonterminal
      <4>3. Clean(a + 1, b - 1)
        BY <2>4, <4>1, <4>2
      <4> QED BY <4>1, <4>3
    <3>3. CASE x \in Compared(t, a, b)
      <4>1. b = a + 2 /\ t[a].k = "id" /\ t[a + 1].k = "op" /\ t[b].k = "lit"
        BY <3>3 DEF Compared, Is
      <4>2. \A l \in a..b : l = a \/ l = a + 1 \/ l = b
        BY <4>1
      <4> QED BY <4>1, <4>2
    <3> QED BY <3>1, <3>2, <3>3 DEF DerivedAs, DerivedNot
  <2>6. ASSUME NEW word \in {"and", "or"}, NEW x \in Joined(t, a, b, of, word, Operand[word]) PROVE Clean(a, b)
    <3>1. PICK k \in (a + 1)..(b - 1) :
            /\ Is(t, k, word)
            /\ x \in JoinAll(of[a][k - 1][word], of[k + 1][b][Operand[word]], word)
      BY <2>6 DEF Joined
    <3>2. of[a][k - 1][word] # {} /\ of[k + 1][b][Operand[word]] # {}
      BY <3>1, JoinAllHas
    <3>3. k - 1 \in 1..Len(t) /\ k + 1 \in 1..Len(t) /\ word \in Nonterminal /\ Operand[word] \in Nonterminal
      BY DEF Nonterminal, Operand
    <3>4. Clean(a, k - 1) /\ Clean(k + 1, b) /\ t[k].k # "lone"
      <4>1. Clean(a, k - 1)
        BY <2>4, <3>2, <3>3
      <4>2. Clean(k + 1, b)
        BY <2>4, <3>2, <3>3
      <4> QED BY <3>1, <4>1, <4>2 DEF Is
    <3> QED BY <3>4
  <2> HIDE DEF Clean
  <2>7. ASSUME NEW x \in DerivedAs(t, a, b, "and", of) PROVE Clean(a, b)
    BY <2>5, <2>6, <2>7 DEF DerivedAs, DerivedAnd, Operand
  <2>8. ASSUME NEW x \in DerivedAs(t, a, b, "or", of) PROVE Clean(a, b)
    BY <2>6, <2>7, <2>8 DEF DerivedAs, DerivedOr, Operand
  <2> QED BY <2>3, <2>5, <2>7, <2>8 DEF Nonterminal
<1> QED BY <1>1 DEF Gets

\* A source with a lone = or ! is not derived.
LEMMA LoneIsUnderivable ==
  ASSUME NEW d, NEW src, Len(src) \in Nat, DOMAIN src = 1..Len(src), Undocumented(src)
  PROVE  Expressions(Documented(d, src)) = {}
<1> DEFINE t == Documented(d, src)
<1>1. PICK l \in 1..Len(src) : src[l].k = "lone"
  BY DEF Undocumented
<1>2. DOMAIN t = 1..Len(src) /\ t[l] = src[l]
  BY <1>1 DEF Documented
<1>3. Len(t) = Len(src) /\ Len(t) \in Nat /\ Len(t) \in 1..Len(t) /\ 1 \in 1..Len(t) /\ l \in 1..Len(t)
  BY <1>2
<1> HIDE DEF t
<1>4. ASSUME NEW e \in DerivedOr(t, 1, Len(t), Derived(t)[Len(t)]) PROVE FALSE
  <2>1. Len(t) \in 0..Len(t)
    BY <1>3
  <2>2. Gets(t, 1, Len(t), "or", e)
    BY <1>4, <2>1 DEF Gets, DerivedAs
  <2>3. t[l].k # "lone"
    BY <1>3, <2>2, DerivedOps DEF Nonterminal
  <2> QED BY <1>1, <1>2, <2>3
<1> QED BY <1>4 DEF t, Expressions

\* A source without has the tokens its dialect's lexer makes.
LEMMA DocumentedIsLexed ==
  ASSUME NEW d, NEW src, ~Undocumented(src)
  PROVE  Documented(d, src) = Lex(d, src)
<1> DEFINE t == Lex(d, src)
<1>1. t = [i \in DOMAIN src |-> t[i]]
  BY DEF Lex
<1>2. \A i \in DOMAIN src : src[i].k # "lone"
  BY DEF Undocumented
<1> HIDE DEF t
<1>3. [i \in DOMAIN src |-> IF src[i].k = "lone" THEN src[i] ELSE t[i]] = [i \in DOMAIN src |-> t[i]]
  BY <1>2
<1> QED BY <1>1, <1>3 DEF Documented, t

\* The values of fields and literals.
Value == [t : {"null", "num", "str", "bool"}, v : Nat]

\* A value that is no bool is compared alike by all, unless Python compares a number to a bool.
LEMMA CmpAgrees ==
  ASSUME NEW d \in {"python", "ts"}, NEW a \in Value, NEW op, NEW b \in Value,
         a.t # "bool", d = "python" => ~(a.t = "num" /\ b.t = "bool")
  PROVE  Cmp(d, a, op, b) = Cmp("rust", a, op, b)
<1>1. a = b <=> a.t = b.t /\ a.v = b.v
  BY DEF Value
<1>2. CASE d = "python"
  <2>1. PythonEqual(a, b) = (a = b)
    BY <1>1, <1>2 DEF PythonEqual, PythonNumber
  <2>2. PythonNumber(a) /\ PythonNumber(b) <=> a.t = "num" /\ b.t = "num"
    BY <1>2 DEF PythonNumber
  <2> HIDE DEF Value
  <2>3. PythonCmp(a, op, b) = RustCmp(a, op, b)
    <3>1. CASE op \in Order
      BY <2>2, <3>1 DEF PythonCmp, RustCmp, Order
    <3>2. CASE op \notin Order
      <4>1. CASE op = "=="
        <5>1. PythonCmp(a, op, b) = PythonEqual(a, b) /\ RustCmp(a, op, b) = (a = b)
          BY <4>1 DEF PythonCmp, RustCmp, Order
        <5> QED BY <2>1, <5>1
      <4>2. CASE op = "!="
        <5>1. PythonCmp(a, op, b) = ~PythonEqual(a, b) /\ RustCmp(a, op, b) = (a # b)
          BY <4>2 DEF PythonCmp, RustCmp, Order
        <5> QED BY <2>1, <5>1
      <4>3. CASE op = "contains"
        BY <4>3 DEF PythonCmp, RustCmp, Order
      <4>4. CASE op \notin {"==", "!=", "contains"}
        BY <3>2, <4>4 DEF PythonCmp, RustCmp, Order
      <4> QED BY <4>1, <4>2, <4>3, <4>4
    <3> QED BY <3>1, <3>2
  <2> QED BY <1>2, <2>3 DEF Cmp
<1>3. CASE d = "ts"
  <2>1. \A x, y : op \in Order => TsOrder(x, op, y) = Ordered(x, op, y)
    BY DEF Order, TsOrder, Ordered
  <2>2. \A x, y : op \notin Order => TsOrder(x, op, y) = FALSE
    BY DEF Order, TsOrder
  <2>3. TsCmp(a, op, b) = RustCmp(a, op, b)
    <3>1. CASE op \in Order
      BY <2>1, <3>1 DEF TsCmp, RustCmp, Order
    <3>2. CASE op \notin Order
      BY <2>2, <3>2 DEF TsCmp, RustCmp, Order
    <3> QED BY <3>1, <3>2
  <2> QED BY <1>3, <2>3 DEF Cmp
<1> QED BY <1>2, <1>3

\* A condition holds in a mirror as it does in Rust.
LEMMA HoldsAgrees ==
  ASSUME NEW d \in {"python", "ts"}, NEW t, \A i \in 1..Len(t) : t[i].v \in Value,
         NEW x \in Seq(Nodes(t)), NEW ctx \in [Field -> FieldValue],
         d = "python" => ~BoolMeetsNumber(x, ctx)
  PROVE  Holds(d, x, ctx) = Holds("rust", x, ctx)
<1> DEFINE Wrong == {n \in 0..Len(x) : Values(d, x, ctx)[n] # Values("rust", x, ctx)[n]}
<1>1. Len(x) \in Nat /\ DOMAIN x = 1..Len(x) /\ \A n \in 1..Len(x) : x[n] \in Nodes(t)
  OBVIOUS
<1>2. ASSUME NEW c \in Dialect
      PROVE  \A n \in 0..Len(x) : Values(c, x, ctx)[n] =
               IF n = 0 THEN <<>> ELSE Apply(c, x[n], ctx, Values(c, x, ctx)[n - 1])
  BY <1>1, ValueIs DEF ValueStep
<1>3. ASSUME NEW n \in 1..Len(x), NEW vals PROVE Apply(d, x[n], ctx, vals) = Apply("rust", x[n], ctx, vals)
  <2>1. x[n] \in Nodes(t)
    BY <1>1
  <2>2. CASE x[n] \in {Node(k) : k \in {"and", "or", "not"}}
    BY <2>2 DEF Apply, Node
  <2>3. CASE x[n] \notin {Node(k) : k \in {"and", "or", "not"}}
    <3>1. PICK c \in 1..Len(t) : x[n].k = "cmp" /\ x[n].val = t[c].v
      BY <2>1, <2>3 DEF Nodes, CmpNode
    <3> DEFINE a == ValueOf(ctx, x[n].field)
    <3>2. a \in Value /\ a.t # "bool"
      <4>1. CASE x[n].field \in DOMAIN ctx
        <5>1. a \in FieldValue
          BY <4>1 DEF ValueOf
        <5> QED BY <5>1, PredicateAssumption DEF Value
      <4>2. CASE x[n].field \notin DOMAIN ctx
        BY <4>2 DEF ValueOf, Null, Value
      <4> QED BY <4>1, <4>2
    <3>3. d = "python" => ~(a.t = "num" /\ x[n].val.t = "bool")
      BY <1>1, <3>1 DEF BoolMeetsNumber
    <3>4. x[n].val \in Value
      BY <3>1
    <3> HIDE DEF a
    <3>5. Cmp(d, a, x[n].op, x[n].val) = Cmp("rust", a, x[n].op, x[n].val)
      BY <3>2, <3>3, <3>4, CmpAgrees
    <3> QED BY <3>1, <3>5 DEF Apply, a
  <2> QED BY <2>2, <2>3
<1>4. Wrong = {}
  <2>1. SUFFICES ASSUME Wrong # {} PROVE FALSE
    OBVIOUS
  <2>2. PICK n \in Wrong : \A k \in Wrong : n <= k
    <3>1. Wrong \subseteq Nat
      BY <1>1
    <3> HIDE DEF Wrong
    <3> QED BY <2>1, <3>1, LeastNumber
  <2>3. d \in Dialect /\ "rust" \in Dialect
    BY DEF Dialect
  <2>4. n # 0
    BY <1>2, <2>3
  <2>5. n - 1 \in 0..Len(x) /\ ~(n <= n - 1) /\ n \in 1..Len(x)
    BY <1>1, <2>4
  <2>6. Values(d, x, ctx)[n - 1] = Values("rust", x, ctx)[n - 1]
    BY <2>2, <2>5
  <2>7. Values(d, x, ctx)[n] = Values("rust", x, ctx)[n]
    <3>1. Values(d, x, ctx)[n] = Apply(d, x[n], ctx, Values(d, x, ctx)[n - 1])
      BY <1>2, <2>3, <2>4
    <3>2. Values("rust", x, ctx)[n] = Apply("rust", x[n], ctx, Values("rust", x, ctx)[n - 1])
      BY <1>2, <2>3, <2>4
    <3> QED BY <1>3, <2>5, <2>6, <3>1, <3>2
  <2> QED BY <2>7
<1>5. Len(x) \in 0..Len(x)
  BY <1>1
<1> QED BY <1>4, <1>5 DEF Holds

\* The kinds of lexemes: a value is a literal's or null, and words are the words.
LEMMA LexemesAre ==
  ASSUME NEW x \in Lexeme
  PROVE  x.v \in Value /\ (x.k = "word" => x.n \in Word /\ x = Tok("word", x.n))
<1>1. CASE \E k \in Keyword : x = Tok(k, "")
  <2>1. PICK k \in Keyword : x = Tok(k, "")
    BY <1>1
  <2>2. k # "word"
    BY DEF Keyword
  <2> QED BY <2>1, <2>2 DEF Tok, Null, Value
<1>2. CASE \E o \in Compare : x = Tok("op", o)
  BY <1>2 DEF Tok, Null, Value
<1>3. CASE \E o \in Lone : x = Tok("lone", o)
  BY <1>3 DEF Tok, Null, Value
<1>4. CASE \E f \in Field : x = Tok("id", f)
  BY <1>4 DEF Tok, Null, Value
<1>5. CASE \E w \in Word : x = Tok("word", w)
  BY <1>5 DEF Tok, Null, Value
<1>6. CASE \E v \in Literal : x = Lit(v)
  <2>1. PICK v \in Literal : x = Lit(v)
    BY <1>6
  <2>2. v \in [t : {"num", "str", "bool"}, v : Nat]
    BY PredicateAssumption
  <2> QED BY <2>1, <2>2 DEF Lit, Value
<1> QED BY <1>1, <1>2, <1>3, <1>4, <1>5, <1>6 DEF Lexeme

\* A source that a mirror's lexer takes, and in which it and Rust take the same words for
\* numbers, is the same tokens to both.
LEMMA LexAgrees ==
  ASSUME NEW d \in {"python", "ts"}, NEW src \in Seq(Lexeme), ~LexFails(d, src),
         \A w \in Word : Tok("word", w) \in Range(src) => (w \in NumberWord[d] <=> w \in NumberWord["rust"])
  PROVE  /\ Lex(d, src) = Lex("rust", src) /\ ~LexFails("rust", src)
         /\ Len(Lex(d, src)) \in Nat
         /\ \A i \in 1..Len(Lex(d, src)) : Lex(d, src)[i].v \in Value
<1>1. DOMAIN src = 1..Len(src) /\ Len(src) \in Nat /\ \A i \in 1..Len(src) : src[i] \in Lexeme
  <2> DEFINE L == Lexeme
  <2>1. src \in Seq(L)
    OBVIOUS
  <2> HIDE DEF L
  <2>2. DOMAIN src = 1..Len(src) /\ Len(src) \in Nat /\ \A i \in 1..Len(src) : src[i] \in L
    BY <2>1
  <2> QED BY <2>2 DEF L
<1>2. \A i \in 1..Len(src) : src[i].k = "word" => src[i].n \in Word /\ src[i] = Tok("word", src[i].n)
  BY <1>1, LexemesAre
<1>3. ASSUME NEW i \in 1..Len(src) PROVE Lex(d, src)[i] = Lex("rust", src)[i]
  <2>1. CASE src[i].k = "word"
    <3>1. Tok("word", src[i].n) \in Range(src) /\ src[i].n \in Word
      BY <1>1, <1>2, <2>1 DEF Range
    <3>2. src[i].n \in NumberWord[d] <=> src[i].n \in NumberWord["rust"]
      BY <3>1
    <3> QED BY <1>1, <2>1, <3>2 DEF Lex
  <2>2. CASE src[i].k # "word"
    BY <1>1, <2>2 DEF Lex, LexFails
  <2> QED BY <2>1, <2>2
<1>4. DOMAIN Lex(d, src) = 1..Len(src) /\ DOMAIN Lex("rust", src) = 1..Len(src)
  BY <1>1 DEF Lex
<1>5. Lex(d, src) = Lex("rust", src)
  BY <1>1, <1>3, <1>4 DEF Lex
<1>6. Len(Lex(d, src)) = Len(src)
  BY <1>1, <1>4
<1>7. ASSUME NEW i \in 1..Len(src) PROVE Lex(d, src)[i].v \in Value
  <2>1. src[i].v \in Value
    BY <1>1, LexemesAre
  <2>2. Lex(d, src)[i].v \in {src[i].v, Num(2), Null}
    BY <1>1 DEF Lex, Tok, Lit
  <2> QED BY <2>1, <2>2 DEF Num, Null, Value
<1> QED BY <1>1, <1>5, <1>6, <1>7 DEF LexFails

-----------------------------------------------------------------------------
(* The theorems *)

Typed == source \in Seq(Lexeme)

\* Sources are sequences of lexemes.
LEMMA SourcesAreTyped == SourceSpec => []Typed
<1>1. SourceInit => Typed
  BY DEF SourceInit, Typed
<1>2. Typed /\ [SourceNext]_source => Typed'
  <2>1. SUFFICES ASSUME Typed, [SourceNext]_source PROVE source' \in Seq(Lexeme)
    BY DEF Typed
  <2>2. CASE Type
    <3>1. PICK x \in Lexeme : source' = Append(source, x)
      BY <2>2 DEF Type
    <3> DEFINE L == Lexeme
    <3>2. source \in Seq(L) /\ x \in L
      BY <2>1 DEF Typed
    <3> HIDE DEF L
    <3>3. Append(source, x) \in Seq(L)
      BY <3>2
    <3> QED BY <3>1, <3>3 DEF L
  <2>3. CASE Clear
    BY <2>3 DEF Clear
  <2>4. CASE UNCHANGED source
    BY <2>1, <2>4 DEF Typed
  <2> QED BY <2>1, <2>2, <2>3, <2>4 DEF SourceNext
<1> QED BY <1>1, <1>2, PTL DEF SourceSpec

\* Whatever is typed, each dialect takes what the grammar of lib.rs:4-11 derives, builds the
\* one expression derived, and takes nothing else, but in Rust and TypeScript sources with a
\* lone = or !, and of those the ones that are derived if it counts as an operator.
THEOREM ParsersAcceptTheGrammar == SourceSpec => []ParsesTheGrammar
<1>1. Typed => ParsesTheGrammar
  <2>1. SUFFICES ASSUME source \in Seq(Lexeme), NEW d \in Dialect
                 PROVE  LET r == Parse(d, source)
                        IN  /\ Expressions(Documented(d, source)) = IF r.ok /\ ~Undocumented(source) THEN {r.e} ELSE {}
                            /\ Undocumented(source) =>
                                 IF d = "python" THEN ~r.ok
                                 ELSE Expressions(Lex(d, source)) = IF r.ok THEN {r.e} ELSE {}
    BY DEF ParsesTheGrammar, Typed
  <2>2. Len(source) \in Nat /\ DOMAIN source = 1..Len(source)
    BY <2>1
  <2> DEFINE r == Parse(d, source)
  <2>3. ~LexFails(d, source) => Expressions(Lex(d, source)) = IF r.ok THEN {r.e} ELSE {}
    BY <2>2, ParseIsDerived DEF Expressions
  <2>4. LexFails(d, source) => ~r.ok
    BY DEF Parse, Fails
  <2>5. LexFails(d, source) <=> d = "python" /\ Undocumented(source)
    BY DEF LexFails, Undocumented
  <2> HIDE DEF r
  <2>6. CASE Undocumented(source)
    <3>1. Expressions(Documented(d, source)) = {}
      BY <2>2, <2>6, LoneIsUnderivable
    <3> QED BY <2>3, <2>4, <2>5, <2>6, <3>1 DEF r
  <2>7. CASE ~Undocumented(source)
    <3>1. Documented(d, source) = Lex(d, source)
      BY <2>7, DocumentedIsLexed
    <3> QED BY <2>3, <2>5, <2>7, <3>1 DEF r
  <2> QED BY <2>6, <2>7
<1> QED BY <1>1, SourcesAreTyped, PTL

\* Whatever is typed that a mirror accepts, Rust accepts, and it holds for the same spans,
\* but for words that are numbers to one of them only and bools that Python finds equal to
\* numbers: the three comparisons agree on every other pair of values.
THEOREM MirrorsAgree == SourceSpec => []MirrorsHold
<1>1. Typed => MirrorsHold
  <2>1. SUFFICES ASSUME source \in Seq(Lexeme), NEW d \in {"python", "ts"}, Parse(d, source).ok, SameNumbers(d)
                 PROVE  /\ Parse("rust", source).ok
                        /\ \A ctx \in [Field -> FieldValue] :
                             ~(d = "python" /\ BoolMeetsNumber(Parse(d, source).e, ctx)) =>
                               (Holds(d, Parse(d, source).e, ctx) <=> Holds("rust", Parse("rust", source).e, ctx))
    BY DEF MirrorsHold, Typed
  <2> DEFINE t == Lex(d, source)
  <2> DEFINE p == Parse(d, source)
  <2>2. ~LexFails(d, source)
    BY <2>1 DEF Parse, Fails
  <2>3. /\ t = Lex("rust", source) /\ ~LexFails("rust", source) /\ Len(t) \in Nat
        /\ \A i \in 1..Len(t) : t[i].v \in Value
    BY <2>1, <2>2, LexAgrees DEF SameNumbers
  <2>4. p = Parse("rust", source)
    BY <2>2, <2>3 DEF Parse
  <2>5. Len(source) \in Nat /\ DOMAIN source = 1..Len(source)
    BY <2>1
  <2>6. Len(t) \in 1..Len(t) /\ Gets(t, 1, Len(t), "or", p.e)
    BY <2>1, <2>2, <2>5, ParseIsDerived
  <2>7. p.e \in Seq(Nodes(t))
    BY <2>3, <2>6, DerivedNodes DEF Nonterminal
  <2>8. p.ok
    BY <2>1
  <2> HIDE DEF t, p
  <2>9. ASSUME NEW ctx \in [Field -> FieldValue], ~(d = "python" /\ BoolMeetsNumber(p.e, ctx))
        PROVE  Holds(d, p.e, ctx) = Holds("rust", p.e, ctx)
    BY <2>3, <2>7, <2>9, HoldsAgrees
  <2> QED BY <2>4, <2>8, <2>9 DEF p
<1> QED BY <1>1, SourcesAreTyped, PTL
================================================================================
