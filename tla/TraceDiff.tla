------------------------------- MODULE TraceDiff -------------------------------
(***************************************************************************)
(* The trace diff (crates/diff/src/lib.rs, align_spans and                 *)
(* first_divergence; packages/ui/src/data/diff.ts is its mirror).  Two     *)
(* pre-ordered lists of spans are walked from the front, led by a table of *)
(* longest common subsequences of the rests.                               *)
(***************************************************************************)
EXTENDS Nothing, Naturals, Sequences, FiniteSets

CONSTANTS Key,      \* kind and name of a span
          Content,  \* its status and attributes
          MaxLen    \* bound: spans of a trace

ASSUME DiffAssumption == MaxLen \in Nat /\ None \notin Nat

\* `branched': the replay bookkeeping on a branch's root, IGNORE_ATTRS.
Span == [key : Key, content : Content, branched : BOOLEAN]

VARIABLES a, b,  \* the traces
          i, j,  \* where the walk is in each
          out    \* the pairs

vars == <<a, b, i, j, out>>

Traces == UNION {[1..n -> Span] : n \in 0..MaxLen}
Kinds  == {"equal", "changed", "removed", "added"}
Pair   == [kind : Kinds, a : Span \cup {None}, b : Span \cup {None}]

TypeOK ==
  /\ a \in Seq(Span) /\ b \in Seq(Span)
  /\ i \in 1..(Len(a) + 1) /\ j \in 1..(Len(b) + 1)
  /\ out \in Seq(Pair)

Init ==
  /\ a \in Traces /\ b \in Traces
  /\ i = 1 /\ j = 1
  /\ out = <<>>

SameKey(x, y) == x.key = y.key

\* dp[x][y] is the length of a longest common subsequence of the rests from x and y on.
dp[x \in 1..(Len(a) + 1)] == [y \in 1..(Len(b) + 1) |->
  IF x > Len(a) \/ y > Len(b) THEN 0
  ELSE IF SameKey(a[x], b[y]) THEN dp[x + 1][y + 1] + 1
  ELSE IF dp[x + 1][y] >= dp[x][y + 1] THEN dp[x + 1][y] ELSE dp[x][y + 1]]

\* Mutant: the bookkeeping counts.
DivergedByAny(x, y) == x # y

Diverged(x, y) == x.content # y.content

\* Mutant: the table read the wrong way round.
RemovedFirstSwapped == dp[i][j + 1] > dp[i + 1][j]

\* Which side to leave behind when the keys differ.
RemovedFirst == dp[i + 1][j] >= dp[i][j + 1]

Both    == i <= Len(a) /\ j <= Len(b)
Aligned == Both /\ SameKey(a[i], b[j])

Align ==
  /\ Aligned
  /\ out' = Append(out, [kind |-> IF Diverged(a[i], b[j]) THEN "changed" ELSE "equal",
                         a |-> a[i], b |-> b[j]])
  /\ i' = i + 1 /\ j' = j + 1
  /\ UNCHANGED <<a, b>>

RemoveSpan ==
  /\ i <= Len(a) /\ ~Aligned
  /\ Both => RemovedFirst
  /\ out' = Append(out, [kind |-> "removed", a |-> a[i], b |-> None])
  /\ i' = i + 1
  /\ UNCHANGED <<a, b, j>>

AddSpan ==
  /\ j <= Len(b) /\ ~Aligned
  /\ Both => ~RemovedFirst
  /\ out' = Append(out, [kind |-> "added", a |-> None, b |-> b[j]])
  /\ j' = j + 1
  /\ UNCHANGED <<a, b, i>>

Ended == i > Len(a) /\ j > Len(b)

Done == Ended /\ UNCHANGED vars

Next == Align \/ RemoveSpan \/ AddSpan \/ Done

Spec == Init /\ [][Next]_vars

\* first_divergence
Differing       == {n \in 1..Len(out) : out[n].kind # "equal"}
FirstDivergence == IF Differing = {} THEN None
                   ELSE CHOOSE n \in Differing : \A k \in Differing : n <= k

-----------------------------------------------------------------------------
(* Properties *)

\* The pairs up to the n-th that have a span of the first trace, or of the second.
Left(n)  == {k \in 1..n : out[k].kind # "added"}
Right(n) == {k \in 1..n : out[k].kind # "removed"}

\* No span is lost, doubled or moved: the k-th of the pairs with a left side has the k-th
\* span of the first trace, and there are as many as it has had so far; the right sides
\* are the second trace likewise (lib.rs:75-124).
NothingIsLost ==
  /\ \A n \in Left(Len(out)) : out[n].a = a[Cardinality(Left(n))]
  /\ \A n \in Right(Len(out)) : out[n].b = b[Cardinality(Right(n))]
  /\ Cardinality(Left(Len(out))) = i - 1 /\ Cardinality(Right(Len(out))) = j - 1

\* A common subsequence of n spans, as the places of its spans in both traces.
Common(n) == \E f \in [1..n -> 1..Len(a)], g \in [1..n -> 1..Len(b)] :
  /\ \A k \in 1..n : SameKey(a[f[k]], b[g[k]])
  /\ \A k, l \in 1..n : k < l => f[k] < f[l] /\ g[k] < g[l]

\* As many spans are aligned as can be: pairs with the same key in the same order on
\* both sides, and no alignment has one more (lib.rs:58-59).
AlignsTheMost == Ended =>
  LET aligned == {n \in 1..Len(out) : out[n].kind \in {"equal", "changed"}}
  IN  /\ \A n \in aligned : SameKey(out[n].a, out[n].b)
      /\ ~Common(Cardinality(aligned) + 1)

\* Both: an alignment of the two traces, and a best one.
BestAlignment == NothingIsLost /\ AlignsTheMost

\* "First divergence" is the first place where the traces differ in more than replay
\* bookkeeping, and nothing when they do not: aligning the most never makes the walk
\* skip a span that is the same at the same place (lib.rs:34-38, 127-129).
DivergesAtTheChange == Ended =>
  LET same(n) == /\ n <= Len(a) /\ n <= Len(b)
                 /\ a[n].key = b[n].key /\ a[n].content = b[n].content
      places  == 1..(IF Len(a) > Len(b) THEN Len(a) ELSE Len(b))
  IN  IF \A n \in places : same(n) THEN FirstDivergence = None
      ELSE /\ FirstDivergence \in places /\ ~same(FirstDivergence)
           /\ \A n \in 1..(FirstDivergence - 1) : same(n)
================================================================================
