------------------------------- MODULE DiffPane -------------------------------
(***************************************************************************)
(* The diff of the Workbench (packages/ui/src/store.ts): picking traces,   *)
(* opening the diff of two, whose spans come by two calls that run at once, *)
(* selecting a pair and closing.                                           *)
(***************************************************************************)
EXTENDS Nothing, Naturals, SequencesExt

CONSTANTS Trace,
          Spans,      \* how many spans each trace has
          MaxOpen,    \* bounds: calls of openDiff under way, failing calls
          MaxErrors

VARIABLES pick,     \* diffPick
          opening,  \* openDiff, in the order of the calls: its traces and the answers so far
          diff,     \* what is shown; pairs by their number only
          inOrder,  \* do answers come in the order of the calls?
          errors,   \* failed calls so far
          last      \* history: the traces of the last openDiff, None once closed

paneVars == <<pick, opening, diff, inOrder, errors, last>>

PaneInit ==
  /\ pick = <<>> /\ opening = <<>>
  /\ diff = [active |-> FALSE, a |-> None, b |-> None, pairs |-> 0, sel |-> 0]
  /\ inOrder \in BOOLEAN /\ errors = 0 /\ last = None

\* A second pick of a trace takes it back; a third trace takes the place of the first.
PickForDiff(t) ==
  /\ pick' = IF t \in Range(pick) THEN SelectSeq(pick, LAMBDA x : x # t)
             ELSE IF Len(pick) = 2 THEN <<pick[2], t>> ELSE Append(pick, t)
  /\ UNCHANGED <<opening, diff, inOrder, errors, last>>

OpenDiff(t, u) ==
  /\ Len(opening) < MaxOpen
  /\ opening' = Append(opening, [a |-> t, b |-> u, na |-> None, nb |-> None])
  /\ last' = <<t, u>>
  /\ UNCHANGED <<pick, diff, inOrder, errors>>

\* `diff' with two picks, or of a branch and its parent, or of any two that are typed.
Diff == \/ Len(pick) = 2 /\ OpenDiff(pick[1], pick[2])
        \/ \E t, u \in Trace : OpenDiff(t, u)

Counts(c) == {c.na, c.nb} \cap Nat = {c.na, c.nb}
\* Every pair has a span of either trace, or of both.
Pairs(c)  == {n \in 0..(c.na + c.nb) : n >= c.na /\ n >= c.nb}

\* Mutant of Show: a diff that is open stays open.
ShowIfClosed(c) ==
  IF diff.active THEN UNCHANGED diff
  ELSE \E n \in Pairs(c) : diff' = [active |-> TRUE, a |-> c.a, b |-> c.b, pairs |-> n, sel |-> 0]

\* The selection goes to the first divergence, and to the first pair if there is none.
Show(c) ==
  \E n \in Pairs(c) : \E s \in 0..(IF n = 0 THEN 0 ELSE n - 1) :
    diff' = [active |-> TRUE, a |-> c.a, b |-> c.b, pairs |-> n, sel |-> s]

\* One of the two calls of the k-th openDiff is answered; with the second it shows.
SpansArrive(k) == \E side \in {"na", "nb"} :
  LET c == [opening[k] EXCEPT ![side] = Spans[IF side = "na" THEN opening[k].a ELSE opening[k].b]]
  IN  /\ opening[k][side] = None /\ (inOrder => k = 1)
      /\ IF Counts(c) THEN Show(c) /\ opening' = RemoveAt(opening, k)
         ELSE UNCHANGED diff /\ opening' = [opening EXCEPT ![k] = c]
      /\ UNCHANGED <<pick, inOrder, errors, last>>

\* One of them fails: nothing changes but the scrollback.
SpansFail(k) ==
  /\ errors < MaxErrors /\ errors' = errors + 1
  /\ opening' = RemoveAt(opening, k)
  /\ UNCHANGED <<pick, diff, inOrder, last>>

CloseDiff ==
  /\ diff.active
  /\ diff' = [diff EXCEPT !.active = FALSE] /\ last' = None
  /\ UNCHANGED <<pick, opening, inOrder, errors>>

SetDiffSel(i) ==
  /\ diff.active
  /\ diff' = [diff EXCEPT !.sel = i]
  /\ UNCHANGED <<pick, opening, inOrder, errors, last>>

PaneNext ==
  \/ \E t \in Trace : PickForDiff(t)
  \/ Diff \/ CloseDiff
  \/ \E k \in DOMAIN opening : SpansArrive(k) \/ SpansFail(k)
  \/ \E i \in 0..(diff.pairs - 1) : SetDiffSel(i)

PaneSpec == PaneInit /\ [][PaneNext]_paneVars

-----------------------------------------------------------------------------
(* Properties *)

\* With answers in the order of the calls and none failing, the diff on display is the
\* last one asked for; only one that was closed while another was on its way comes back.
LastDiffShown ==
  opening = <<>> /\ inOrder /\ errors = 0 /\ last # None => diff.active /\ <<diff.a, diff.b>> = last
================================================================================
