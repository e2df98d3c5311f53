------------------------------ MODULE Navigation ------------------------------
(***************************************************************************)
(* The walk over the spans of the selected trace: the commands next, prev, *)
(* step, finish, continue and where (packages/ui/src/data/nav.ts, with     *)
(* runCommand of store.ts), and the rows of the Trace Tree beside them     *)
(* (data/tree.ts).  A span names its parent, which need not have arrived   *)
(* and may, by a fault of the sender, be one of its own descendants.       *)
(***************************************************************************)
EXTENDS Nothing, Naturals, SequencesExt

CONSTANTS MaxSpans,  \* bound: spans of the trace
          Absent     \* a parent that is not in the trace

ASSUME NavigationAssumption == MaxSpans \in Nat /\ {None, Absent} \cap Nat = {}

VARIABLES parent,   \* parent_span_id of each span
          untimed,  \* the spans without a start time
          order,    \* their preorder, here of one trace only and so computed once
          frames,   \* the siblings that each call of `walk' has ahead, the innermost first
          current   \* selectedSpanId

walked   == <<parent, untimed, order, frames>>
walkVars == <<walked, current>>

\* Spans are numbered by start time and id, and those without a time by id.
SpanId == DOMAIN parent

-----------------------------------------------------------------------------
(* The forest *)

\* Mutant: a span whose parent is not there is nobody's child.
ChildrenPresent(p) == {s \in SpanId : parent[s] = p}

Children(p) == {s \in SpanId : IF parent[s] \in SpanId THEN parent[s] = p ELSE p = None}

\* By start time, a missing one first.
Before(s, t) == IF s \in untimed <=> t \in untimed THEN s < t ELSE s \in untimed

\* As the API lists them, a missing start time last.
Listed(s, t) == IF s \in untimed <=> t \in untimed THEN s < t ELSE t \in untimed

First(S)       == CHOOSE s \in S : \A t \in S \ {s} : Before(s, t)
FirstListed(S) == CHOOSE s \in S : \A t \in S \ {s} : Listed(s, t)

\* Mutant: the first as the API lists them.
FirstChildListed(s) == IF Children(s) = {} THEN None ELSE FirstListed(Children(s))

FirstChild(s) == IF Children(s) = {} THEN None ELSE First(Children(s))

ParentOf(s) == IF parent[s] \in SpanId THEN parent[s] ELSE None

\* pathTo climbs from span to parent ...
above[n \in 0..Cardinality(SpanId)] == [s \in SpanId \cup {None} |->
  IF n = 0 \/ s = None THEN s ELSE above[n - 1][ParentOf(s)]]

\* ... until there is none or one comes round again.
Climb(s) == CHOOSE n \in 1..Cardinality(SpanId) :
  /\ above[n][s] \in {None} \cup {above[m][s] : m \in 0..(n - 1)}
  /\ \A k \in 1..(n - 1) : above[k][s] \notin {None} \cup {above[m][s] : m \in 0..(k - 1)}

PathTo(s) == [k \in 1..Climb(s) |-> above[Climb(s) - k][s]]

\* One step of buildSpanRows, with the spans in closed collapsed: the next row of the
\* innermost loop, and into it, or the loop ends.
AddRow(v, closed) ==
  LET s == FirstListed(Head(v.left))
  IN  IF v.left = <<>> THEN v
      ELSE IF Head(v.left) = {} THEN [v EXCEPT !.left = Tail(@)]
      ELSE [rows |-> Append(v.rows, [span |-> s, depth |-> Len(v.left) - 1]),
            left |-> <<IF s \in closed THEN {} ELSE Children(s), Head(v.left) \ {s}>> \o Tail(v.left)]

\* It has ended after as many steps as there are rows and loops.
Building(closed) ==
  LET build[n \in 0..(2 * Cardinality(SpanId) + 1)] ==
        IF n = 0 THEN [rows |-> <<>>, left |-> <<Children(None)>>] ELSE AddRow(build[n - 1], closed)
  IN  build
TreeRows(closed) == Building(closed)[2 * Cardinality(SpanId) + 1].rows

-----------------------------------------------------------------------------
(* preorder *)

WalkInit ==
  /\ \E n \in 0..MaxSpans : parent \in [1..n -> (1..n) \cup {Absent, None}]
  /\ untimed \in SUBSET SpanId
  /\ order = <<>> /\ frames = <<Children(None)>>
  /\ current = None

\* The next span of the innermost loop, and into it.
Visit ==
  /\ frames # <<>> /\ Head(frames) # {}
  /\ LET s == First(Head(frames))
     IN  /\ order' = Append(order, s)
         /\ frames' = <<Children(s), Head(frames) \ {s}>> \o Tail(frames)
  /\ UNCHANGED <<parent, untimed, current>>

\* The innermost loop ends.
Return ==
  /\ frames # <<>> /\ Head(frames) = {}
  /\ frames' = Tail(frames)
  /\ UNCHANGED <<parent, untimed, order, current>>

-----------------------------------------------------------------------------
(* The commands.  A move is the span it goes to, or None for a message. *)

Walked == frames = <<>>

\* The place of the current span in the order, 0 when it is not there.
Place == IF current \in Range(order) THEN CHOOSE n \in DOMAIN order : order[n] = current ELSE 0

\* order[i - 1], the span itself at the top for a message.
Neighbour(n) == IF n \in DOMAIN order THEN order[n] ELSE None

Move(kind) ==
  IF order = <<>> THEN None
  ELSE IF kind = "finish" THEN IF Place = 0 THEN None ELSE ParentOf(current)
  ELSE IF Place = 0 THEN order[1]
  ELSE CASE kind = "next" -> Neighbour(Place + 1)
         [] kind = "prev" -> Neighbour(Place - 1)
         [] kind = "step" -> IF FirstChild(current) # None THEN FirstChild(current)
                             ELSE Neighbour(Place + 1)

Walks(kind) ==
  /\ Walked /\ Move(kind) # None
  /\ current' = Move(kind)
  /\ UNCHANGED walked

\* `continue': to the next span that an enabled breakpoint hits, or to the last one.
ContinueTo(hits) ==
  LET coming == {n \in DOMAIN order : n > Place /\ order[n] \in hits}
  IN  IF order = <<>> THEN None ELSE IF coming = {} THEN Last(order) ELSE order[Min(coming)]

Continue(hits) ==
  /\ Walked /\ ContinueTo(hits) # None
  /\ current' = ContinueTo(hits)
  /\ UNCHANGED walked

\* A click on a row or on the notice of a hit, which may be at any span.
Select(s) == Walked /\ current' = s /\ UNCHANGED walked

\* There is nothing to go to.
NoSpans == Walked /\ SpanId = {} /\ UNCHANGED walkVars

WalkNext ==
  \/ Visit \/ Return
  \/ \E kind \in {"next", "prev", "step", "finish"} : Walks(kind)
  \/ \E hits \in SUBSET SpanId : Continue(hits)
  \/ \E s \in SpanId : Select(s)
  \/ NoSpans

WalkSpec == WalkInit /\ [][WalkNext]_walkVars

-----------------------------------------------------------------------------
(* Properties *)

\* The spans on the way up from s, which for a cycle come round to s or never reach a root.
Above(s)  == Range(PathTo(s))
Rooted(s) == ParentOf(PathTo(s)[1]) = None
Below(s)  == {t \in SpanId : Rooted(t) /\ s \in Above(t)}

\* `The linear execution order' (nav.ts:20) has every span whose ancestors end in a root
\* once, each followed at once by all that is below it, whether or not its parent came;
\* and none whose ancestors form a cycle.
WalksTheForest ==
  /\ Range(order) = {s \in SpanId : Rooted(s)} /\ IsInjective(order)
  /\ \A n \in DOMAIN order :
       Range(SubSeq(order, n, n + Cardinality(Below(order[n])) - 1)) = Below(order[n])

\* In the walk s comes before t.
Earlier(s, t) == \E m, n \in DOMAIN order : m < n /\ order[m] = s /\ order[n] = t

\* The Trace Tree shows the same forest: with any spans collapsed it has what is below none
\* of them, at the depth `where' gives, and in the walk's order but for spans without a
\* start time (nav.ts:2-3 `regardless of UI collapse state', tree.ts:14-42).
RowsShowTheWalk ==
  \A closed \in SUBSET SpanId :
    LET rows   == TreeRows(closed)
        spans  == [n \in DOMAIN rows |-> rows[n].span]
        open(s) == Above(s) \cap closed \subseteq {s}
    IN  /\ IsInjective(spans) /\ Range(spans) = {s \in Range(order) : open(s)}
        /\ \A n \in DOMAIN rows : rows[n].depth + 1 = Len(PathTo(spans[n]))
        /\ untimed = {} => \A m, n \in DOMAIN rows : m < n => Earlier(spans[m], spans[n])

\* Both views of the forest are right, for every way to be collapsed.  (Neither depends on
\* the selected span: they are looked at once.)
OneForest == Walked /\ current = None => WalksTheForest /\ RowsShowTheWalk

\* `step' goes where `next' goes: into the first child, which the walk has right after the
\* span.  `prev' takes `next' back, and `finish' climbs the path that `where' prints, to a
\* span of the walk and never forward (nav.ts:59-87).
MovesAgree ==
  /\ Move("step") = Move("next")
  /\ \A n \in DOMAIN order : n > 1 /\ current = order[n] => Move("prev") = order[n - 1]
  /\ Move("finish") # None =>
       /\ \E n \in DOMAIN order : n < Place /\ order[n] = Move("finish")
       /\ PathTo(current) = Append(PathTo(Move("finish")), current)

\* `continue' run again and again meets every hit: it passes none over and, short of the
\* end of the trace, always moves forward (store.ts:252-276).
ContinueMeetsEveryHit ==
  LET coming == {n \in DOMAIN order : n > Place}
  IN  \A hits \in SUBSET Range(order) : coming # {} =>
        \E k \in coming : /\ ContinueTo(hits) = order[k]
                          /\ \A n \in coming : order[n] \in hits => n >= k

\* Wherever one stands, also at a span that is not in the walk, all commands move along it.
MovesFollowTheWalk == Walked => MovesAgree /\ ContinueMeetsEveryHit
================================================================================
