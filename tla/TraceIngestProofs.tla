--------------------------- MODULE TraceIngestProofs ---------------------------
(***************************************************************************)
(* The collector's invariants, for every set of spans, batches and workers *)
(* and every interleaving of failures, crashes and repeated deliveries:    *)
(* rows stay linked and acknowledged batches stored; then what follows     *)
(* from that: projects are unique although the schema does not say so,     *)
(* only the handler with the lock writes, the collector implements         *)
(* SpanLog, readers find whole batches, and the aggregates of a trace and  *)
(* the hits of a breakpoint agree with the spans that are stored.          *)
(***************************************************************************)
EXTENDS TraceIngest, FiniteSetTheorems, TLAPS

\* Where a handler stands in its request, and what it has stored by then: the
\* project and trace row its next statements refer to, and the span row its
\* pending child writes refer to.
Placed(w) ==
  /\ job[w].pc # "idle" => job[w].batch \in Batch
  /\ ~Writing(w) => job[w].group = 0 /\ job[w].todo = Nothing
  /\ Writing(w) =>
       /\ job[w].project \in 1..Len(projects)
       /\ job[w].group \in 0..Len(Groups(w))
       /\ job[w].group = 0 => job[w].todo = Nothing
       /\ job[w].group > 0 => /\ job[w].at \in 0..Len(GroupOf(w).spans)
                              /\ traces[GroupOf(w).trace] # NoRow
                              /\ job[w].at = 0 => job[w].todo = Nothing
                              /\ job[w].at > 0 => CurSpan(w) \in spans

Placement == \A w \in Worker : Placed(w)

IInv == TypeOK /\ Placement /\ LockHeldByWriter /\ ReferentialIntegrity

-----------------------------------------------------------------------------
\* What the assumption on the requests says of one span of one group.
LEMMA RequestFacts ==
  ASSUME NEW b \in Batch
  PROVE  /\ Request[b].project \in Project
         /\ Len(Request[b].groups) \in Nat
         /\ \A g \in 1..Len(Request[b].groups) :
              /\ Request[b].groups[g].trace \in Trace
              /\ Len(Request[b].groups[g].spans) \in Nat
              /\ \A i \in 1..Len(Request[b].groups[g].spans) :
                   /\ Request[b].groups[g].spans[i] \in Span
                   /\ Info[Request[b].groups[g].spans[i]].trace = Request[b].groups[g].trace
              /\ Elements(Request[b].groups[g].spans) \subseteq Span
<1>1. Request[b] \in [project : Project, groups : Seq(Group)]
  BY RequestAssumption
<1>2. Request[b].project \in Project /\ Request[b].groups \in Seq(Group)
  BY <1>1
<1>3. ASSUME NEW g \in 1..Len(Request[b].groups)
      PROVE  /\ Request[b].groups[g].trace \in Trace
             /\ Request[b].groups[g].spans \in Seq(Span)
  <2>1. Request[b].groups[g] \in Group
    BY <1>2
  <2> QED BY <2>1 DEF Group
<1>4. ASSUME NEW g \in 1..Len(Request[b].groups),
             NEW i \in 1..Len(Request[b].groups[g].spans)
      PROVE  Request[b].groups[g].spans[i] \in Span
  BY <1>3
<1>5. ASSUME NEW g \in 1..Len(Request[b].groups)
      PROVE  Elements(Request[b].groups[g].spans) \subseteq Span
  BY <1>4 DEF Elements
<1>6. Len(Request[b].groups) \in Nat
  BY <1>2
<1>7. ASSUME NEW g \in 1..Len(Request[b].groups)
      PROVE  Len(Request[b].groups[g].spans) \in Nat
  BY <1>3
<1>8. \A g \in 1..Len(Request[b].groups) : \A i \in 1..Len(Request[b].groups[g].spans) :
        Info[Request[b].groups[g].spans[i]].trace = Request[b].groups[g].trace
  BY RequestAssumption
<1> QED BY <1>2, <1>3, <1>4, <1>5, <1>6, <1>7, <1>8, Zenon

\* The facts of a span are of the kinds the proofs count with.
LEMMA InfoFacts ==
  ASSUME NEW s \in Span
  PROVE  /\ Info[s].trace \in Trace
         /\ Info[s].messages \in Nat
         /\ Info[s].tool \in BOOLEAN
         /\ Info[s].pins \in Hash \cup {NoHash}
  BY InfoAssumption DEF SpanInfo

\* A handler with nothing left to do for its span, and an idle thread, are legal.
LEMMA NothingIsTodo == Nothing \in Todo /\ Idle \in Job
  BY DEF Nothing, Todo, Idle, Job

-----------------------------------------------------------------------------
\* What a writing handler's next statement may refer to.
LEMMA Position ==
  ASSUME TypeOK, Placement, NEW w \in Worker, Writing(w)
  PROVE  /\ job[w].batch \in Batch
         /\ job[w] \in Job
         /\ job[w].group \in Nat /\ job[w].at \in Nat /\ job[w].todo \in Todo
         /\ GroupDone(w) /\ ~AllDone(w) =>
              /\ job[w].group + 1 \in 1..Len(Groups(w))
              /\ Groups(w)[job[w].group + 1].trace \in Trace
              /\ Elements(Groups(w)[job[w].group + 1].spans) \subseteq Span
         /\ MoreSpans(w) =>
              /\ job[w].at + 1 \in 1..Len(GroupOf(w).spans)
              /\ NextSpan(w) \in Span
              /\ Info[NextSpan(w)].trace = GroupOf(w).trace
              /\ traces[GroupOf(w).trace] # NoRow
         /\ job[w].todo # Nothing =>
              /\ job[w].group > 0 /\ job[w].at > 0
              /\ CurSpan(w) \in spans /\ CurSpan(w) \in Span
<1>1. /\ job[w] \in Job /\ job[w].batch \in Batch
  BY DEF TypeOK, Placement, Placed, Writing
<1>2. job[w].group \in Nat /\ job[w].at \in Nat /\ job[w].todo \in Todo
  BY <1>1 DEF Job
<1>3. Placed(w)
  BY DEF Placement
<1> DEFINE b == job[w].batch
<1>4. Len(Groups(w)) \in Nat
  BY <1>1, RequestFacts DEF Groups
<1>5. ASSUME GroupDone(w), ~AllDone(w)
      PROVE  /\ job[w].group + 1 \in 1..Len(Groups(w))
             /\ Groups(w)[job[w].group + 1].trace \in Trace
             /\ Elements(Groups(w)[job[w].group + 1].spans) \subseteq Span
  <2>1. job[w].group # Len(Groups(w))
    BY <1>5 DEF AllDone
  <2>2. job[w].group + 1 \in 1..Len(Groups(w))
    BY <2>1, <1>2, <1>3, <1>4 DEF Placed
  <2> QED
    BY <2>2, <1>1, RequestFacts DEF Groups
<1>6. ASSUME MoreSpans(w)
      PROVE  /\ job[w].at + 1 \in 1..Len(GroupOf(w).spans)
             /\ NextSpan(w) \in Span
             /\ Info[NextSpan(w)].trace = GroupOf(w).trace
             /\ traces[GroupOf(w).trace] # NoRow
  <2>1. job[w].group \in 1..Len(Groups(w)) /\ traces[GroupOf(w).trace] # NoRow
    BY <1>2, <1>3, <1>4, <1>6 DEF MoreSpans, Placed
  <2>2. Len(GroupOf(w).spans) \in Nat
    BY <2>1, <1>1, RequestFacts DEF GroupOf, Groups
  <2>3. job[w].at + 1 \in 1..Len(GroupOf(w).spans)
    BY <2>1, <2>2, <1>2, <1>3, <1>6 DEF MoreSpans, Placed
  <2>4. NextSpan(w) \in Span /\ Info[NextSpan(w)].trace = GroupOf(w).trace
    BY <2>1, <2>3, <1>1, RequestFacts DEF NextSpan, GroupOf, Groups
  <2> QED BY <2>1, <2>3, <2>4
<1>7. ASSUME job[w].todo # Nothing
      PROVE  /\ job[w].group > 0 /\ job[w].at > 0
             /\ CurSpan(w) \in spans /\ CurSpan(w) \in Span
  <2>1. job[w].group \in 1..Len(Groups(w))
    BY <1>2, <1>3, <1>4, <1>7 DEF Placed
  <2>2. job[w].at > 0
    BY <2>1, <1>2, <1>3, <1>7 DEF Placed
  <2>3. CurSpan(w) \in spans /\ CurSpan(w) \in Span
    BY <2>1, <2>2, <1>3 DEF Placed, TypeOK
  <2> QED BY <2>1, <2>2, <2>3
<1> QED BY <1>1, <1>2, <1>5, <1>6, <1>7

\* Rows are never taken away, so a handler that has not moved stays placed.
Grows == /\ Len(projects) <= Len(projects')
         /\ Len(projects) \in Nat /\ Len(projects') \in Nat
         /\ spans \subseteq spans'
         /\ \A t \in Trace : traces[t] # NoRow => traces'[t] # NoRow

\* A handler that does not move stays well placed while rows are only added.
LEMMA PlacedStays ==
  ASSUME TypeOK, Placement, Grows, NEW w \in Worker,
         job'[w].pc = job[w].pc, job'[w].batch = job[w].batch,
         job'[w].project = job[w].project, job'[w].group = job[w].group,
         job'[w].at = job[w].at,
         job'[w].todo = job[w].todo \/ job[w].todo # Nothing
  PROVE  Placed(w)'
<1>1. Placed(w) /\ job[w] \in Job
  BY DEF Placement, TypeOK
<1>2. CASE ~Writing(w)
  BY <1>1, <1>2 DEF Placed, Writing
<1>3. CASE Writing(w)
  <2>1. job[w].project \in 1..Len(projects)
    BY <1>1, <1>3 DEF Placed
  <2>2. job'[w].project \in 1..Len(projects')
    BY <2>1 DEF Grows
  <2>3. job[w].group > 0 => GroupOf(w).trace \in Trace
    BY <1>1, <1>3, RequestFacts DEF Placed, Writing, GroupOf, Groups, Job
  <2>4. job[w].group > 0 => traces'[GroupOf(w).trace] # NoRow
    BY <1>1, <1>3, <2>3 DEF Placed, Grows
  <2>5. Groups(w)' = Groups(w) /\ GroupOf(w)' = GroupOf(w) /\ CurSpan(w)' = CurSpan(w)
    BY DEF Groups, GroupOf, CurSpan
  <2>6. job[w].todo # Nothing => job[w].group > 0 /\ job[w].at > 0
    BY <1>3, Position
  <2>7. job[w].group > 0 /\ job[w].at > 0 => CurSpan(w) \in spans'
    BY <1>1, <1>3 DEF Placed, Grows
  <2> QED
    BY <1>1, <1>3, <2>2, <2>4, <2>5, <2>6, <2>7 DEF Placed, Writing
<1> QED BY <1>2, <1>3

-----------------------------------------------------------------------------
\* The invariant holds of the empty store.
LEMMA InitIInv == Init => IInv
<1> SUFFICES ASSUME Init PROVE IInv
  OBVIOUS
<1>1. TypeOK
  BY NothingIsTodo, ScalarAssumption DEF Init, TypeOK, BreakpointRow
<1>2. Placement /\ LockHeldByWriter
  BY ScalarAssumption DEF Init, Placement, Placed, LockHeldByWriter, Idle, Writing
<1>3. ReferentialIntegrity
  BY DEF Init, ReferentialIntegrity
<1> QED BY <1>1, <1>2, <1>3 DEF IInv

\* The handler's own writes.
LEMMA UpsertTraceIInv ==
  ASSUME IInv, NEW w \in Worker, UpsertTrace(w)
  PROVE  IInv'
<1> DEFINE g == Groups(w)[job[w].group + 1]
           row == [project |-> job[w].project, from |-> Elements(g.spans)]
<1> USE DEF IInv
<1>1. /\ job[w] \in Job /\ job[w].batch \in Batch
      /\ job[w].group + 1 \in 1..Len(Groups(w))
      /\ g.trace \in Trace /\ Elements(g.spans) \subseteq Span
      /\ job[w].todo = Nothing
  BY Position DEF UpsertTrace, GroupDone
<1>2. row \in Row /\ row # NoRow
  BY <1>1, ScalarAssumption DEF Row, Job
<1>3. traces' = [traces EXCEPT ![g.trace] = row]
  BY DEF UpsertTrace
<1>4. job' = [job EXCEPT ![w].group = @ + 1, ![w].at = 0]
  BY DEF UpsertTrace
<1>5. TypeOK'
  <2>0. job[w].group + 1 \in Nat
    BY <1>1 DEF Job
  <2>1. job' \in [Worker -> Job]
    BY <1>1, <1>4, <2>0 DEF TypeOK, Job
  <2>2. traces' \in [Trace -> Row \cup {NoRow}]
    BY <1>2, <1>3 DEF TypeOK
  <2> QED BY <2>1, <2>2 DEF TypeOK, UpsertTrace
<1>6. Grows
  BY <1>1, <1>2, <1>3 DEF Grows, UpsertTrace, TypeOK
<1>7. Placed(w)'
  <2>1. Placed(w) /\ Writing(w)
    BY DEF Placement, UpsertTrace
  <2>2. /\ job'[w].pc = "writing" /\ job'[w].batch = job[w].batch
        /\ job'[w].project = job[w].project
        /\ job'[w].group = job[w].group + 1 /\ job'[w].at = 0 /\ job'[w].todo = Nothing
    BY <1>1, <1>4, <2>1 DEF TypeOK, Job, Writing
  <2>3. GroupOf(w)' = g /\ Groups(w)' = Groups(w)
    BY <2>2 DEF GroupOf, Groups
  <2>4. Len(Groups(w)) \in Nat /\ Len(g.spans) \in Nat
    BY <1>1, RequestFacts DEF Groups
  <2>5. traces'[g.trace] # NoRow
    BY <1>1, <1>2, <1>3 DEF TypeOK
  <2> QED
    BY <1>1, <2>1, <2>2, <2>3, <2>4, <2>5 DEF Placed, Writing, UpsertTrace
<1>8. Placement'
  <2>1. ASSUME NEW v \in Worker, v # w PROVE Placed(v)'
    BY <2>1, <1>4, <1>6, PlacedStays DEF TypeOK
  <2> QED BY <1>7, <2>1 DEF Placement
<1>9. LockHeldByWriter'
  BY <1>1, <1>4 DEF LockHeldByWriter, UpsertTrace, TypeOK, Job
<1>10. ReferentialIntegrity'
  <2>1. \A s \in spans' : traces'[Info[s].trace] # NoRow
    BY <1>6, InfoFacts DEF Grows, UpsertTrace, ReferentialIntegrity, TypeOK
  <2>2. \A t \in Trace : traces'[t] # NoRow => traces'[t].project \in 1..Len(projects')
    BY <1>1, <1>3 DEF UpsertTrace, ReferentialIntegrity, TypeOK, Placement, Placed
  <2> QED BY <2>1, <2>2 DEF ReferentialIntegrity, UpsertTrace
<1> QED BY <1>5, <1>8, <1>9, <1>10

\* A span's row is written when the row of its trace is there.
LEMMA UpsertSpanIInv ==
  ASSUME IInv, NEW w \in Worker, UpsertSpan(w)
  PROVE  IInv'
<1> DEFINE s == NextSpan(w)
           rest == [messages |-> Info[s].messages,
                    tool     |-> Info[s].tool,
                    cache    |-> Info[s].pins # NoHash,
                    hits     |-> Info[s].breaks \cap job[w].watch]
<1> USE DEF IInv
<1>1. /\ job[w] \in Job /\ job[w].batch \in Batch
      /\ s \in Span /\ Info[s].trace = GroupOf(w).trace
      /\ job[w].at \in Nat /\ job[w].at + 1 \in 1..Len(GroupOf(w).spans)
      /\ traces[GroupOf(w).trace] # NoRow
  BY Position DEF UpsertSpan
<1>2. rest \in Todo
  BY <1>1, InfoFacts DEF Todo, Job
<1>3. job' = [job EXCEPT ![w].at = @ + 1, ![w].todo = rest]
  BY DEF UpsertSpan
<1>4. spans' = spans \cup {s}
  BY DEF UpsertSpan
<1>5. /\ job' \in [Worker -> Job]
      /\ \A v \in Worker : v # w => job'[v] = job[v]
  <2>1. job[w].at + 1 \in Nat
    BY <1>1
  <2> HIDE DEF rest
  <2> QED BY <2>1, <1>1, <1>2, <1>3 DEF TypeOK, Job
<1>6. TypeOK'
  BY <1>1, <1>4, <1>5 DEF TypeOK, UpsertSpan
<1>7. Grows
  BY <1>4 DEF Grows, UpsertSpan, TypeOK
<1>8. Placed(w)'
  <2>1. Placed(w) /\ Writing(w) /\ job[w].group > 0
    BY DEF Placement, UpsertSpan, MoreSpans
  <2>2. /\ job'[w].pc = "writing" /\ job'[w].batch = job[w].batch
        /\ job'[w].project = job[w].project
        /\ job'[w].group = job[w].group /\ job'[w].at = job[w].at + 1
    <3> HIDE DEF rest
    <3> QED BY <1>1, <1>3, <2>1 DEF TypeOK, Job, Writing
  <2>3. GroupOf(w)' = GroupOf(w) /\ Groups(w)' = Groups(w) /\ CurSpan(w)' = s
    BY <2>2 DEF GroupOf, Groups, CurSpan, NextSpan
  <2> QED
    BY <1>1, <1>4, <2>1, <2>2, <2>3 DEF Placed, Writing, UpsertSpan
<1>9. Placement'
  <2>1. ASSUME NEW v \in Worker, v # w PROVE Placed(v)'
    BY <2>1, <1>5, <1>7, PlacedStays DEF TypeOK
  <2> QED BY <1>8, <2>1 DEF Placement
<1>10. LockHeldByWriter'
  <2>1. job'[w].pc = job[w].pc
    <3> HIDE DEF rest
    <3> QED BY <1>1, <1>3 DEF TypeOK, Job
  <2> QED BY <1>5, <2>1 DEF LockHeldByWriter, UpsertSpan
<1>11. ReferentialIntegrity'
  BY <1>1, <1>4 DEF ReferentialIntegrity, UpsertSpan
<1> QED BY <1>6, <1>9, <1>10, <1>11

-----------------------------------------------------------------------------
\* The four writes that hang on a span move nothing but the handler's todo.
LEMMA ChildWrite ==
  ASSUME IInv, NEW w \in Worker, Writing(w), job[w].todo # Nothing,
         NEW t \in Todo, Grows, lock' = lock,
         job' = [job EXCEPT ![w].todo = t]
  PROVE  job' \in [Worker -> Job] /\ Placement' /\ LockHeldByWriter'
<1> USE DEF IInv
<1>1. \A v \in Worker : job[v] \in Job
  BY DEF TypeOK
<1>2. /\ job' \in [Worker -> Job]
      /\ \A v \in Worker :
           /\ job'[v].pc = job[v].pc /\ job'[v].batch = job[v].batch
           /\ job'[v].project = job[v].project /\ job'[v].group = job[v].group
           /\ job'[v].at = job[v].at
      /\ \A v \in Worker : job'[v].todo = job[v].todo \/ job[v].todo # Nothing
  BY <1>1 DEF TypeOK, Job
<1>3. Placement'
  BY <1>2, PlacedStays DEF Placement
<1>4. LockHeldByWriter'
  BY <1>2 DEF LockHeldByWriter
<1> QED BY <1>2, <1>3, <1>4

\* A message is written after its span.
LEMMA InsertMessageIInv ==
  ASSUME IInv, NEW w \in Worker, InsertMessage(w)
  PROVE  IInv'
<1> DEFINE t == [job[w].todo EXCEPT !.messages = job[w].todo.messages - 1]
<1> USE DEF IInv
<1>1. Writing(w) /\ job[w].todo # Nothing /\ job[w].todo \in Todo
  BY Position DEF InsertMessage, Nothing
<1>2. CurSpan(w) \in spans /\ CurSpan(w) \in Span
  BY <1>1, Position
<1>3. t \in Todo
  <2>1. job[w].todo.messages - 1 \in Nat
    BY <1>1 DEF Todo, InsertMessage
  <2> QED BY <1>1, <2>1 DEF Todo
<1>4. job' = [job EXCEPT ![w].todo = t]
  BY DEF InsertMessage
<1>5. Grows
  BY DEF Grows, TypeOK, InsertMessage
<1>6. job' \in [Worker -> Job] /\ Placement' /\ LockHeldByWriter'
  BY <1>1, <1>3, <1>4, <1>5, ChildWrite DEF InsertMessage
<1>7. messages' = [messages EXCEPT ![CurSpan(w)] = @ + 1]
  BY DEF InsertMessage
<1>8. TypeOK'
  BY <1>2, <1>6, <1>7 DEF TypeOK, InsertMessage
<1>9. ReferentialIntegrity'
  BY <1>2, <1>7 DEF ReferentialIntegrity, TypeOK, InsertMessage
<1> QED BY <1>6, <1>8, <1>9

\* A tool call is written after its span.
LEMMA InsertToolCallIInv ==
  ASSUME IInv, NEW w \in Worker, InsertToolCall(w)
  PROVE  IInv'
<1> DEFINE t == [job[w].todo EXCEPT !.tool = FALSE]
<1> USE DEF IInv
<1>1. Writing(w) /\ job[w].todo # Nothing /\ job[w].todo \in Todo
  BY Position DEF InsertToolCall, Nothing
<1>2. CurSpan(w) \in spans /\ CurSpan(w) \in Span
  BY <1>1, Position
<1>3. t \in Todo
  BY <1>1 DEF Todo
<1>4. job' = [job EXCEPT ![w].todo = t]
  BY DEF InsertToolCall
<1>5. Grows
  BY DEF Grows, TypeOK, InsertToolCall
<1>6. job' \in [Worker -> Job] /\ Placement' /\ LockHeldByWriter'
  BY <1>1, <1>3, <1>4, <1>5, ChildWrite DEF InsertToolCall
<1>7. toolCalls' = toolCalls \cup {CurSpan(w)}
  BY DEF InsertToolCall
<1>8. TypeOK'
  BY <1>2, <1>6, <1>7 DEF TypeOK, InsertToolCall
<1>9. ReferentialIntegrity'
  BY <1>2, <1>7 DEF ReferentialIntegrity, InsertToolCall
<1> QED BY <1>6, <1>8, <1>9

\* The cache refers to no row and disturbs none.
LEMMA UpsertLlmCacheIInv ==
  ASSUME IInv, NEW w \in Worker, UpsertLlmCache(w)
  PROVE  IInv'
<1> DEFINE t == [job[w].todo EXCEPT !.cache = FALSE]
<1> USE DEF IInv
<1>1. Writing(w) /\ job[w].todo # Nothing /\ job[w].todo \in Todo
  BY Position DEF UpsertLlmCache, CacheNext, Nothing
<1>2. CurSpan(w) \in spans /\ CurSpan(w) \in Span
  BY <1>1, Position
<1>3. t \in Todo
  BY <1>1 DEF Todo
<1>4. job' = [job EXCEPT ![w].todo = t]
  BY DEF UpsertLlmCache
<1>5. Grows
  BY DEF Grows, TypeOK, UpsertLlmCache
<1>6. job' \in [Worker -> Job] /\ Placement' /\ LockHeldByWriter'
  BY <1>1, <1>3, <1>4, <1>5, ChildWrite DEF UpsertLlmCache
<1>7. llmCache' = [llmCache EXCEPT ![Info[CurSpan(w)].pins] = CurSpan(w)]
  BY DEF UpsertLlmCache
<1>8. TypeOK'
  BY <1>2, <1>6, <1>7 DEF TypeOK, UpsertLlmCache
<1>9. ReferentialIntegrity'
  BY <1>2, <1>7 DEF ReferentialIntegrity, TypeOK, UpsertLlmCache
<1> QED BY <1>6, <1>8, <1>9

\* A hit changes a breakpoint, which refers to no row.
LEMMA RecordBreakpointHitIInv ==
  ASSUME IInv, NEW w \in Worker, NEW b \in Breakpoint, RecordBreakpointHit(w, b)
  PROVE  IInv'
<1> DEFINE t == [job[w].todo EXCEPT !.hits = job[w].todo.hits \ {b}]
<1> USE DEF IInv
<1>1. Writing(w) /\ job[w].todo # Nothing /\ job[w].todo \in Todo
  BY Position DEF RecordBreakpointHit, HitsNext, Nothing
<1>2. CurSpan(w) \in spans /\ CurSpan(w) \in Span
  BY <1>1, Position
<1>3. t \in Todo
  BY <1>1 DEF Todo
<1>4. job' = [job EXCEPT ![w].todo = t]
  BY DEF RecordBreakpointHit
<1>5. Grows
  BY DEF Grows, TypeOK, RecordBreakpointHit
<1>6. job' \in [Worker -> Job] /\ Placement' /\ LockHeldByWriter'
  BY <1>1, <1>3, <1>4, <1>5, ChildWrite DEF RecordBreakpointHit
<1>7. /\ breakpoints' \in [Breakpoint -> BreakpointRow]
      /\ \A k \in Breakpoint : breakpoints'[k].last \in {breakpoints[k].last, CurSpan(w)}
  <2>1. CASE UNCHANGED breakpoints
    BY <2>1 DEF TypeOK
  <2>2. CASE breakpoints' = [breakpoints EXCEPT ![b].hits = @ + 1, ![b].last = CurSpan(w)]
    <3>1. \A k \in Breakpoint : breakpoints[k] \in BreakpointRow
      BY DEF TypeOK
    <3>2. breakpoints[b].hits + 1 \in Nat
      BY <3>1 DEF BreakpointRow
    <3> QED BY <1>2, <2>2, <3>1, <3>2 DEF TypeOK, BreakpointRow
  <2> QED BY <2>1, <2>2 DEF RecordBreakpointHit
<1>8. TypeOK'
  BY <1>6, <1>7 DEF TypeOK, RecordBreakpointHit
<1>9. ReferentialIntegrity'
  BY <1>2, <1>7 DEF ReferentialIntegrity, RecordBreakpointHit
<1> QED BY <1>6, <1>8, <1>9

-----------------------------------------------------------------------------
\* Taking the call, taking the lock, finding the project.
LEMMA BeginIInv ==
  ASSUME IInv, NEW w \in Worker,
         Acquire(w) \/ LookupProject(w) \/ InsertProject(w) \/ \E b \in Batch : Receive(w, b)
  PROVE  IInv'
<1> USE DEF IInv
<1>1. job[w] \in Job /\ Placed(w)
  BY DEF TypeOK, Placement
<1>2. CASE Acquire(w)
  <2>1. /\ job' \in [Worker -> Job] /\ \A v \in Worker : v # w => job'[v] = job[v]
        /\ job'[w].pc = "project" /\ job'[w].batch = job[w].batch
    BY <1>1, <1>2 DEF Acquire, TypeOK, Job
  <2>2. Grows
    BY <1>2 DEF Acquire, store, Grows, TypeOK
  <2>3. Placement'
    <3>1. Placed(w)'
      BY <1>1, <1>2, <2>1 DEF Placed, Acquire, Writing
    <3>2. ASSUME NEW v \in Worker, v # w PROVE Placed(v)'
      BY <2>1, <2>2, <3>2, PlacedStays
    <3> QED BY <3>1, <3>2 DEF Placement
  <2>4. LockHeldByWriter'
    BY <1>2, <2>1, ScalarAssumption DEF Acquire, LockHeldByWriter
  <2> QED BY <1>2, <2>1, <2>3, <2>4 DEF Acquire, store, TypeOK, ReferentialIntegrity
<1>3. CASE LookupProject(w)
  <2>1. /\ job' \in [Worker -> Job] /\ \A v \in Worker : v # w => job'[v] = job[v]
        /\ job'[w].batch = job[w].batch
        /\ job'[w].group = job[w].group /\ job'[w].at = job[w].at /\ job'[w].todo = job[w].todo
        /\ \/ job'[w].pc = "writing" /\ job'[w].project \in 1..Len(projects)
           \/ job'[w].pc = "insert"
    <3>1. CASE job' = [job EXCEPT ![w].pc = "insert"]
      BY <1>1, <3>1 DEF TypeOK, Job
    <3>2. CASE \E p \in 1..Len(projects) :
                 job' = [job EXCEPT ![w].pc = "writing", ![w].project = p]
      <4>1. PICK p \in 1..Len(projects) :
                 job' = [job EXCEPT ![w].pc = "writing", ![w].project = p]
        BY <3>2
      <4>2. p \in Nat
        OBVIOUS
      <4> QED BY <1>1, <4>1, <4>2 DEF TypeOK, Job
    <3> QED BY <1>3, <3>1, <3>2 DEF LookupProject
  <2>2. Grows
    BY <1>3 DEF LookupProject, store, Grows, TypeOK
  <2>3. Placement'
    <3>1. Placed(w)'
      BY <1>1, <1>3, <2>1, RequestFacts DEF Placed, LookupProject, Writing, store, Groups
    <3>2. ASSUME NEW v \in Worker, v # w PROVE Placed(v)'
      BY <2>1, <2>2, <3>2, PlacedStays
    <3> QED BY <3>1, <3>2 DEF Placement
  <2>4. LockHeldByWriter'
    BY <1>3, <2>1 DEF LookupProject, LockHeldByWriter
  <2> QED BY <1>3, <2>1, <2>3, <2>4 DEF LookupProject, store, TypeOK, ReferentialIntegrity
<1>4. CASE InsertProject(w)
  <2>1. Len(projects) \in Nat /\ Request[job[w].batch].project \in Project
    BY <1>1, <1>4, RequestFacts DEF InsertProject, Placed, TypeOK
  <2>2. projects' \in Seq(Project) /\ Len(projects') = Len(projects) + 1
    BY <1>4, <2>1 DEF InsertProject, TypeOK
  <2>3. /\ job' \in [Worker -> Job] /\ \A v \in Worker : v # w => job'[v] = job[v]
        /\ job'[w].pc = "writing" /\ job'[w].batch = job[w].batch
        /\ job'[w].group = job[w].group /\ job'[w].todo = job[w].todo
        /\ job'[w].project = Len(projects) + 1
    <3>1. Len(projects) + 1 \in Nat
      BY <2>1
    <3> QED BY <1>1, <1>4, <3>1 DEF InsertProject, TypeOK, Job
  <2>4. Grows
    BY <1>4, <2>1, <2>2 DEF InsertProject, Grows
  <2>5. Placement'
    <3>1. Placed(w)'
      BY <1>1, <1>4, <2>1, <2>2, <2>3, RequestFacts DEF Placed, InsertProject, Writing, Groups
    <3>2. ASSUME NEW v \in Worker, v # w PROVE Placed(v)'
      BY <2>3, <2>4, <3>2, PlacedStays
    <3> QED BY <3>1, <3>2 DEF Placement
  <2>6. LockHeldByWriter'
    BY <1>4, <2>3 DEF InsertProject, LockHeldByWriter
  <2>7. TypeOK'
    BY <1>4, <2>2, <2>3 DEF InsertProject, TypeOK
  <2>8. ReferentialIntegrity'
    BY <1>4, <2>1, <2>2 DEF InsertProject, ReferentialIntegrity
  <2> QED BY <2>5, <2>6, <2>7, <2>8
<1>5. ASSUME NEW b \in Batch, Receive(w, b) PROVE IInv'
  <2>0. /\ job[w] = Idle /\ UNCHANGED <<store, lock, attempts>>
        /\ client' = [client EXCEPT ![b] = "received"]
        /\ job' = [job EXCEPT ![w].pc = "waiting", ![w].batch = b, ![w].heard = TRUE]
    BY <1>5, Zenon DEF Receive
  <2>1. /\ job' \in [Worker -> Job] /\ \A v \in Worker : v # w => job'[v] = job[v]
        /\ job[w] = Idle
        /\ job'[w].pc = "waiting" /\ job'[w].batch = b
        /\ job'[w].group = 0 /\ job'[w].todo = Nothing
    <3>1. Idle.group = 0 /\ Idle.todo = Nothing
      BY DEF Idle
    <3> QED BY <1>1, <2>0, <3>1 DEF TypeOK, Job
  <2>2. Grows
    BY <2>0 DEF store, Grows, TypeOK
  <2>3. Placement'
    <3>1. Placed(w)'
      BY <2>1 DEF Placed, Writing
    <3>2. ASSUME NEW v \in Worker, v # w PROVE Placed(v)'
      BY <2>1, <2>2, <3>2, PlacedStays
    <3> QED BY <3>1, <3>2 DEF Placement
  <2>4. LockHeldByWriter'
    BY <2>0, <2>1 DEF LockHeldByWriter, Idle
  <2> QED BY <2>0, <2>1, <2>3, <2>4 DEF store, TypeOK, ReferentialIntegrity
<1> QED BY <1>2, <1>3, <1>4, <1>5

\* A request ends: answered, failed, or killed with the process.
LEMMA EndIInv ==
  ASSUME IInv, Crash \/ \E w \in Worker : Reply(w) \/ StatementFails(w)
  PROVE  IInv'
<1> USE DEF IInv
<1>1. UNCHANGED store /\ lock' = Free /\ UNCHANGED attempts
  BY DEF Crash, Reply, StatementFails
<1>2. Grows
  BY <1>1 DEF store, Grows, TypeOK
<1>3. client' \in [Batch -> {"queued", "sent", "received", "acked", "dropped"}]
  <2>1. CASE Crash
    BY <2>1 DEF Crash, AfterLoss, TypeOK
  <2>2. ASSUME NEW w \in Worker, Reply(w) \/ StatementFails(w)
        PROVE  client' \in [Batch -> {"queued", "sent", "received", "acked", "dropped"}]
    BY <2>2 DEF Reply, StatementFails, TypeOK
  <2> QED BY <2>1, <2>2
<1> DEFINE Ended(v) == job'[v] = Idle \/ (job'[v] = job[v] /\ lock # v)
<1>4. job' \in [Worker -> Job] /\ \A v \in Worker : Ended(v)
  <2>1. CASE Crash
    BY <2>1, NothingIsTodo DEF Crash, TypeOK
  <2>2. CASE \E w \in Worker : Reply(w) \/ StatementFails(w)
    <3>1. PICK w \in Worker : Reply(w) \/ StatementFails(w)
      BY <2>2
    <3>2. job[w].pc \in {"project", "insert", "writing"} /\ job' = [job EXCEPT ![w] = Idle]
      BY <3>1 DEF Reply, StatementFails, FailureAllowed, Writing
    <3>3. lock = w
      BY <3>2 DEF LockHeldByWriter
    <3> QED BY <3>2, <3>3, NothingIsTodo, ScalarAssumption DEF TypeOK
  <2> QED BY <2>1, <2>2
<1>5. Placement'
  <2>1. ASSUME NEW v \in Worker PROVE Placed(v)'
    <3>1. CASE job'[v] = Idle
      BY <3>1 DEF Placed, Writing, Idle
    <3>2. CASE job'[v] = job[v]
      BY <3>2, <1>2, PlacedStays
    <3> QED BY <3>1, <3>2, <1>4
  <2> QED BY <2>1 DEF Placement
<1>6. LockHeldByWriter'
  BY <1>1, <1>4, ScalarAssumption DEF LockHeldByWriter, Idle
<1> QED BY <1>1, <1>3, <1>4, <1>5, <1>6 DEF store, TypeOK, ReferentialIntegrity

\* The exporter's own steps and the breakpoint routes of the HTTP API.
LEMMA OutsideIInv ==
  ASSUME IInv,
         \/ \E b \in Batch : Send(b) \/ GiveUp(b)
         \/ \E b \in Breakpoint : AddBreakpoint(b) \/ DeleteBreakpoint(b)
         \/ UNCHANGED vars
  PROVE  IInv'
<1> USE DEF IInv
<1>1. lock' = lock
  BY DEF Send, GiveUp, AddBreakpoint, DeleteBreakpoint, vars
<1>2. /\ job' \in [Worker -> Job]
      /\ \A v \in Worker :
           /\ job'[v].pc = job[v].pc /\ job'[v].batch = job[v].batch
           /\ job'[v].project = job[v].project /\ job'[v].group = job[v].group
           /\ job'[v].at = job[v].at /\ job'[v].todo = job[v].todo
  <2>1. ASSUME NEW b \in Batch, GiveUp(b) PROVE <1>2!1 /\ <1>2!2
    <3>1. \A v \in Worker : job[v] \in Job
      BY DEF TypeOK
    <3> QED BY <2>1, <3>1 DEF GiveUp, Job
  <2>2. CASE UNCHANGED job
    BY <2>2 DEF TypeOK
  <2> QED BY <2>1, <2>2 DEF Send, AddBreakpoint, DeleteBreakpoint, vars
<1>3. /\ projects' \in Seq(Project) /\ Len(projects) \in Nat /\ Len(projects') \in Nat
      /\ Len(projects) <= Len(projects')
  <2>1. CASE UNCHANGED projects
    BY <2>1 DEF TypeOK
  <2>2. CASE projects = <<>> /\ projects' = <<DefaultProject>>
    BY <2>2, ScalarAssumption
  <2> QED BY <2>1, <2>2 DEF Send, GiveUp, AddBreakpoint, DeleteBreakpoint, store, vars
<1>4. /\ breakpoints' \in [Breakpoint -> BreakpointRow]
      /\ \A k \in Breakpoint : breakpoints'[k].last \in {breakpoints[k].last, NoSpan}
  <2>0. \A k \in Breakpoint : breakpoints[k] \in BreakpointRow
    BY DEF TypeOK
  <2>1. CASE UNCHANGED breakpoints
    BY <2>1 DEF TypeOK
  <2>2. ASSUME NEW b \in Breakpoint, AddBreakpoint(b) PROVE <1>4!1 /\ <1>4!2
    <3>1. CASE breakpoints' = [breakpoints EXCEPT ![b].state = "enabled"]
      BY <2>0, <3>1 DEF TypeOK, BreakpointRow
    <3> QED BY <2>1, <2>2, <3>1, Zenon DEF AddBreakpoint
  <2>3. ASSUME NEW b \in Breakpoint, DeleteBreakpoint(b) PROVE <1>4!1 /\ <1>4!2
    <3> DEFINE gone == [state |-> "deleted", hits |-> 0, last |-> NoSpan]
    <3>1. gone \in BreakpointRow /\ gone.last = NoSpan
      BY DEF BreakpointRow
    <3>2. breakpoints' = [breakpoints EXCEPT ![b] = gone]
      BY <2>3 DEF DeleteBreakpoint
    <3> HIDE DEF gone
    <3> QED BY <2>0, <3>1, <3>2 DEF TypeOK
  <2>4. CASE (\E b \in Batch : Send(b) \/ GiveUp(b)) \/ UNCHANGED vars
    <3>1. UNCHANGED breakpoints
      BY <2>4, Zenon DEF Send, GiveUp, store, vars
    <3> QED BY <2>1, <3>1
  <2> QED BY <2>2, <2>3, <2>4, Zenon
<1>5. UNCHANGED <<traces, spans, messages, toolCalls, llmCache>>
  BY DEF Send, GiveUp, AddBreakpoint, DeleteBreakpoint, store, vars
<1>6. /\ client' \in [Batch -> {"queued", "sent", "received", "acked", "dropped"}]
      /\ attempts' \in [Batch -> Nat]
  <2>1. ASSUME NEW b \in Batch, Send(b) PROVE <1>6!1 /\ <1>6!2
    BY <2>1 DEF Send, TypeOK
  <2>2. ASSUME NEW b \in Batch, GiveUp(b) PROVE <1>6!1 /\ <1>6!2
    <3>1. client' = [client EXCEPT ![b] = AfterLoss(b)] /\ attempts' = attempts
      BY <2>2, Zenon DEF GiveUp
    <3> QED BY <3>1 DEF AfterLoss, TypeOK
  <2>3. CASE UNCHANGED <<client, attempts>>
    BY <2>3 DEF TypeOK
  <2>4. CASE (\E b \in Breakpoint : AddBreakpoint(b) \/ DeleteBreakpoint(b)) \/ UNCHANGED vars
    BY <2>3, <2>4 DEF AddBreakpoint, DeleteBreakpoint, vars
  <2> QED BY <2>1, <2>2, <2>4
<1>7. Grows
  BY <1>3, <1>5 DEF Grows
<1>8. Placement'
  BY <1>2, <1>7, PlacedStays DEF Placement
<1>9. LockHeldByWriter'
  BY <1>1, <1>2 DEF LockHeldByWriter
<1>10. TypeOK'
  BY <1>1, <1>2, <1>3, <1>4, <1>5, <1>6 DEF TypeOK
<1>11. ReferentialIntegrity'
  BY <1>3, <1>4, <1>5 DEF ReferentialIntegrity
<1> QED BY <1>8, <1>9, <1>10, <1>11

\* Every step keeps the invariant.
LEMMA NextIInv == IInv /\ [Next]_vars => IInv'
<1> SUFFICES ASSUME IInv, [Next]_vars PROVE IInv'
  OBVIOUS
<1>1. ASSUME NEW w \in Worker, Handle(w) PROVE IInv'
  BY <1>1, BeginIInv, UpsertTraceIInv, UpsertSpanIInv, InsertMessageIInv,
     InsertToolCallIInv, UpsertLlmCacheIInv, RecordBreakpointHitIInv, EndIInv
     DEF Handle
<1>2. ASSUME NEW b \in Batch, Exporter(b) PROVE IInv'
  BY <1>2, BeginIInv, OutsideIInv DEF Exporter
<1>3. CASE Crash
  BY <1>3, EndIInv
<1>4. ASSUME NEW b \in Breakpoint, AddBreakpoint(b) \/ DeleteBreakpoint(b) PROVE IInv'
  BY <1>4, OutsideIInv
<1>5. CASE UNCHANGED vars
  BY <1>5, OutsideIInv
<1> QED BY <1>1, <1>2, <1>3, <1>4, <1>5 DEF Next

\* The collector's tables stay well-typed for any requests, workers and faults.
THEOREM TypeCorrect == Spec => []TypeOK
<1>1. IInv => TypeOK
  BY DEF IInv
<1> QED BY <1>1, InitIInv, NextIInv, PTL DEF Spec

\* No row ever refers to a missing row, although the schema has no foreign keys
\* and any statement may be the last one its handler runs.
THEOREM RowsStayLinked == Spec => []ReferentialIntegrity
<1>1. IInv => ReferentialIntegrity
  BY DEF IInv
<1> QED BY <1>1, InitIInv, NextIInv, PTL DEF Spec

\* The store lock is held by exactly the handler that is between its first and
\* its last statement.
THEOREM OneWriterAtATime == Spec => []LockHeldByWriter
<1>1. IInv => LockHeldByWriter
  BY DEF IInv
<1> QED BY <1>1, InitIInv, NextIInv, PTL DEF Spec

-----------------------------------------------------------------------------
(* Durability: an acknowledged batch is stored, all of it, for good. *)

\* No statement of any handler takes anything from a stored span.
Kept == /\ spans \subseteq spans'
        /\ \A s \in Span : messages'[s] >= messages[s]
        /\ toolCalls \subseteq toolCalls'
        /\ \A h \in Hash : llmCache[h] # NoSpan => llmCache'[h] # NoSpan

\* No step takes anything of a span away.
LEMMA NextKeeps ==
  ASSUME IInv, [Next]_vars
  PROVE  Kept
<1> USE DEF IInv
<1>1. \A s \in Span : messages[s] \in Nat
  BY DEF TypeOK
<1>2. CASE UNCHANGED <<spans, messages, toolCalls, llmCache>>
  BY <1>1, <1>2 DEF Kept
<1>3. ASSUME NEW w \in Worker, UpsertSpan(w) PROVE Kept
  BY <1>1, <1>3 DEF UpsertSpan, Kept
<1>4. ASSUME NEW w \in Worker, InsertMessage(w) PROVE Kept
  <2>1. \A s \in Span : messages'[s] >= messages[s]
    BY <1>1, <1>4 DEF InsertMessage, TypeOK
  <2> QED BY <1>4, <2>1 DEF InsertMessage, Kept
<1>5. ASSUME NEW w \in Worker, InsertToolCall(w) PROVE Kept
  BY <1>1, <1>5 DEF InsertToolCall, Kept
<1>6. ASSUME NEW w \in Worker, UpsertLlmCache(w) PROVE Kept
  <2>1. CurSpan(w) \in Span
    BY <1>6, Position DEF UpsertLlmCache, CacheNext, Nothing
  <2>2. \A h \in Hash : llmCache[h] # NoSpan => llmCache'[h] # NoSpan
    BY <1>6, <2>1, ScalarAssumption DEF UpsertLlmCache, TypeOK
  <2> QED BY <1>1, <1>6, <2>2 DEF UpsertLlmCache, Kept
<1>7. ASSUME NEW w \in Worker, Handle(w) PROVE Kept
  BY <1>2, <1>3, <1>4, <1>5, <1>6, <1>7, Zenon
     DEF Handle, Acquire, LookupProject, InsertProject, UpsertTrace,
         RecordBreakpointHit, Reply, StatementFails, store
<1>8. ASSUME NEW b \in Batch, Exporter(b) PROVE Kept
  BY <1>2, <1>8, Zenon DEF Exporter, Send, GiveUp, Receive, store
<1>9. CASE Crash
  BY <1>2, <1>9, Zenon DEF Crash, store
<1>10. ASSUME NEW b \in Breakpoint, AddBreakpoint(b) \/ DeleteBreakpoint(b) PROVE Kept
  BY <1>2, <1>10, Zenon DEF AddBreakpoint, DeleteBreakpoint
<1>11. CASE UNCHANGED vars
  BY <1>2, <1>11, Zenon DEF vars
<1> QED BY <1>7, <1>8, <1>9, <1>10, <1>11 DEF Next

\* A span that is stored whole stays so.
LEMMA CompleteStays ==
  ASSUME IInv, Kept, TypeOK', NEW s \in Span, Complete(s)
  PROVE  Complete(s)'
<1>1. messages[s] \in Nat /\ messages'[s] \in Nat /\ Info[s].messages \in Nat
  BY InfoFacts DEF IInv, TypeOK
<1>2. Info[s].pins # NoHash => Info[s].pins \in Hash
  BY InfoFacts
<1> QED BY <1>1, <1>2 DEF Kept, Complete

\* What is stored of the span at hand and what `todo' still owes it.
Owed(w) ==
  LET s == CurSpan(w)
  IN  /\ s \in spans
      /\ messages[s] + job[w].todo.messages >= Info[s].messages
      /\ Info[s].tool => s \in toolCalls \/ job[w].todo.tool
      /\ Info[s].pins # NoHash => llmCache[Info[s].pins] # NoSpan \/ job[w].todo.cache

\* The spans of the groups a handler is done with, those before the current
\* span in its own group, and all of the groups it has begun.
Earlier(w) == UNION {Elements(Groups(w)[g].spans) : g \in 1..(job[w].group - 1)}
Past(w)    == Earlier(w) \cup
              {s \in Span : job[w].group > 0 /\ \E i \in 1..(job[w].at - 1) : s = GroupOf(w).spans[i]}
Begun(w)   == UNION {Elements(Groups(w)[g].spans) : g \in 1..job[w].group}

\* What a writing handler has left behind is complete, but for what it owes.
Behind(w) ==
  Writing(w) => /\ \A s \in Past(w) : Complete(s)
                /\ job[w].group > 0 /\ job[w].at > 0 => Owed(w)

DInv == IInv /\ AckedIsDurable /\ \A w \in Worker : Behind(w)

\* All the spans of a batch are spans.
LEMMA BatchSpans ==
  ASSUME NEW b \in Batch
  PROVE  SpansOf(b) \subseteq Span
  BY RequestFacts DEF SpansOf

\* The spans a handler has passed are spans of its batch.
LEMMA PastSpans ==
  ASSUME IInv, NEW w \in Worker, Writing(w)
  PROVE  Past(w) \subseteq Span
<1>1. /\ job[w].batch \in Batch /\ job[w].group \in Nat /\ Placed(w)
  BY Position DEF IInv, Placement
<1>2. Len(Groups(w)) \in Nat
  BY <1>1, RequestFacts DEF Groups
<1>3. ASSUME NEW g \in 1..(job[w].group - 1)
      PROVE  Elements(Groups(w)[g].spans) \subseteq Span
  <2>1. g \in 1..Len(Groups(w))
    BY <1>1, <1>2 DEF Placed
  <2> QED BY <1>1, <2>1, RequestFacts DEF Groups
<1> QED BY <1>3 DEF Past, Earlier

\* A span that is owed nothing is complete.
LEMMA OwedNothing ==
  ASSUME IInv, NEW w \in Worker, Owed(w), job[w].todo = Nothing
  PROVE  Complete(CurSpan(w))
<1>1. CurSpan(w) \in Span
  BY DEF Owed, IInv, TypeOK
<1>2. messages[CurSpan(w)] \in Nat /\ Info[CurSpan(w)].messages \in Nat
  BY <1>1, InfoFacts DEF IInv, TypeOK
<1>3. job[w].todo.messages = 0 /\ ~job[w].todo.tool /\ ~job[w].todo.cache
  BY DEF Nothing
<1> QED BY <1>2, <1>3 DEF Owed, Complete

\* At the end of a group everything begun is complete.
LEMMA BegunComplete ==
  ASSUME IInv, NEW w \in Worker, Writing(w), Behind(w), GroupDone(w)
  PROVE  \A s \in Begun(w) : Complete(s)
<1>1. /\ job[w].batch \in Batch /\ job[w].group \in Nat /\ job[w].at \in Nat
      /\ Placed(w)
  BY Position DEF IInv, Placement
<1>2. ASSUME job[w].group > 0, NEW s \in Elements(GroupOf(w).spans)
      PROVE  Complete(s)
  <2>1. job[w].group \in 1..Len(Groups(w)) /\ job[w].at = Len(GroupOf(w).spans)
    BY <1>1, <1>2, RequestFacts DEF Placed, GroupDone, Groups
  <2>2. PICK i \in 1..Len(GroupOf(w).spans) : s = GroupOf(w).spans[i]
    BY <1>2 DEF Elements
  <2>3. CASE i = job[w].at
    <3>1. job[w].at > 0 /\ s = CurSpan(w)
      BY <2>1, <2>2, <2>3 DEF CurSpan
    <3> QED BY <3>1, <1>2, OwedNothing DEF Behind, GroupDone
  <2>4. CASE i # job[w].at
    <3>1. i \in 1..(job[w].at - 1)
      BY <1>1, <2>1, <2>2, <2>4
    <3>2. s \in Span
      BY <1>1, <2>1, <2>2, RequestFacts DEF GroupOf, Groups
    <3>3. s \in Past(w)
      BY <3>1, <3>2, <1>2, <2>2 DEF Past
    <3> QED BY <3>3 DEF Behind
  <2> QED BY <2>3, <2>4
<1>3. ASSUME NEW g \in 1..job[w].group, NEW s \in Elements(Groups(w)[g].spans)
      PROVE  Complete(s)
  <2>1. CASE g = job[w].group
    BY <1>1, <1>2, <1>3, <2>1 DEF GroupOf
  <2>2. CASE g # job[w].group
    <3>1. g \in 1..(job[w].group - 1)
      BY <1>1, <2>2
    <3> QED BY <3>1, <1>3 DEF Behind, Past, Earlier
  <2> QED BY <2>1, <2>2
<1> QED BY <1>3 DEF Begun

\* A handler that has not moved leaves the same spans behind it; only what it
\* owes to the current one has to be shown again.
LEMMA BehindStays ==
  ASSUME IInv, IInv', Kept, NEW w \in Worker, Behind(w),
         job'[w].pc = job[w].pc, job'[w].batch = job[w].batch,
         job'[w].group = job[w].group, job'[w].at = job[w].at,
         job'[w].todo = job[w].todo \/ Owed(w)'
  PROVE  Behind(w)'
<1> SUFFICES ASSUME Writing(w) PROVE Behind(w)'
  BY DEF Behind, Writing
<1>1. /\ Groups(w)' = Groups(w) /\ GroupOf(w)' = GroupOf(w) /\ CurSpan(w)' = CurSpan(w)
      /\ Past(w)' = Past(w)
  BY DEF Groups, GroupOf, CurSpan, Past, Earlier
<1>2. \A s \in Past(w) : Complete(s)'
  BY PastSpans, CompleteStays DEF Behind, IInv
<1>3. ASSUME job[w].group > 0, job[w].at > 0, job'[w].todo = job[w].todo PROVE Owed(w)'
  <2>1. Owed(w) /\ CurSpan(w) \in Span
    BY <1>3 DEF Behind, Owed, IInv, TypeOK
  <2>2. /\ messages[CurSpan(w)] \in Nat /\ messages'[CurSpan(w)] \in Nat
        /\ Info[CurSpan(w)].messages \in Nat /\ job[w].todo.messages \in Nat
        /\ messages'[CurSpan(w)] >= messages[CurSpan(w)]
    BY <2>1, InfoFacts, Position DEF IInv, TypeOK, Kept, Todo
  <2>3. Info[CurSpan(w)].pins # NoHash => Info[CurSpan(w)].pins \in Hash
    BY <2>1, InfoFacts
  <2> QED BY <1>1, <1>3, <2>1, <2>2, <2>3 DEF Owed, Kept
<1> QED BY <1>1, <1>2, <1>3 DEF Behind

-----------------------------------------------------------------------------
\* The writes of one handler.
LEMMA WriteBehind ==
  ASSUME DInv, IInv', Kept, NEW w \in Worker,
         \/ UpsertTrace(w) \/ UpsertSpan(w) \/ InsertMessage(w) \/ InsertToolCall(w)
         \/ UpsertLlmCache(w) \/ \E b \in Breakpoint : RecordBreakpointHit(w, b)
  PROVE  Behind(w)'
<1> USE DEF DInv
<1>1. Writing(w) /\ Behind(w) /\ job[w] \in Job /\ job[w].todo \in Todo /\ TypeOK'
  BY Position DEF UpsertTrace, UpsertSpan, InsertMessage, InsertToolCall,
     UpsertLlmCache, RecordBreakpointHit, IInv
<1>2. job[w].group \in Nat /\ job[w].at \in Nat
  BY <1>1 DEF Job
<1>3. CASE UpsertTrace(w)
  <2>1. /\ job'[w].group = job[w].group + 1 /\ job'[w].at = 0
        /\ job'[w].batch = job[w].batch
    BY <1>1, <1>3 DEF UpsertTrace, IInv, TypeOK, Job
  <2>2. Past(w)' = Begun(w)
    BY <1>2, <2>1 DEF Past, Earlier, Begun, Groups
  <2>3. Begun(w) \subseteq Span /\ \A s \in Begun(w) : Complete(s)
    BY <1>1, <1>3, BegunComplete, PastSpans DEF UpsertTrace, Complete, IInv, TypeOK
  <2>4. \A s \in Begun(w) : Complete(s)'
    BY <1>1, <2>3, CompleteStays
  <2> QED BY <2>1, <2>2, <2>4 DEF Behind
<1>4. CASE UpsertSpan(w)
  <2> DEFINE s == NextSpan(w)
             rest == [messages |-> Info[s].messages,
                      tool     |-> Info[s].tool,
                      cache    |-> Info[s].pins # NoHash,
                      hits     |-> Info[s].breaks \cap job[w].watch]
  <2>1. /\ job' = [job EXCEPT ![w].at = @ + 1, ![w].todo = rest]
        /\ spans' = spans \cup {s} /\ UNCHANGED messages
    BY <1>4 DEF UpsertSpan
  <2>2. /\ job'[w].group = job[w].group /\ job'[w].at = job[w].at + 1
        /\ job'[w].batch = job[w].batch /\ job'[w].todo = rest
    <3> HIDE DEF rest
    <3> QED BY <1>1, <2>1 DEF IInv, TypeOK, Job
  <2>3. GroupOf(w)' = GroupOf(w) /\ Groups(w)' = Groups(w) /\ CurSpan(w)' = s
    BY <2>2 DEF GroupOf, Groups, CurSpan, NextSpan
  <2>4. s \in Span
    BY <1>1, <1>4, Position DEF UpsertSpan, IInv
  <2>5. Owed(w)'
    <3>1. messages[s] \in Nat /\ Info[s].messages \in Nat
      BY <2>4, InfoFacts DEF IInv, TypeOK
    <3>2. /\ job'[w].todo.messages = Info[s].messages
          /\ job'[w].todo.tool = Info[s].tool
          /\ job'[w].todo.cache = (Info[s].pins # NoHash)
      BY <2>2
    <3>3. messages'[s] + job'[w].todo.messages >= Info[s].messages
      BY <2>1, <3>1, <3>2
    <3>4. Info[s].tool => job'[w].todo.tool
      BY <3>2
    <3>5. Info[s].pins # NoHash => job'[w].todo.cache
      BY <3>2
    <3> HIDE DEF rest, s
    <3> QED BY <2>1, <2>3, <3>3, <3>4, <3>5 DEF Owed
  <2>6. ASSUME NEW x \in Past(w)' PROVE Complete(x)'
    <3>1. CASE x \in Past(w)
      BY <1>1, <3>1, PastSpans, CompleteStays DEF Behind
    <3>2. CASE x \notin Past(w)
      <4>1. x \in Span /\ \E i \in 1..job[w].at : x = GroupOf(w).spans[i]
        BY <1>2, <2>2, <2>3, <2>6, <3>2 DEF Past, Earlier
      <4>2. job[w].group > 0 /\ job[w].todo = Nothing
        BY <1>4 DEF UpsertSpan, MoreSpans
      <4>3. job[w].at > 0 /\ x = CurSpan(w)
        BY <1>2, <3>2, <4>1, <4>2 DEF Past, CurSpan
      <4>4. Complete(x)
        BY <1>1, <4>2, <4>3, OwedNothing DEF Behind
      <4> QED BY <1>1, <4>1, <4>4, CompleteStays
    <3> QED BY <3>1, <3>2
  <2> QED BY <2>5, <2>6 DEF Behind
<1>5. CASE \/ InsertMessage(w) \/ InsertToolCall(w) \/ UpsertLlmCache(w)
           \/ \E b \in Breakpoint : RecordBreakpointHit(w, b)
  <2>1. job[w].todo # Nothing
    <3>1. CASE InsertMessage(w)
      BY <3>1 DEF InsertMessage, Nothing
    <3>2. CASE InsertToolCall(w)
      BY <3>2 DEF InsertToolCall, Nothing
    <3>3. CASE UpsertLlmCache(w)
      BY <3>3 DEF UpsertLlmCache, CacheNext, Nothing
    <3>4. ASSUME NEW b \in Breakpoint, RecordBreakpointHit(w, b) PROVE job[w].todo # Nothing
      BY <3>4 DEF RecordBreakpointHit, HitsNext, Nothing
    <3> QED BY <1>5, <3>1, <3>2, <3>3, <3>4
  <2>2. CurSpan(w) \in Span /\ Owed(w)
    BY <1>1, <2>1, Position DEF Behind, IInv
  <2>3. /\ job'[w].pc = job[w].pc /\ job'[w].batch = job[w].batch
        /\ job'[w].group = job[w].group /\ job'[w].at = job[w].at
    <3>1. CASE InsertMessage(w)
      BY <1>1, <3>1 DEF InsertMessage, IInv, TypeOK, Job
    <3>2. CASE InsertToolCall(w)
      BY <1>1, <3>2 DEF InsertToolCall, IInv, TypeOK, Job
    <3>3. CASE UpsertLlmCache(w)
      BY <1>1, <3>3 DEF UpsertLlmCache, IInv, TypeOK, Job
    <3>4. ASSUME NEW b \in Breakpoint, RecordBreakpointHit(w, b)
          PROVE  /\ job'[w].pc = job[w].pc /\ job'[w].batch = job[w].batch
                 /\ job'[w].group = job[w].group /\ job'[w].at = job[w].at
      <4> DEFINE t == [job[w].todo EXCEPT !.hits = job[w].todo.hits \ {b}]
      <4>1. job' = [job EXCEPT ![w].todo = t]
        BY <3>4 DEF RecordBreakpointHit
      <4> HIDE DEF t
      <4> QED BY <1>1, <4>1 DEF IInv, TypeOK, Job
    <3> QED BY <1>5, <3>1, <3>2, <3>3, <3>4
  <2>4. CurSpan(w)' = CurSpan(w)
    BY <2>3 DEF CurSpan, GroupOf, Groups
  <2>5. /\ messages[CurSpan(w)] \in Nat /\ Info[CurSpan(w)].messages \in Nat
        /\ job[w].todo.messages \in Nat
        /\ Info[CurSpan(w)].pins # NoHash => Info[CurSpan(w)].pins \in Hash
    BY <1>1, <2>2, InfoFacts DEF IInv, TypeOK, Todo
  <2>6. Owed(w)'
    <3>1. CASE InsertMessage(w)
      BY <1>1, <2>2, <2>4, <2>5, <3>1 DEF InsertMessage, Owed, IInv, TypeOK, Job, Todo
    <3>2. CASE InsertToolCall(w)
      BY <1>1, <2>2, <2>4, <2>5, <3>2 DEF InsertToolCall, Owed, IInv, TypeOK, Job, Todo
    <3>3. CASE UpsertLlmCache(w)
      BY <1>1, <2>2, <2>4, <2>5, <3>3, ScalarAssumption
         DEF UpsertLlmCache, CacheNext, Owed, IInv, TypeOK, Job, Todo
    <3>4. ASSUME NEW b \in Breakpoint, RecordBreakpointHit(w, b) PROVE Owed(w)'
      BY <1>1, <2>2, <2>4, <2>5, <3>4 DEF RecordBreakpointHit, Owed, IInv, TypeOK, Job, Todo
    <3> QED BY <1>5, <3>1, <3>2, <3>3, <3>4
  <2> QED BY <1>1, <2>3, <2>6, BehindStays
<1> QED BY <1>3, <1>4, <1>5

\* At first no handler has gone past a span, and nothing is acknowledged.
LEMMA InitDInv == Init => DInv
<1> SUFFICES ASSUME Init PROVE DInv
  OBVIOUS
<1>1. AckedIsDurable
  BY DEF Init, AckedIsDurable
<1>2. \A w \in Worker : Behind(w)
  BY DEF Init, Behind, Writing, Idle
<1> QED BY <1>1, <1>2, InitIInv DEF DInv

\* No handler forgets what it has left behind.
LEMMA NextBehind ==
  ASSUME DInv, [Next]_vars, NEW w \in Worker
  PROVE  Behind(w)'
<1>1. IInv /\ IInv' /\ Kept /\ Behind(w)
  BY NextIInv, NextKeeps DEF DInv
<1>2. ASSUME NEW v \in Worker, Handle(v), v # w PROVE Behind(w)'
  <2>1. job'[w] = job[w]
    BY <1>1, <1>2 DEF Handle, Acquire, LookupProject, InsertProject, UpsertTrace, UpsertSpan,
       InsertMessage, InsertToolCall, UpsertLlmCache, RecordBreakpointHit, Reply,
       StatementFails, IInv, TypeOK
  <2> QED BY <1>1, <2>1, BehindStays
<1>3. ASSUME \/ UpsertTrace(w) \/ UpsertSpan(w) \/ InsertMessage(w) \/ InsertToolCall(w)
             \/ UpsertLlmCache(w) \/ \E b \in Breakpoint : RecordBreakpointHit(w, b)
      PROVE  Behind(w)'
  BY <1>1, <1>3, WriteBehind
\* Before its first group a handler has nothing behind it.
<1>4. ASSUME IInv', ~Writing(w)' \/ job'[w].group = 0 PROVE Behind(w)'
  <2>1. CASE ~Writing(w)'
    BY <2>1 DEF Behind
  <2>2. CASE job'[w].group = 0
    BY <2>2 DEF Behind, Past, Earlier
  <2> QED BY <1>4, <2>1, <2>2
<1>5. CASE Acquire(w) \/ LookupProject(w) \/ InsertProject(w)
  <2>1. job[w] \in Job /\ job[w].group = 0
    BY <1>1, <1>5 DEF Acquire, LookupProject, InsertProject, IInv, TypeOK, Placement, Placed, Writing
  <2>2. job'[w].group = job[w].group
    BY <1>1, <1>5, <2>1 DEF Acquire, LookupProject, InsertProject, IInv, TypeOK, Job
  <2> QED BY <1>1, <1>4, <2>1, <2>2
<1>6. CASE Reply(w) \/ StatementFails(w)
  <2>1. job'[w] = Idle
    BY <1>1, <1>6 DEF Reply, StatementFails, IInv, TypeOK
  <2> QED BY <1>1, <1>4, <2>1 DEF Writing, Idle
<1>7. CASE Crash
  BY <1>1, <1>4, <1>7 DEF Crash, Writing, Idle
<1>8. ASSUME NEW v \in Worker, NEW b \in Batch, Receive(v, b) PROVE Behind(w)'
  <2>1. job[v] = Idle /\ job' = [job EXCEPT ![v].pc = "waiting", ![v].batch = b, ![v].heard = TRUE]
    BY <1>8, Zenon DEF Receive
  <2>2. \A u \in Worker : job[u] \in Job
    BY <1>1 DEF IInv, TypeOK
  <2>3. CASE v = w
    <3>1. job'[w].pc = "waiting"
      BY <1>1, <2>1, <2>2, <2>3 DEF IInv, TypeOK, Job
    <3> QED BY <1>1, <1>4, <3>1 DEF Writing
  <2>4. CASE v # w
    <3>1. job'[w] = job[w]
      BY <1>1, <2>1, <2>4 DEF IInv, TypeOK
    <3> QED BY <1>1, <3>1, BehindStays
  <2> QED BY <2>3, <2>4
<1>9. ASSUME NEW b \in Batch, GiveUp(b) PROVE Behind(w)'
  <2>1. job[w] \in Job
    BY <1>1 DEF IInv, TypeOK
  <2>2. job'[w] = IF job[w].batch = b THEN [job[w] EXCEPT !.heard = FALSE] ELSE job[w]
    BY <1>9 DEF GiveUp
  <2>3. /\ job'[w].pc = job[w].pc /\ job'[w].batch = job[w].batch
        /\ job'[w].group = job[w].group /\ job'[w].at = job[w].at
        /\ job'[w].todo = job[w].todo
    BY <2>1, <2>2 DEF Job
  <2> QED BY <1>1, <2>3, BehindStays
<1>10. CASE UNCHANGED job
  BY <1>1, <1>10, BehindStays
<1>11. ASSUME Next PROVE Behind(w)'
  <2>1. ASSUME NEW v \in Worker, Handle(v) PROVE Behind(w)'
    BY <2>1, <1>2, <1>3, <1>5, <1>6 DEF Handle
  <2>2. ASSUME NEW b \in Batch, Exporter(b) PROVE Behind(w)'
    <3>1. Send(b) => UNCHANGED job
      BY DEF Send
    <3> QED BY <2>2, <3>1, <1>8, <1>9, <1>10 DEF Exporter
  <2>3. ASSUME NEW b \in Breakpoint, AddBreakpoint(b) \/ DeleteBreakpoint(b) PROVE Behind(w)'
    <3>1. UNCHANGED job
      BY <2>3, Zenon DEF AddBreakpoint, DeleteBreakpoint
    <3> QED BY <3>1, <1>10
  <2> QED BY <1>7, <1>11, <2>1, <2>2, <2>3 DEF Next
<1> QED BY <1>10, <1>11 DEF vars

\* Only the reply of a handler that has written its whole batch acknowledges it.
LEMMA AckingStep ==
  ASSUME DInv, [Next]_vars, NEW b \in Batch, client'[b] = "acked", client[b] # "acked"
  PROVE  \E w \in Worker : Reply(w) /\ job[w].batch = b /\ client' = [client EXCEPT ![b] = "acked"]
<1>1. client \in [Batch -> {"queued", "sent", "received", "acked", "dropped"}]
  BY DEF DInv, IInv, TypeOK
<1>2. ~UNCHANGED client
  OBVIOUS
<1>3. ASSUME NEW w \in Worker, Handle(w)
      PROVE  Reply(w) /\ job[w].batch = b /\ client' = [client EXCEPT ![b] = "acked"]
  <2>1. Reply(w) \/ StatementFails(w)
    BY <1>2, <1>3, Zenon DEF Handle, Acquire, LookupProject, InsertProject, UpsertTrace,
       UpsertSpan, InsertMessage, InsertToolCall, UpsertLlmCache, RecordBreakpointHit
  <2>2. ~StatementFails(w)
    <3>1. SUFFICES ASSUME StatementFails(w) PROVE FALSE
      OBVIOUS
    <3>2. client' = client \/ client' = [client EXCEPT ![job[w].batch] = "dropped"]
      BY <3>1 DEF StatementFails
    <3> QED BY <1>1, <3>2
  <2>3. client' = client \/ client' = [client EXCEPT ![job[w].batch] = "acked"]
    BY <2>1, <2>2 DEF Reply
  <2>4. job[w].batch = b
    BY <1>1, <2>3
  <2> QED BY <2>1, <2>2, <2>3, <2>4, <1>2
<1>4. ASSUME NEW c \in Batch, Exporter(c) PROVE FALSE
  <2>1. \/ client' = [client EXCEPT ![c] = "sent"]
        \/ client' = [client EXCEPT ![c] = AfterLoss(c)]
        \/ client' = [client EXCEPT ![c] = "received"]
    BY <1>4, Zenon DEF Exporter, Send, GiveUp, Receive
  <2> QED BY <1>1, <2>1 DEF AfterLoss
<1>5. ~Crash
  BY <1>1 DEF Crash, AfterLoss
<1>6. ASSUME NEW k \in Breakpoint, AddBreakpoint(k) \/ DeleteBreakpoint(k) PROVE FALSE
  BY <1>2, <1>6, Zenon DEF AddBreakpoint, DeleteBreakpoint
<1>7. ~UNCHANGED vars
  BY <1>2 DEF vars
<1> QED BY <1>3, <1>4, <1>5, <1>6, <1>7, Zenon DEF Next

\* A reply finds every span of its batch complete.
LEMMA ReplyComplete ==
  ASSUME DInv, NEW w \in Worker, Reply(w)
  PROVE  job[w].batch \in Batch /\ \A s \in SpansOf(job[w].batch) : Complete(s)
<1>1. Writing(w) /\ AllDone(w) /\ GroupDone(w) /\ job[w].batch \in Batch
  BY Position DEF Reply, AllDone, DInv, IInv
<1>2. Begun(w) = SpansOf(job[w].batch)
  BY <1>1 DEF Begun, SpansOf, Groups, AllDone
<1> QED BY <1>1, <1>2, BegunComplete DEF DInv

\* Every step keeps what was gone past, and what was acknowledged, complete.
LEMMA NextDInv == DInv /\ [Next]_vars => DInv'
<1> SUFFICES ASSUME DInv, [Next]_vars PROVE DInv'
  OBVIOUS
<1>1. IInv /\ IInv' /\ Kept
  BY NextIInv, NextKeeps DEF DInv
<1>2. ASSUME NEW b \in Batch, client'[b] = "acked", NEW s \in SpansOf(b)
      PROVE  Complete(s)'
  <2>1. Complete(s)
    BY <1>2, AckingStep, ReplyComplete DEF DInv, AckedIsDurable
  <2> QED BY <1>1, <2>1, BatchSpans, CompleteStays DEF IInv
<1>3. AckedIsDurable'
  BY <1>2 DEF AckedIsDurable
<1> QED BY <1>1, <1>3, NextBehind DEF DInv

\* An acknowledged batch is in the store down to its last message and stays
\* there, whatever fails, is killed or is delivered again afterwards.
THEOREM AckedStaysStored == Spec => []AckedIsDurable
<1>1. DInv => AckedIsDurable
  BY DEF DInv
<1> QED BY <1>1, InitDInv, NextDInv, PTL DEF Spec

-----------------------------------------------------------------------------
\* The six writes.
Writes(w) == \/ UpsertTrace(w) \/ UpsertSpan(w) \/ InsertMessage(w) \/ InsertToolCall(w)
             \/ UpsertLlmCache(w) \/ \E b \in Breakpoint : RecordBreakpointHit(w, b)

\* A write leaves the handler in its call, and every other handler where it is.
LEMMA WritesKeepCall ==
  ASSUME IInv, NEW w \in Worker, Writes(w)
  PROVE  /\ \A v \in Worker : v # w => job'[v] = job[v]
         /\ job'[w].pc = job[w].pc /\ job'[w].batch = job[w].batch
         /\ job'[w].heard = job[w].heard
         /\ job[w].pc = "writing"
         /\ UNCHANGED <<projects, client, attempts>>
<1>1. job \in [Worker -> Job] /\ job[w] \in Job
  BY DEF IInv, TypeOK
<1>2. UNCHANGED <<projects, client, attempts>> /\ job[w].pc = "writing"
  BY Zenon DEF Writes, UpsertTrace, UpsertSpan, InsertMessage, InsertToolCall,
     UpsertLlmCache, RecordBreakpointHit, Writing
<1>3. ASSUME NEW t \in Todo, job' = [job EXCEPT ![w].todo = t]
      PROVE  /\ \A v \in Worker : v # w => job'[v] = job[v]
             /\ job'[w].pc = job[w].pc /\ job'[w].batch = job[w].batch
             /\ job'[w].heard = job[w].heard
  BY <1>1, <1>3 DEF Job
<1>4. CASE UpsertTrace(w)
  BY <1>1, <1>2, <1>4 DEF UpsertTrace, Job
<1>5. CASE UpsertSpan(w)
  <2> DEFINE rest == [messages |-> Info[NextSpan(w)].messages,
                      tool     |-> Info[NextSpan(w)].tool,
                      cache    |-> Info[NextSpan(w)].pins # NoHash,
                      hits     |-> Info[NextSpan(w)].breaks \cap job[w].watch]
  <2>1. job' = [job EXCEPT ![w].at = @ + 1, ![w].todo = rest]
    BY <1>5 DEF UpsertSpan
  <2> HIDE DEF rest
  <2> QED BY <1>1, <1>2, <2>1 DEF Job
<1>6. CASE InsertMessage(w) \/ InsertToolCall(w) \/ UpsertLlmCache(w)
  BY <1>1, <1>2, <1>6 DEF InsertMessage, InsertToolCall, UpsertLlmCache, Job
<1>7. ASSUME NEW b \in Breakpoint, RecordBreakpointHit(w, b)
      PROVE  /\ \A v \in Worker : v # w => job'[v] = job[v]
             /\ job'[w].pc = job[w].pc /\ job'[w].batch = job[w].batch
             /\ job'[w].heard = job[w].heard
  <2> DEFINE t == [job[w].todo EXCEPT !.hits = job[w].todo.hits \ {b}]
  <2>1. job' = [job EXCEPT ![w].todo = t]
    BY <1>7 DEF RecordBreakpointHit
  <2>2. t \in Todo
    BY <1>1 DEF Job, Todo
  <2> HIDE DEF t
  <2> QED BY <2>1, <2>2, <1>3
<1> QED BY <1>2, <1>4, <1>5, <1>6, <1>7 DEF Writes

-----------------------------------------------------------------------------
(* The lock makes select-then-insert of a project one step. *)

\* A handler about to insert its project is the only one that could have, since
\* it looked.
NotThereYet == \A w \in Worker : job[w].pc = "insert" =>
                 \A p \in 1..Len(projects) : projects[p] # Request[job[w].batch].project

UInv == IInv /\ NotThereYet /\ UniqueProjects

\* Steps that leave the projects alone, and bring no handler to its INSERT.
LEMMA ProjectsLeftAlone ==
  ASSUME UInv, IInv', projects' = projects,
         \A w \in Worker : job'[w].pc = "insert" =>
            job[w].pc = "insert" /\ job'[w].batch = job[w].batch
  PROVE  UInv'
BY DEF UInv, NotThereYet, UniqueProjects

\* A handler has the lock when it looks and still when it inserts, so nobody inserts
\* in between.
LEMMA NextUInv == UInv /\ [Next]_vars => UInv'
<1> SUFFICES ASSUME UInv, [Next]_vars PROVE UInv'
  OBVIOUS
<1>1. IInv /\ IInv'
  BY NextIInv DEF UInv
<1>2. \A w \in Worker : job[w] \in Job
  BY <1>1 DEF IInv, TypeOK
<1>3. ASSUME NEW w \in Worker, LookupProject(w) PROVE UInv'
  <2>1. /\ projects' = projects /\ \A v \in Worker : v # w => job'[v] = job[v]
        /\ job'[w].batch = job[w].batch
    BY <1>1, <1>2, <1>3 DEF LookupProject, store, IInv, TypeOK, Job
  <2>2. job'[w].pc = "insert" =>
          \A p \in 1..Len(projects) : projects[p] # Request[job[w].batch].project
    BY <1>1, <1>2, <1>3 DEF LookupProject, IInv, TypeOK, Job
  <2>3. NotThereYet' /\ UniqueProjects'
    BY <2>1, <2>2 DEF UInv, NotThereYet, UniqueProjects
  <2> QED BY <1>1, <2>3 DEF UInv
<1>4. ASSUME NEW w \in Worker, InsertProject(w) PROVE UInv'
  <2>1. /\ projects' = Append(projects, Request[job[w].batch].project)
        /\ projects \in Seq(Project) /\ job[w].batch \in Batch
        /\ Request[job[w].batch].project \in Project
    BY <1>1, <1>4, RequestFacts DEF InsertProject, IInv, TypeOK, Placement, Placed
  <2>2. \A p \in 1..Len(projects) : projects[p] # Request[job[w].batch].project
    BY <1>4 DEF InsertProject, UInv, NotThereYet
  <2>3. UniqueProjects'
    BY <2>1, <2>2 DEF UInv, UniqueProjects
  <2>4. \A v \in Worker : job'[v].pc # "insert"
    <3>1. job'[w].pc = "writing"
      BY <1>1, <1>2, <1>4 DEF InsertProject, IInv, TypeOK, Job
    <3>2. lock' = w
      BY <1>1, <1>4 DEF InsertProject, IInv, LockHeldByWriter
    <3> QED BY <1>1, <3>1, <3>2 DEF IInv, LockHeldByWriter
  <2> QED BY <1>1, <2>3, <2>4 DEF UInv, NotThereYet
<1>5. ASSUME NEW b \in Breakpoint, AddBreakpoint(b) PROVE UInv'
  <2>1. \A w \in Worker : job'[w].pc # "insert"
    BY <1>1, <1>5, ScalarAssumption DEF AddBreakpoint, IInv, LockHeldByWriter
  <2>2. UniqueProjects'
    BY <1>5 DEF AddBreakpoint, UInv, UniqueProjects
  <2> QED BY <1>1, <2>1, <2>2 DEF UInv, NotThereYet
<1>6. ASSUME NEW w \in Worker, Writes(w) PROVE UInv'
  BY <1>1, <1>6, WritesKeepCall, ProjectsLeftAlone
<1>7. ASSUME NEW w \in Worker,
              \/ Acquire(w) \/ Reply(w) \/ StatementFails(w) \/ \E b \in Batch : Receive(w, b)
       PROVE  UInv'
  <2>1. projects' = projects /\ \A v \in Worker : v # w => job'[v] = job[v]
    BY <1>1, <1>7 DEF Acquire, Reply, StatementFails, Receive, store, IInv, TypeOK
  <2>2. job'[w].pc # "insert"
    <3>1. CASE Acquire(w)
      <4> DEFINE enabled == {b \in Breakpoint : breakpoints[b].state = "enabled"}
      <4>1. job' = [job EXCEPT ![w].pc = "project", ![w].watch = enabled]
        BY <3>1 DEF Acquire
      <4> HIDE DEF enabled
      <4> QED BY <1>1, <1>2, <4>1 DEF IInv, TypeOK, Job
    <3>3. ASSUME NEW b \in Batch, Receive(w, b) PROVE job'[w].pc # "insert"
      BY <1>1, <1>2, <3>3 DEF Receive, IInv, TypeOK, Job
    <3>2. CASE Reply(w) \/ StatementFails(w)
      BY <1>1, <3>2 DEF Reply, StatementFails, IInv, TypeOK, Idle
    <3> QED BY <1>7, <3>1, <3>2, <3>3
  <2> QED BY <1>1, <2>1, <2>2, ProjectsLeftAlone
<1>8. ASSUME NEW b \in Batch, Send(b) \/ GiveUp(b) PROVE UInv'
  <2>1. projects' = projects
    BY <1>8 DEF Send, GiveUp, store
  <2>2. \A w \in Worker : job'[w].pc = job[w].pc /\ job'[w].batch = job[w].batch
    BY <1>2, <1>8 DEF Send, GiveUp, Job
  <2> QED BY <1>1, <2>1, <2>2, ProjectsLeftAlone
<1>9. CASE Crash
  BY <1>1, <1>9, ProjectsLeftAlone DEF Crash, store, Idle
<1>10. ASSUME NEW b \in Breakpoint, DeleteBreakpoint(b) PROVE UInv'
  BY <1>1, <1>10, ProjectsLeftAlone DEF DeleteBreakpoint
<1>11. CASE UNCHANGED vars
  BY <1>1, <1>11, ProjectsLeftAlone DEF vars
<1> QED BY <1>3, <1>4, <1>5, <1>6, <1>7, <1>8, <1>9, <1>10, <1>11
        DEF Next, Handle, Exporter, Writes

\* projects.name is not UNIQUE, yet no name gets two rows.
THEOREM ProjectsStayUnique == Spec => []UniqueProjects
<1>1. Init => UInv
  <2> SUFFICES ASSUME Init PROVE UInv
    OBVIOUS
  <2>1. NotThereYet /\ UniqueProjects
    BY DEF Init, NotThereYet, UniqueProjects, Idle
  <2> QED BY <2>1, InitIInv DEF UInv
<1>2. UInv => UniqueProjects
  BY DEF UInv
<1> QED BY <1>1, <1>2, NextUInv, PTL DEF Spec

\* The tables a batch fills change only in the hands of a handler with the lock.
THEOREM OnlyTheLockHolderWrites == Spec => WritesUnderLock
<1> DEFINE tables == <<traces, spans, messages, toolCalls, llmCache>>
<1>1. ASSUME IInv, [Next]_vars, tables' # tables
      PROVE  lock \in Worker /\ Writing(lock)
  <2>1. PICK w \in Worker : \/ UpsertTrace(w) \/ UpsertSpan(w) \/ InsertMessage(w)
                            \/ InsertToolCall(w) \/ UpsertLlmCache(w)
    BY <1>1, Zenon DEF Next, Handle, Exporter, Acquire, LookupProject, InsertProject,
       RecordBreakpointHit, Reply, StatementFails, Send, GiveUp, Receive, Crash,
       AddBreakpoint, DeleteBreakpoint, store, vars
  <2>2. Writing(w)
    BY <2>1, Zenon DEF UpsertTrace, UpsertSpan, InsertMessage, InsertToolCall, UpsertLlmCache
  <2> QED BY <1>1, <2>2 DEF IInv, LockHeldByWriter, Writing
<1>2. IInv /\ [Next]_vars => [tables' # tables => lock \in Worker /\ Writing(lock)]_vars
  BY <1>1
<1> QED BY <1>2, InitIInv, NextIInv, PTL DEF Spec, WritesUnderLock

-----------------------------------------------------------------------------
(* The collector is a log of spans. *)

\* A caller that still waits for its reply has not had one, and waits for one
\* handler only.
Heard == \A w \in Worker : job[w].heard =>
           /\ job[w].batch \in Batch /\ client[job[w].batch] = "received"
           /\ \A v \in Worker : v # w /\ job[v].heard => job[v].batch # job[w].batch

\* Every step keeps it: a call is taken by one handler, and forgotten by all when
\* the caller gives up.
LEMMA NextHeard == IInv /\ Heard /\ [Next]_vars => Heard'
<1> SUFFICES ASSUME IInv, Heard, [Next]_vars PROVE Heard'
  OBVIOUS
<1>1. /\ job \in [Worker -> Job] /\ \A w \in Worker : job[w] \in Job
      /\ client \in [Batch -> {"queued", "sent", "received", "acked", "dropped"}]
  BY DEF IInv, TypeOK
<1>2. ASSUME client' = client,
             \A w \in Worker : job'[w].heard = job[w].heard /\ job'[w].batch = job[w].batch
      PROVE  Heard'
  BY <1>2 DEF Heard
<1>3. ASSUME NEW w \in Worker, Writes(w) PROVE Heard'
  <2>1. \A v \in Worker : job'[v].heard = job[v].heard /\ job'[v].batch = job[v].batch
    BY <1>3, WritesKeepCall
  <2> QED BY <1>2, <1>3, <2>1, WritesKeepCall
<1>4. ASSUME NEW w \in Worker, Acquire(w) \/ LookupProject(w) \/ InsertProject(w) PROVE Heard'
  <2>1. client' = client /\ \A v \in Worker : v # w => job'[v] = job[v]
    BY <1>1, <1>4 DEF Acquire, LookupProject, InsertProject
  <2>2. job'[w].heard = job[w].heard /\ job'[w].batch = job[w].batch
    BY <1>1, <1>4 DEF Acquire, LookupProject, InsertProject, Job
  <2> QED BY <1>2, <2>1, <2>2
<1>5. ASSUME NEW w \in Worker, Reply(w) \/ StatementFails(w) PROVE Heard'
  <2>1. /\ \A v \in Worker : v # w => job'[v] = job[v]
        /\ ~job'[w].heard
    BY <1>1, <1>5 DEF Reply, StatementFails, Idle
  <2>2. ASSUME NEW v \in Worker, v # w, job[v].heard
        PROVE  client'[job[v].batch] = client[job[v].batch]
    BY <1>1, <1>5, <2>2 DEF Heard, Reply, StatementFails
  <2> QED BY <2>1, <2>2 DEF Heard
<1>6. ASSUME NEW w \in Worker, NEW b \in Batch, Receive(w, b) PROVE Heard'
  <2>1. /\ client[b] = "sent" /\ client' = [client EXCEPT ![b] = "received"]
        /\ \A v \in Worker : v # w => job'[v] = job[v]
        /\ job'[w].batch = b
    BY <1>1, <1>6 DEF Receive, Job
  <2>2. \A v \in Worker : job[v].heard => job[v].batch # b
    BY <2>1 DEF Heard
  <2> QED BY <1>1, <2>1, <2>2 DEF Heard
<1>7. ASSUME NEW b \in Batch, GiveUp(b) PROVE Heard'
  <2>1. /\ client' = [client EXCEPT ![b] = AfterLoss(b)]
        /\ \A w \in Worker : job'[w] = IF job[w].batch = b THEN [job[w] EXCEPT !.heard = FALSE]
                                                          ELSE job[w]
    BY <1>7 DEF GiveUp
  <2>2. \A w \in Worker : job'[w].heard => job[w].batch # b /\ job'[w] = job[w]
    BY <1>1, <2>1 DEF Job
  <2> QED BY <1>1, <2>1, <2>2 DEF Heard
<1>8. ASSUME NEW b \in Batch, Send(b) PROVE Heard'
  <2>1. client[b] = "queued" /\ client' = [client EXCEPT ![b] = "sent"] /\ job' = job
    BY <1>8 DEF Send
  <2> QED BY <1>1, <2>1 DEF Heard
<1>9. CASE Crash
  BY <1>9 DEF Crash, Heard, Idle
<1>10. ASSUME NEW b \in Breakpoint, AddBreakpoint(b) \/ DeleteBreakpoint(b) PROVE Heard'
  BY <1>2, <1>10, Zenon DEF AddBreakpoint, DeleteBreakpoint
<1>11. CASE UNCHANGED vars
  BY <1>2, <1>11 DEF vars
<1> QED BY <1>3, <1>4, <1>5, <1>6, <1>7, <1>8, <1>9, <1>10, <1>11
        DEF Next, Handle, Exporter, Writes

\* What is acknowledged is not taken back: the only steps that change where an
\* exporter stands with a batch follow on one that is sent or received.
LEMMA AckedStays ==
  ASSUME IInv, Heard, [Next]_vars, NEW b \in Batch, client[b] = "acked"
  PROVE  client'[b] = "acked"
<1>1. client \in [Batch -> {"queued", "sent", "received", "acked", "dropped"}]
  BY DEF IInv, TypeOK
<1>2. ASSUME NEW w \in Worker, Writes(w) PROVE client' = client
  BY <1>2, WritesKeepCall
<1>3. ASSUME NEW w \in Worker, Reply(w) \/ StatementFails(w) PROVE client'[b] = "acked"
  BY <1>1, <1>3 DEF Heard, Reply, StatementFails
<1>4. ASSUME NEW w \in Worker, Acquire(w) \/ LookupProject(w) \/ InsertProject(w)
      PROVE  client' = client
  BY <1>4 DEF Acquire, LookupProject, InsertProject
<1>5. ASSUME NEW c \in Batch, Exporter(c) PROVE client'[b] = "acked"
  BY <1>1, <1>5 DEF Exporter, Send, GiveUp, Receive
<1>6. CASE Crash
  BY <1>1, <1>6 DEF Crash
<1>7. ASSUME NEW c \in Breakpoint, AddBreakpoint(c) \/ DeleteBreakpoint(c)
      PROVE  client' = client
  BY <1>7, Zenon DEF AddBreakpoint, DeleteBreakpoint
<1> QED BY <1>2, <1>3, <1>4, <1>5, <1>6, <1>7 DEF Next, Handle, Writes, vars

Acked == {b \in Batch : client[b] = "acked"}

\* The collector is a log: a span's row records it, a reply that is heard promises
\* its batch, and no failure, kill or repeated delivery does anything to the log.
THEOREM CollectorIsALog == Spec => ImplementsSpanLog
<1>1. Init => Log!Init
  <2> SUFFICES ASSUME Init PROVE Log!Init
    OBVIOUS
  <2>1. \A b \in Batch : client[b] # "acked"
    BY DEF Init
  <2> QED BY <2>1 DEF Init, Log!Init
<1>2. Init => DInv /\ Heard
  BY InitDInv DEF Init, Heard, Idle
<1>3. DInv /\ Heard /\ [Next]_vars => (DInv /\ Heard)'
  BY NextDInv, NextHeard DEF DInv
<1>4. DInv /\ Heard /\ DInv' /\ [Next]_vars => [Log!Next]_<<spans, Acked>>
  <2> SUFFICES ASSUME DInv, Heard, DInv', [Next]_vars PROVE [Log!Next]_<<spans, Acked>>
    OBVIOUS
  <2>1. Acked \subseteq Acked'
    BY AckedStays DEF Acked, DInv
  <2>2. ASSUME NEW b \in Acked' \ Acked PROVE Log!Promise(b)
    <3>1. PICK w \in Worker : Reply(w) /\ client' = [client EXCEPT ![b] = "acked"]
      BY <2>2, AckingStep DEF Acked
    <3>2. spans' = spans
      BY <3>1 DEF Reply, store
    <3>3. Acked' = Acked \cup {b}
      BY <2>2, <3>1 DEF Acked, DInv, IInv, TypeOK
    <3>4. SpansOf(b) \subseteq spans
      BY <2>2, <3>2 DEF Acked, DInv, AckedIsDurable, Complete
    <3> QED BY <3>2, <3>3, <3>4 DEF Log!Promise, Acked
  <2>3. ASSUME NEW w \in Worker, UpsertSpan(w) PROVE Log!Record(NextSpan(w)) /\ NextSpan(w) \in Span
    <3>1. spans' = spans \cup {NextSpan(w)} /\ client' = client
      BY <2>3 DEF UpsertSpan
    <3>2. NextSpan(w) \in Span
      BY <3>1 DEF DInv, IInv, TypeOK
    <3> QED BY <3>1, <3>2 DEF Log!Record, Acked
  <2>4. ASSUME \A w \in Worker : ~UpsertSpan(w) PROVE spans' = spans
    BY <2>4, Zenon DEF Next, Handle, Exporter, Acquire, LookupProject, InsertProject,
       UpsertTrace, InsertMessage, InsertToolCall, UpsertLlmCache,
       RecordBreakpointHit, Reply, StatementFails, Send, GiveUp, Receive, Crash,
       AddBreakpoint, DeleteBreakpoint, store, vars
  <2>5. CASE Acked' # Acked
    <3>1. PICK b \in Acked' : b \notin Acked
      BY <2>1, <2>5
    <3> QED BY <2>2, <3>1 DEF Log!Next, Acked
  <2>6. CASE \E w \in Worker : UpsertSpan(w)
    BY <2>3, <2>6 DEF Log!Next
  <2>7. CASE Acked' = Acked /\ \A w \in Worker : ~UpsertSpan(w)
    BY <2>4, <2>7
  <2> QED BY <2>5, <2>6, <2>7
<1> QED BY <1>1, <1>2, <1>3, <1>4, PTL DEF Spec, ImplementsSpanLog, Log!Spec, Log!logVars, Acked

-----------------------------------------------------------------------------
(* The first delivery of a batch. *)

\* The spans a handler has not begun yet.
Ahead(w) ==
  {s \in Span : \E g \in 1..Len(Groups(w)) : \E i \in 1..Len(Groups(w)[g].spans) :
     /\ g > job[w].group \/ (g = job[w].group /\ i > job[w].at)
     /\ s = Groups(w)[g].spans[i]}

\* As long as a batch was sent once at most, one handler at most has it, and of its
\* spans nothing is stored that this handler has not begun; while the caller waits for
\* an answer there is that handler.
Once(b) ==
  /\ client[b] # "queued" => attempts[b] > 0
  /\ attempts[b] = 0 \/ (attempts[b] = 1 /\ client[b] = "sent") =>
       /\ \A w \in Worker : job[w].batch # b
       /\ \A s \in SpansOf(b) : s \notin spans
  /\ attempts[b] = 1 =>
       /\ \A v, w \in Worker : job[v].batch = b /\ job[w].batch = b => v = w
       /\ \A w \in Worker : job[w].batch = b => \A s \in Ahead(w) : s \notin spans
       /\ client[b] = "received" => \E w \in Worker : job[w].batch = b /\ job[w].heard

OInv == IInv /\ Heard /\ \A b \in Batch : Once(b)

\* A span of a batch has a place in it.
LEMMA PlaceInBatch ==
  ASSUME NEW b \in Batch, NEW s
  PROVE  s \in SpansOf(b) <=>
           \E g \in 1..Len(Request[b].groups) : \E i \in 1..Len(Request[b].groups[g].spans) :
             s = Request[b].groups[g].spans[i]
BY DEF SpansOf, Elements

\* What is ahead of a handler is of its batch, all of it as long as it has begun nothing.
LEMMA AheadInBatch ==
  ASSUME IInv, NEW w \in Worker, NEW b \in Batch, job[w].batch = b
  PROVE  /\ Ahead(w) \subseteq SpansOf(b)
         /\ job[w].group = 0 => Ahead(w) = SpansOf(b)
<1>1. Ahead(w) \subseteq SpansOf(b)
  BY PlaceInBatch DEF Ahead, Groups
<1>2. ASSUME job[w].group = 0, NEW s \in SpansOf(b) PROVE s \in Ahead(w)
  <2>1. PICK g \in 1..Len(Request[b].groups) : \E i \in 1..Len(Request[b].groups[g].spans) :
          s = Request[b].groups[g].spans[i]
    BY PlaceInBatch
  <2>2. s \in Span /\ g > 0
    BY <2>1, BatchSpans
  <2> QED BY <1>2, <2>1, <2>2 DEF Ahead, Groups
<1> QED BY <1>1, <1>2

\* A handler that goes on has less ahead of it.
LEMMA AheadShrinks ==
  ASSUME NEW w \in Worker, job[w].batch \in Batch, job'[w].batch = job[w].batch,
         job[w].group \in Nat, job[w].at \in Nat, job'[w].group \in Nat, job'[w].at \in Nat,
         \/ job'[w].group > job[w].group
         \/ job'[w].group = job[w].group /\ job'[w].at >= job[w].at
  PROVE  Ahead(w)' \subseteq Ahead(w)
<1>1. Groups(w)' = Groups(w)
  BY DEF Groups
<1>2. ASSUME NEW g \in 1..Len(Groups(w)), NEW i \in 1..Len(Groups(w)[g].spans),
             g > job'[w].group \/ (g = job'[w].group /\ i > job'[w].at)
      PROVE  g > job[w].group \/ (g = job[w].group /\ i > job[w].at)
  <2>1. Len(Groups(w)) \in Nat /\ Len(Groups(w)[g].spans) \in Nat
    BY RequestFacts DEF Groups
  <2> QED BY <1>2, <2>1
<1> QED BY <1>1, <1>2 DEF Ahead

\* ... and one that stays, or has gone nowhere, the same.
LEMMA AheadSame ==
  ASSUME NEW w \in Worker, job'[w].batch = job[w].batch,
         job'[w].group = job[w].group, job'[w].at = job[w].at
  PROVE  Ahead(w)' = Ahead(w)
<1>1. Groups(w)' = Groups(w)
  BY DEF Groups
<1> QED BY <1>1 DEF Ahead

\* A span in two places is in one.
LEMMA OnePlace ==
  ASSUME NEW b \in Batch, NEW c \in Batch,
         NEW g \in 1..Len(Request[b].groups), NEW h \in 1..Len(Request[c].groups),
         NEW i, NEW k, NEW s,
         i \in 1..Len(Request[b].groups[g].spans), s = Request[b].groups[g].spans[i],
         k \in 1..Len(Request[c].groups[h].spans), s = Request[c].groups[h].spans[k]
  PROVE  b = c /\ g = h /\ i = k
<1>1. \A e \in 1..Len(Request[b].groups), f \in 1..Len(Request[c].groups) :
        \A j \in 1..Len(Request[b].groups[e].spans), m \in 1..Len(Request[c].groups[f].spans) :
          Request[b].groups[e].spans[j] = Request[c].groups[f].spans[m] => b = c /\ e = f /\ j = m
  BY SentOnceAssumption, Zenon
<1>2. \A j \in 1..Len(Request[b].groups[g].spans), m \in 1..Len(Request[c].groups[h].spans) :
        Request[b].groups[g].spans[j] = Request[c].groups[h].spans[m] => b = c /\ g = h /\ j = m
  BY <1>1, Zenon
<1> QED BY <1>2, Zenon

\* The places of one batch.
LEMMA PlacesDiffer ==
  ASSUME NEW b \in Batch
  PROVE  \A e \in 1..Len(Request[b].groups), f \in 1..Len(Request[b].groups) :
           \A j \in 1..Len(Request[b].groups[e].spans), m \in 1..Len(Request[b].groups[f].spans) :
             Request[b].groups[e].spans[j] = Request[b].groups[f].spans[m] => b = b /\ e = f /\ j = m
<1>1. \A c \in Batch :
        \A e \in 1..Len(Request[b].groups), f \in 1..Len(Request[c].groups) :
          \A j \in 1..Len(Request[b].groups[e].spans), m \in 1..Len(Request[c].groups[f].spans) :
            Request[b].groups[e].spans[j] = Request[c].groups[f].spans[m] => b = c /\ e = f /\ j = m
  BY SentOnceAssumption, Zenon
<1> QED BY <1>1, Zenon

\* A span in two places of one batch is in one group ...
LEMMA OnePlaceInBatch ==
  ASSUME NEW b \in Batch, NEW g \in 1..Len(Request[b].groups), NEW h \in 1..Len(Request[b].groups),
         NEW i, NEW k, NEW s,
         i \in 1..Len(Request[b].groups[g].spans), s = Request[b].groups[g].spans[i],
         k \in 1..Len(Request[b].groups[h].spans), s = Request[b].groups[h].spans[k]
  PROVE  g = h
<1>1. \A e \in 1..Len(Request[b].groups), f \in 1..Len(Request[b].groups) :
        \A j \in 1..Len(Request[b].groups[e].spans), m \in 1..Len(Request[b].groups[f].spans) :
          Request[b].groups[e].spans[j] = Request[b].groups[f].spans[m] => b = b /\ e = f /\ j = m
  BY PlacesDiffer, Zenon
<1>2. \A j \in 1..Len(Request[b].groups[g].spans), m \in 1..Len(Request[b].groups[h].spans) :
        Request[b].groups[g].spans[j] = Request[b].groups[h].spans[m] => b = b /\ g = h /\ j = m
  BY <1>1, Zenon
<1>3. Request[b].groups[g].spans[i] = Request[b].groups[h].spans[k]
  OBVIOUS
<1> QED BY <1>2, <1>3, Zenon

\* ... and at one place in it.
LEMMA OneIndex ==
  ASSUME NEW b \in Batch, NEW g \in 1..Len(Request[b].groups), NEW h \in 1..Len(Request[b].groups),
         NEW i, NEW k, NEW s,
         i \in 1..Len(Request[b].groups[g].spans), s = Request[b].groups[g].spans[i],
         k \in 1..Len(Request[b].groups[h].spans), s = Request[b].groups[h].spans[k]
  PROVE  i = k
<1>1. \A e \in 1..Len(Request[b].groups), f \in 1..Len(Request[b].groups) :
        \A j \in 1..Len(Request[b].groups[e].spans), m \in 1..Len(Request[b].groups[f].spans) :
          Request[b].groups[e].spans[j] = Request[b].groups[f].spans[m] => b = b /\ e = f /\ j = m
  BY PlacesDiffer, Zenon
<1>2. \A j \in 1..Len(Request[b].groups[g].spans), m \in 1..Len(Request[b].groups[h].spans) :
        Request[b].groups[g].spans[j] = Request[b].groups[h].spans[m] => b = b /\ g = h /\ j = m
  BY <1>1, Zenon
<1>3. Request[b].groups[g].spans[i] = Request[b].groups[h].spans[k]
  OBVIOUS
<1> QED BY <1>2, <1>3, Zenon

\* A write takes its handler forward or leaves it at its span.
LEMMA WritesGoOn ==
  ASSUME IInv, NEW w \in Worker, Writes(w)
  PROVE  /\ job[w].batch \in Batch
         /\ job[w].group \in Nat /\ job[w].at \in Nat
         /\ job'[w].group \in Nat /\ job'[w].at \in Nat
         /\ UpsertTrace(w) => job'[w].group = job[w].group + 1 /\ job'[w].todo = job[w].todo
         /\ UpsertSpan(w) => job'[w].group = job[w].group /\ job'[w].at = job[w].at + 1
         /\ ~UpsertTrace(w) /\ ~UpsertSpan(w) =>
              /\ job'[w].group = job[w].group /\ job'[w].at = job[w].at
              /\ job'[w].todo.hits \subseteq job[w].todo.hits
         /\ ~UpsertSpan(w) => spans' = spans
<1>1. job \in [Worker -> Job] /\ job[w] \in Job
  BY DEF IInv, TypeOK
<1>2. job[w].batch \in Batch /\ job[w].group \in Nat /\ job[w].at \in Nat /\ job[w].todo \in Todo
  BY <1>1, WritesKeepCall DEF IInv, Placement, Placed, Job
<1>3. ASSUME NEW t \in Todo, job' = [job EXCEPT ![w].todo = t], t.hits \subseteq job[w].todo.hits
      PROVE  /\ job'[w].group = job[w].group /\ job'[w].at = job[w].at
             /\ job'[w].todo.hits \subseteq job[w].todo.hits
  BY <1>1, <1>3 DEF Job
<1>4. CASE UpsertTrace(w)
  <2>1. /\ job'[w].group = job[w].group + 1 /\ job'[w].at = 0 /\ job'[w].todo = job[w].todo
        /\ spans' = spans
    BY <1>1, <1>4 DEF UpsertTrace, Job
  <2>2. ~UpsertSpan(w)
    BY <1>4 DEF UpsertTrace, GroupDone, UpsertSpan, MoreSpans
  <2> QED BY <1>2, <1>4, <2>1, <2>2
<1>5. CASE UpsertSpan(w)
  <2> DEFINE rest == [messages |-> Info[NextSpan(w)].messages,
                      tool     |-> Info[NextSpan(w)].tool,
                      cache    |-> Info[NextSpan(w)].pins # NoHash,
                      hits     |-> Info[NextSpan(w)].breaks \cap job[w].watch]
  <2>1. job' = [job EXCEPT ![w].at = @ + 1, ![w].todo = rest]
    BY <1>5 DEF UpsertSpan
  <2>2. job'[w].group = job[w].group /\ job'[w].at = job[w].at + 1
    <3> HIDE DEF rest
    <3> QED BY <1>1, <1>2, <2>1 DEF Job
  <2>3. ~UpsertTrace(w)
    BY <1>5 DEF UpsertTrace, GroupDone, UpsertSpan, MoreSpans
  <2> QED BY <1>2, <1>5, <2>2, <2>3
<1>6. CASE ~UpsertTrace(w) /\ ~UpsertSpan(w)
  <2>1. spans' = spans
    BY <1>6, Zenon DEF Writes, InsertMessage, InsertToolCall, UpsertLlmCache, RecordBreakpointHit
  <2>2. CASE InsertMessage(w)
    <3> DEFINE t == [job[w].todo EXCEPT !.messages = job[w].todo.messages - 1]
    <3>1. t \in Todo /\ t.hits = job[w].todo.hits
      BY <1>2, <2>2 DEF Todo, InsertMessage
    <3>2. job' = [job EXCEPT ![w].todo = t]
      BY <2>2 DEF InsertMessage
    <3> HIDE DEF t
    <3> QED BY <1>2, <1>3, <1>6, <2>1, <3>1, <3>2
  <2>3. CASE InsertToolCall(w)
    <3> DEFINE t == [job[w].todo EXCEPT !.tool = FALSE]
    <3>1. t \in Todo /\ t.hits = job[w].todo.hits
      BY <1>2 DEF Todo
    <3>2. job' = [job EXCEPT ![w].todo = t]
      BY <2>3 DEF InsertToolCall
    <3> HIDE DEF t
    <3> QED BY <1>2, <1>3, <1>6, <2>1, <3>1, <3>2
  <2>4. CASE UpsertLlmCache(w)
    <3> DEFINE t == [job[w].todo EXCEPT !.cache = FALSE]
    <3>1. t \in Todo /\ t.hits = job[w].todo.hits
      BY <1>2 DEF Todo
    <3>2. job' = [job EXCEPT ![w].todo = t]
      BY <2>4 DEF UpsertLlmCache
    <3> HIDE DEF t
    <3> QED BY <1>2, <1>3, <1>6, <2>1, <3>1, <3>2
  <2>5. CASE \E b \in Breakpoint : RecordBreakpointHit(w, b)
    <3>1. PICK b \in Breakpoint : RecordBreakpointHit(w, b)
      BY <2>5
    <3> DEFINE t == [job[w].todo EXCEPT !.hits = job[w].todo.hits \ {b}]
    <3>2. t \in Todo /\ t.hits \subseteq job[w].todo.hits
      BY <1>2 DEF Todo
    <3>3. job' = [job EXCEPT ![w].todo = t]
      BY <3>1 DEF RecordBreakpointHit
    <3> HIDE DEF t
    <3> QED BY <1>2, <1>3, <1>6, <2>1, <3>2, <3>3
  <2> QED BY <1>6, <2>2, <2>3, <2>4, <2>5 DEF Writes
<1> QED BY <1>4, <1>5, <1>6

\* Steps that store no span of the batch, send it to nobody, and leave the handler that
\* the caller waits for.
LEMMA OnceStays ==
  ASSUME IInv, NEW b \in Batch, Once(b), attempts'[b] = attempts[b],
         \/ client'[b] = client[b]
         \/ client[b] \in {"sent", "received"} /\ client'[b] \in {"queued", "acked", "dropped"},
         \A w \in Worker : job'[w].batch = b =>
            job[w].batch = b /\ Ahead(w)' \subseteq Ahead(w),
         attempts[b] = 1 /\ client'[b] = "received" =>
            \E w \in Worker : job'[w].batch = b /\ job'[w].heard,
         \A s \in SpansOf(b) : s \in spans' => s \in spans
  PROVE  Once(b)'
<1>1. client'[b] # "queued" => attempts[b] > 0
  BY DEF Once
<1>2. attempts[b] = 0 \/ (attempts[b] = 1 /\ client'[b] = "sent") =>
        attempts[b] = 0 \/ (attempts[b] = 1 /\ client[b] = "sent")
  OBVIOUS
<1>3. ASSUME NEW w \in Worker, job'[w].batch = b, attempts[b] = 1, NEW s \in Ahead(w)'
      PROVE  s \notin spans'
  <2>1. job[w].batch = b /\ s \in Ahead(w)
    BY <1>3
  <2>2. s \in SpansOf(b) /\ s \notin spans
    BY <1>3, <2>1, AheadInBatch DEF Once
  <2> QED BY <2>2
<1>4. SpansOf(b)' = SpansOf(b)
  BY DEF SpansOf
<1> QED BY <1>1, <1>2, <1>3, <1>4 DEF Once

\* A handler that stays at its span, or leaves, keeps the caller's handler alive.
LEMMA OnceKept ==
  ASSUME OInv, IInv', UNCHANGED <<spans, attempts, client>>,
         \A w \in Worker : /\ job'[w].batch = job[w].batch /\ job'[w].heard = job[w].heard
                           /\ job[w].batch \in Batch => Ahead(w)' \subseteq Ahead(w)
  PROVE  \A b \in Batch : Once(b)'
<1> TAKE b \in Batch
<1>1. Once(b)
  BY DEF OInv
<1>2. attempts[b] = 1 /\ client'[b] = "received" =>
        \E w \in Worker : job'[w].batch = b /\ job'[w].heard
  BY <1>1 DEF Once
<1> QED BY <1>1, <1>2, OnceStays DEF OInv

\* A span that is stored is of the handler's batch, and no longer ahead of it.
LEMMA StoringIsOnce ==
  ASSUME OInv, IInv', NEW w \in Worker, UpsertSpan(w), NEW b \in Batch
  PROVE  Once(b)'
<1> DEFINE s == NextSpan(w)
<1>1. /\ spans' = spans \cup {s} /\ UNCHANGED <<attempts, client>> /\ Writes(w)
      /\ MoreSpans(w) /\ Writing(w)
  BY DEF UpsertSpan, Writes
<1>2. /\ \A v \in Worker : v # w => job'[v] = job[v]
      /\ job'[w].batch = job[w].batch /\ job'[w].heard = job[w].heard
      /\ job[w].batch \in Batch /\ job[w].group \in Nat /\ job[w].at \in Nat
      /\ job'[w].group = job[w].group /\ job'[w].at = job[w].at + 1
  BY <1>1, WritesKeepCall, WritesGoOn DEF OInv
<1>3. /\ job[w].group \in 1..Len(Groups(w)) /\ job[w].at + 1 \in 1..Len(GroupOf(w).spans)
      /\ s \in Span /\ s = Groups(w)[job[w].group].spans[job[w].at + 1]
  <2>1. Placed(w) /\ job[w].group > 0
    BY <1>1 DEF OInv, IInv, Placement, MoreSpans
  <2>2. Len(Groups(w)) \in Nat
    BY <1>2, RequestFacts DEF Groups
  <2>3. job[w].group \in 1..Len(Groups(w))
    BY <1>1, <1>2, <2>1, <2>2 DEF Placed
  <2> QED BY <1>1, <2>3, Position DEF OInv, IInv, NextSpan, GroupOf
<1>4. \A v \in Worker : job[v].batch \in Batch => Ahead(v)' \subseteq Ahead(v)
  <2>1. Ahead(w)' \subseteq Ahead(w)
    BY <1>2, AheadShrinks
  <2>2. ASSUME NEW v \in Worker, v # w PROVE Ahead(v)' = Ahead(v)
    BY <1>2, <2>2 DEF Ahead, Groups
  <2> QED BY <2>1, <2>2
<1>5. Once(b)
  BY DEF OInv
<1>6. attempts[b] = 1 /\ client'[b] = "received" =>
        \E v \in Worker : job'[v].batch = b /\ job'[v].heard
  BY <1>1, <1>2, <1>5 DEF Once
<1>7. CASE b # job[w].batch
  <2>1. ASSUME s \in SpansOf(b) PROVE FALSE
    <3>1. PICK h \in 1..Len(Request[b].groups) : \E k \in 1..Len(Request[b].groups[h].spans) :
            s = Request[b].groups[h].spans[k]
      BY <2>1, PlaceInBatch
    <3>2. PICK k \in 1..Len(Request[b].groups[h].spans) : s = Request[b].groups[h].spans[k]
      BY <3>1
    <3> HIDE DEF s
    <3>3. /\ job[w].group \in 1..Len(Request[job[w].batch].groups)
          /\ job[w].at + 1 \in 1..Len(Request[job[w].batch].groups[job[w].group].spans)
          /\ s = Request[job[w].batch].groups[job[w].group].spans[job[w].at + 1]
      BY <1>3 DEF Groups, GroupOf
    <3> DEFINE c == job[w].batch
               p == job[w].group
               q == job[w].at + 1
    <3>4. /\ c \in Batch /\ p \in 1..Len(Request[c].groups)
          /\ q \in 1..Len(Request[c].groups[p].spans) /\ s = Request[c].groups[p].spans[q]
      BY <1>2, <3>3
    <3> HIDE DEF c, p, q
    <3>5. b = c
      BY <3>1, <3>2, <3>4, OnePlace, Zenon
    <3> QED BY <1>7, <3>5 DEF c
  <2>2. \A x \in SpansOf(b) : x \in spans' => x \in spans
    BY <1>1, <2>1
  <2> QED BY <1>1, <1>2, <1>4, <1>5, <1>6, <2>2, OnceStays DEF OInv
<1>8. CASE b = job[w].batch
  <2>1. /\ attempts[b] # 0 /\ ~(attempts[b] = 1 /\ client[b] = "sent")
        /\ client[b] # "queued" => attempts[b] > 0
    BY <1>5, <1>8 DEF Once
  <2>2. ASSUME attempts[b] = 1, NEW x \in Ahead(w)' PROVE x \notin spans'
    <3>1. x \in Ahead(w) /\ x \notin spans
      BY <1>2, <1>4, <1>5, <1>8, <2>2 DEF Once
    <3>2. x # s
      <4>1. PICK g \in 1..Len(Groups(w)) : \E k \in 1..Len(Groups(w)[g].spans) :
              /\ g > job[w].group \/ (g = job[w].group /\ k > job[w].at + 1)
              /\ x = Groups(w)[g].spans[k]
        BY <1>2, <2>2 DEF Ahead, Groups
      <4>2. PICK k \in 1..Len(Groups(w)[g].spans) :
              /\ g > job[w].group \/ (g = job[w].group /\ k > job[w].at + 1)
              /\ x = Groups(w)[g].spans[k]
        BY <4>1
      <4>3. ~(g = job[w].group /\ k = job[w].at + 1)
        BY <1>2, <4>2
      <4> HIDE DEF s
      <4>4. /\ job[w].group \in 1..Len(Request[b].groups)
            /\ job[w].at + 1 \in 1..Len(Request[b].groups[job[w].group].spans)
            /\ s = Request[b].groups[job[w].group].spans[job[w].at + 1]
            /\ g \in 1..Len(Request[b].groups) /\ k \in 1..Len(Request[b].groups[g].spans)
            /\ x = Request[b].groups[g].spans[k]
        BY <1>3, <1>8, <4>2 DEF Groups, GroupOf
      <4>5. ASSUME x = s PROVE g = job[w].group /\ k = job[w].at + 1
        <5> DEFINE p == job[w].group
                   q == job[w].at + 1
        <5>1. /\ p \in 1..Len(Request[b].groups)
              /\ q \in 1..Len(Request[b].groups[p].spans) /\ x = Request[b].groups[p].spans[q]
          BY <4>4, <4>5
        <5> HIDE DEF p, q
        <5>2. g = p
          BY <4>4, <5>1, OnePlaceInBatch, Zenon
        <5>3. k = q
          BY <4>4, <5>1, OneIndex, Zenon
        <5> QED BY <5>2, <5>3 DEF p, q
      <4> QED BY <4>3, <4>5
    <3> QED BY <1>1, <3>1, <3>2
  <2>3. attempts[b] = 1 => \A v \in Worker : job[v].batch = b => v = w
    BY <1>5, <1>8 DEF Once
  <2>4. \A v \in Worker : job'[v].batch = job[v].batch
    BY <1>2
  <2> QED BY <1>1, <1>5, <1>6, <2>1, <2>2, <2>3, <2>4 DEF Once
<1> QED BY <1>7, <1>8

\* Of a handler that leaves: its caller hears it, or was not waiting for it.
LEMMA LeavingIsOnce ==
  ASSUME OInv, IInv', NEW w \in Worker, Reply(w) \/ StatementFails(w), NEW b \in Batch
  PROVE  Once(b)'
<1>1. /\ job \in [Worker -> Job] /\ Once(b)
      /\ client \in [Batch -> {"queued", "sent", "received", "acked", "dropped"}]
  BY DEF OInv, IInv, TypeOK
<1>2. /\ job' = [job EXCEPT ![w] = Idle] /\ UNCHANGED <<spans, attempts>>
      /\ \/ ~job[w].heard /\ client' = client
         \/ job[w].heard /\ client' = [client EXCEPT ![job[w].batch] = "acked"]
         \/ job[w].heard /\ client' = [client EXCEPT ![job[w].batch] = "dropped"]
  BY DEF Reply, StatementFails, store
<1>3. /\ \A v \in Worker : v # w => job'[v] = job[v]
      /\ job'[w].batch # b
  BY <1>1, <1>2, ScalarAssumption DEF Idle
<1>4. job[w].heard => job[w].batch \in Batch /\ client[job[w].batch] = "received"
  BY DEF OInv, Heard
<1>5. \/ client'[b] = client[b]
      \/ client[b] \in {"sent", "received"} /\ client'[b] \in {"queued", "acked", "dropped"}
  BY <1>1, <1>2, <1>4
<1>6. attempts[b] = 1 /\ client'[b] = "received" =>
        \E v \in Worker : job'[v].batch = b /\ job'[v].heard
  <2>1. ASSUME attempts[b] = 1, client'[b] = "received"
        PROVE  \E v \in Worker : job'[v].batch = b /\ job'[v].heard
    <3>1. client[b] = "received" /\ (job[w].heard => job[w].batch # b)
      BY <1>1, <1>2, <1>4, <2>1
    <3>2. PICK v \in Worker : job[v].batch = b /\ job[v].heard
      BY <1>1, <2>1, <3>1 DEF Once
    <3> QED BY <1>3, <3>1, <3>2
  <2> QED BY <2>1
<1>7. \A v \in Worker : job'[v].batch = b => job[v].batch = b /\ Ahead(v)' = Ahead(v)
  BY <1>3, AheadSame
<1> QED BY <1>1, <1>2, <1>5, <1>6, <1>7, OnceStays DEF OInv

\* Every step keeps it.
LEMMA NextOInv == OInv /\ [Next]_vars => OInv'
<1> SUFFICES ASSUME OInv, [Next]_vars, NEW b \in Batch PROVE Once(b)'
  BY NextIInv, NextHeard DEF OInv
<1>1. /\ IInv /\ IInv' /\ Once(b) /\ job \in [Worker -> Job] /\ \A w \in Worker : job[w] \in Job
      /\ client \in [Batch -> {"queued", "sent", "received", "acked", "dropped"}]
      /\ attempts \in [Batch -> Nat]
  BY NextIInv DEF OInv, IInv, TypeOK
<1>2. ASSUME NEW w \in Worker, Writes(w), ~UpsertSpan(w) PROVE Once(b)'
  <2>1. UNCHANGED <<spans, attempts, client>>
    BY <1>1, <1>2, WritesKeepCall, WritesGoOn
  <2>2. \A v \in Worker : /\ job'[v].batch = job[v].batch /\ job'[v].heard = job[v].heard
                          /\ job[v].batch \in Batch => Ahead(v)' \subseteq Ahead(v)
    <3>1. Ahead(w)' \subseteq Ahead(w)
      BY <1>1, <1>2, WritesKeepCall, WritesGoOn, AheadShrinks
    <3>2. ASSUME NEW v \in Worker, v # w PROVE job'[v] = job[v] /\ Ahead(v)' = Ahead(v)
      <4>1. job'[v] = job[v]
        BY <1>1, <1>2, <3>2, WritesKeepCall
      <4> QED BY <4>1 DEF Ahead, Groups
    <3> QED BY <1>1, <1>2, <3>1, <3>2, WritesKeepCall
  <2> QED BY <1>1, <2>1, <2>2, OnceKept
<1>3. ASSUME NEW w \in Worker, Acquire(w) \/ LookupProject(w) \/ InsertProject(w) PROVE Once(b)'
  <2>1. /\ UNCHANGED <<spans, attempts, client>>
        /\ \A v \in Worker : v # w => job'[v] = job[v]
    BY <1>1, <1>3 DEF Acquire, LookupProject, InsertProject, store
  <2>2. /\ job'[w].batch = job[w].batch /\ job'[w].heard = job[w].heard
        /\ job'[w].group = job[w].group /\ job'[w].at = job[w].at
    <3>1. CASE Acquire(w)
      <4> DEFINE enabled == {k \in Breakpoint : breakpoints[k].state = "enabled"}
      <4>1. job' = [job EXCEPT ![w].pc = "project", ![w].watch = enabled]
        BY <3>1 DEF Acquire
      <4> HIDE DEF enabled
      <4> QED BY <1>1, <4>1 DEF Job
    <3>2. CASE LookupProject(w)
      BY <1>1, <3>2 DEF LookupProject, Job
    <3>3. CASE InsertProject(w)
      BY <1>1, <3>3 DEF InsertProject, Job
    <3> QED BY <1>3, <3>1, <3>2, <3>3
  <2>3. \A v \in Worker : Ahead(v)' = Ahead(v)
    BY <2>1, <2>2, AheadSame
  <2> QED BY <1>1, <2>1, <2>2, <2>3, OnceKept
<1>4. ASSUME NEW w \in Worker, NEW c \in Batch, Receive(w, c) PROVE Once(b)'
  <2>1. /\ job[w] = Idle /\ client[c] = "sent" /\ UNCHANGED <<spans, attempts>>
        /\ client' = [client EXCEPT ![c] = "received"]
        /\ job' = [job EXCEPT ![w].pc = "waiting", ![w].batch = c, ![w].heard = TRUE]
    BY <1>4, Zenon DEF Receive, store
  <2>2. /\ \A v \in Worker : v # w => job'[v] = job[v]
        /\ job'[w].batch = c /\ job'[w].heard /\ job[w].batch \notin Batch
    <3>1. job[w].batch = NoBatch
      BY <2>1 DEF Idle
    <3> QED BY <1>1, <2>1, <3>1, ScalarAssumption DEF Job
  <2>3. \A v \in Worker : v # w => Ahead(v)' = Ahead(v)
    BY <2>2, AheadSame
  <2>4. CASE b = c
    <3>1. attempts[b] = 1 => /\ \A v \in Worker : job[v].batch # b
                            /\ \A s \in SpansOf(b) : s \notin spans
      BY <1>1, <2>1, <2>4 DEF Once
    <3>2. Ahead(w)' \subseteq SpansOf(b)
      <4>1. Groups(w)' = Request[b].groups
        BY <2>2, <2>4 DEF Groups
      <4>2. Ahead(w)' \subseteq {s \in Span :
              \E g \in 1..Len(Request[b].groups) : \E i \in 1..Len(Request[b].groups[g].spans) :
                s = Request[b].groups[g].spans[i]}
        BY <4>1 DEF Ahead
      <4> QED BY <4>2, PlaceInBatch
    <3>3. attempts'[b] = attempts[b] /\ attempts[b] > 0 /\ client'[b] = "received"
      BY <1>1, <2>1, <2>4 DEF Once
    <3>4. ASSUME attempts[b] = 1, NEW v \in Worker, job'[v].batch = b
          PROVE  v = w /\ \A s \in Ahead(v)' : s \notin spans'
      BY <2>1, <2>2, <3>1, <3>2, <3>4
    <3> QED BY <2>2, <2>4, <3>3, <3>4 DEF Once
  <2>5. CASE b # c
    <3>1. client'[b] = client[b]
      BY <1>1, <2>1, <2>5
    <3>2. attempts[b] = 1 /\ client'[b] = "received" =>
            \E v \in Worker : job'[v].batch = b /\ job'[v].heard
      BY <1>1, <2>2, <3>1 DEF Once
    <3> QED BY <1>1, <2>1, <2>2, <2>3, <2>5, <3>1, <3>2, OnceStays
  <2> QED BY <2>4, <2>5
<1>5. ASSUME NEW c \in Batch, Send(c) PROVE Once(b)'
  <2>1. /\ client[c] = "queued" /\ client' = [client EXCEPT ![c] = "sent"]
        /\ attempts' = [attempts EXCEPT ![c] = @ + 1] /\ UNCHANGED <<spans, job>>
    BY <1>5, Zenon DEF Send, store
  <2>2. \A v \in Worker : Ahead(v)' = Ahead(v)
    BY <2>1 DEF Ahead, Groups
  <2>3. CASE b = c
    <3>1. attempts'[b] = attempts[b] + 1 /\ attempts[b] \in Nat /\ client'[b] = "sent"
      BY <1>1, <2>1, <2>3
    <3>2. attempts[b] = 0 => /\ \A v \in Worker : job[v].batch # b
                            /\ \A s \in SpansOf(b) : s \notin spans
      BY <1>1 DEF Once
    <3> QED BY <2>1, <3>1, <3>2 DEF Once
  <2>4. CASE b # c
    <3>1. client'[b] = client[b] /\ attempts'[b] = attempts[b]
      BY <1>1, <2>1, <2>4
    <3>2. attempts[b] = 1 /\ client'[b] = "received" =>
            \E v \in Worker : job'[v].batch = b /\ job'[v].heard
      BY <1>1, <2>1, <3>1 DEF Once
    <3> QED BY <1>1, <2>1, <2>2, <3>1, <3>2, OnceStays
  <2> QED BY <2>3, <2>4
<1>6. ASSUME NEW c \in Batch, GiveUp(c) PROVE Once(b)'
  <2>1. /\ client[c] \in {"sent", "received"} /\ client' = [client EXCEPT ![c] = AfterLoss(c)]
        /\ UNCHANGED <<spans, attempts>> /\ AfterLoss(c) \in {"queued", "dropped"}
    BY <1>6, Zenon DEF GiveUp, store, AfterLoss
  <2>2. \A v \in Worker : job'[v] = IF job[v].batch = c THEN [job[v] EXCEPT !.heard = FALSE] ELSE job[v]
    BY <1>6 DEF GiveUp
  <2>3. \A v \in Worker : /\ job'[v].batch = job[v].batch
                          /\ job'[v].group = job[v].group /\ job'[v].at = job[v].at
                          /\ job[v].batch # c => job'[v].heard = job[v].heard
    BY <1>1, <2>2 DEF Job
  <2>4. \A v \in Worker : Ahead(v)' = Ahead(v)
    BY <2>3, AheadSame
  <2>5. \/ client'[b] = client[b] /\ b # c
        \/ client[b] \in {"sent", "received"} /\ client'[b] \in {"queued", "dropped"}
    BY <1>1, <2>1
  <2>6. attempts[b] = 1 /\ client'[b] = "received" =>
          \E v \in Worker : job'[v].batch = b /\ job'[v].heard
    BY <1>1, <2>3, <2>5 DEF Once
  <2> QED BY <1>1, <2>1, <2>3, <2>4, <2>5, <2>6, OnceStays
<1>7. CASE Crash
  <2>1. /\ \A v \in Worker : job'[v].batch # b
        /\ UNCHANGED <<spans, attempts>>
    BY <1>7, ScalarAssumption DEF Crash, Idle, store
  <2>2. client'[b] = IF client[b] = "received" THEN AfterLoss(b) ELSE client[b]
    BY <1>7 DEF Crash
  <2>3. /\ client'[b] # "received"
        /\ \/ client'[b] = client[b]
           \/ client[b] \in {"sent", "received"} /\ client'[b] \in {"queued", "acked", "dropped"}
    BY <2>2 DEF AfterLoss
  <2> QED BY <1>1, <2>1, <2>3, OnceStays
<1>8. ASSUME UNCHANGED <<spans, attempts, client, job>> PROVE Once(b)'
  <2>1. \A v \in Worker : Ahead(v)' = Ahead(v)
    BY <1>8 DEF Ahead, Groups
  <2> QED BY <1>1, <1>8, <2>1, OnceKept
<1>9. ASSUME NEW k \in Breakpoint, AddBreakpoint(k) \/ DeleteBreakpoint(k) PROVE Once(b)'
  BY <1>8, <1>9, Zenon DEF AddBreakpoint, DeleteBreakpoint
<1>10. CASE UNCHANGED vars
  BY <1>8, <1>10 DEF vars
<1>11. ASSUME NEW w \in Worker, Handle(w) PROVE Once(b)'
  BY <1>1, <1>2, <1>3, <1>11, StoringIsOnce, LeavingIsOnce DEF Handle, Writes
<1> QED BY <1>4, <1>5, <1>6, <1>7, <1>9, <1>10, <1>11 DEF Next, Exporter

\* At the start nothing was sent.
LEMMA InitOInv == Init => OInv
<1> SUFFICES ASSUME Init PROVE OInv
  OBVIOUS
<1>1. Heard
  BY DEF Init, Heard, Idle
<1>2. \A b \in Batch : Once(b)
  BY ScalarAssumption DEF Init, Once, Idle
<1> QED BY <1>1, <1>2, InitIInv DEF OInv

\* Whoever takes the lock to read finds of a batch that was sent once, and whose caller
\* still waits or has its answer, nothing or everything (server.py:40, api.py:36).
THEOREM ReadersFindWholeBatches == Spec => []ReadersSeeWholeBatches
<1>1. DInv /\ OInv => ReadersSeeWholeBatches
  <2> SUFFICES ASSUME DInv, OInv, lock = Free, NEW b \in Batch, attempts[b] <= 1,
                      client[b] \in {"sent", "received", "acked"}
               PROVE  \/ \A s \in SpansOf(b) : s \notin spans
                      \/ \A s \in SpansOf(b) : Complete(s)
    BY DEF ReadersSeeWholeBatches
  <2>1. attempts[b] = 1 /\ Once(b)
    BY DEF OInv, IInv, TypeOK, Once
  <2>2. CASE client[b] = "sent"
    BY <2>1, <2>2 DEF Once
  <2>3. CASE client[b] = "received"
    <3>1. PICK w \in Worker : job[w].batch = b
      BY <2>1, <2>3 DEF Once
    <3>2. ~Writing(w)
      BY ScalarAssumption DEF OInv, IInv, LockHeldByWriter, Writing
    <3>3. job[w].group = 0
      BY <3>2 DEF OInv, IInv, Placement, Placed
    <3> QED BY <2>1, <3>1, <3>3, AheadInBatch DEF OInv, Once
  <2>4. CASE client[b] = "acked"
    BY <2>4 DEF DInv, AckedIsDurable
  <2> QED BY <2>2, <2>3, <2>4
<1> QED BY <1>1, InitDInv, NextDInv, InitOInv, NextOInv, PTL DEF Spec

-----------------------------------------------------------------------------
(* The aggregates of a trace. *)

\* A trace row was computed from a whole group of some request.
FromAGroup == \A t \in Trace : traces[t] # NoRow =>
  \E b \in Batch : \E g \in 1..Len(Request[b].groups) :
    /\ Request[b].groups[g].trace = t
    /\ traces[t].from = Elements(Request[b].groups[g].spans)

\* Rows of traces are written from groups only.
LEMMA NextFromAGroup == IInv /\ FromAGroup /\ [Next]_vars => FromAGroup'
<1> SUFFICES ASSUME IInv, FromAGroup, [Next]_vars PROVE FromAGroup'
  OBVIOUS
<1>1. ASSUME NEW w \in Worker, UpsertTrace(w) PROVE FromAGroup'
  <2> DEFINE b == job[w].batch
             g == job[w].group + 1
             row == [project |-> job[w].project, from |-> Elements(Groups(w)[g].spans)]
  <2>1. traces' = [traces EXCEPT ![Groups(w)[g].trace] = row]
    BY <1>1 DEF UpsertTrace
  <2>2. /\ b \in Batch /\ g \in 1..Len(Request[b].groups) /\ Groups(w) = Request[b].groups
        /\ Groups(w)[g].trace \in Trace
    BY <1>1, Position DEF UpsertTrace, IInv, Groups
  <2>3. row.from = Elements(Request[b].groups[g].spans)
    BY <2>2
  <2> HIDE DEF b, g, row
  <2>4. ASSUME NEW t \in Trace, traces'[t] # NoRow
        PROVE  \E c \in Batch : \E h \in 1..Len(Request[c].groups) :
                 /\ Request[c].groups[h].trace = t
                 /\ traces'[t].from = Elements(Request[c].groups[h].spans)
    <3>1. CASE t = Groups(w)[g].trace
      BY <2>1, <2>2, <2>3, <3>1 DEF IInv, TypeOK
    <3>2. CASE t # Groups(w)[g].trace
      <4>1. traces'[t] = traces[t]
        BY <2>1, <3>2 DEF IInv, TypeOK
      <4> QED BY <2>4, <4>1 DEF FromAGroup
    <3> QED BY <3>1, <3>2
  <2> QED BY <2>4 DEF FromAGroup
<1>2. CASE traces' = traces
  BY <1>2 DEF FromAGroup
<1>3. traces' = traces \/ \E w \in Worker : UpsertTrace(w)
  BY Zenon DEF Next, Handle, Exporter, Acquire, LookupProject, InsertProject,
     UpsertSpan, InsertMessage, InsertToolCall, UpsertLlmCache,
     RecordBreakpointHit, Reply, StatementFails, Send, GiveUp, Receive, Crash,
     AddBreakpoint, DeleteBreakpoint, store, vars
<1> QED BY <1>1, <1>2, <1>3

\* All spans of a trace there are.
Own(t) == {s \in Span : Info[s].trace = t}

\* When all spans of a trace are of one batch, one group of that batch has them all and
\* no other group has the trace.
LEMMA OneGroupHasAll ==
  ASSUME NEW b \in Batch, NEW t \in Trace, Own(t) \subseteq SpansOf(b),
         NEW c \in Batch, NEW g \in 1..Len(Request[c].groups), Request[c].groups[g].trace = t
  PROVE  Elements(Request[c].groups[g].spans) = Own(t)
<1>1. ASSUME NEW s \in Elements(Request[c].groups[g].spans) PROVE s \in Own(t)
  <2>1. PICK i \in 1..Len(Request[c].groups[g].spans) : s = Request[c].groups[g].spans[i]
    BY <1>1 DEF Elements
  <2>2. /\ Request[c].groups[g].spans[i] \in Span
        /\ Info[Request[c].groups[g].spans[i]].trace = Request[c].groups[g].trace
    BY <2>1, RequestFacts
  <2>3. s \in Span /\ Info[s].trace = t
    BY <2>1, <2>2
  <2> QED BY <2>3 DEF Own
<1>2. Len(Request[c].groups[g].spans) \in Nat /\ Len(Request[c].groups[g].spans) > 0
  BY RequestFacts, ByTraceAssumption
<1> DEFINE x == Request[c].groups[g].spans[1]
<1>3. 1 \in 1..Len(Request[c].groups[g].spans)
  BY <1>2
<1>4. x \in Own(t)
  BY <1>1, <1>3 DEF Elements
<1>5. x \in SpansOf(b)
  BY <1>4
<1>6. PICK h \in 1..Len(Request[b].groups) : \E k \in 1..Len(Request[b].groups[h].spans) :
        x = Request[b].groups[h].spans[k]
  <2> HIDE DEF x
  <2> QED BY <1>5, PlaceInBatch
<1>7. PICK k \in 1..Len(Request[b].groups[h].spans) : x = Request[b].groups[h].spans[k]
  BY <1>6
<1>8. x = Request[c].groups[g].spans[1]
  OBVIOUS
<1> HIDE DEF x
<1>9. c = b
  BY <1>3, <1>6, <1>7, <1>8, OnePlace, Zenon
<1>10. ASSUME NEW s \in Own(t) PROVE s \in Elements(Request[c].groups[g].spans)
  <2>1. PICK e \in 1..Len(Request[c].groups) : \E j \in 1..Len(Request[c].groups[e].spans) :
          s = Request[c].groups[e].spans[j]
    BY <1>9, PlaceInBatch
  <2>2. Request[c].groups[e].trace = t
    BY <2>1, RequestFacts DEF Own
  <2>3. e = g
    BY <2>1, <2>2, ByTraceAssumption
  <2> QED BY <2>1, <2>3 DEF Elements
<1> QED BY <1>1, <1>10

\* A trace whose spans were all acknowledged in one batch is listed with the aggregates
\* of the spans the store returns for it, whatever else is sent, fails or is sent again
\* (mapper.py:273-291, store.py:68-96).
THEOREM ListedTracesAgree == Spec => []ListedTraceAgrees
<1>1. Init => FromAGroup
  BY DEF Init, FromAGroup
<1>2. DInv /\ FromAGroup => ListedTraceAgrees
  <2> SUFFICES ASSUME DInv, FromAGroup, NEW b \in Batch, NEW t \in Trace,
                      client[b] = "acked", Own(t) # {}, Own(t) \subseteq SpansOf(b)
               PROVE  traces[t].from = {s \in spans : Info[s].trace = t}
    BY DEF ListedTraceAgrees, Own
  <2>1. Own(t) = {s \in spans : Info[s].trace = t}
    BY DEF DInv, AckedIsDurable, Complete, IInv, TypeOK, Own
  <2>2. traces[t] # NoRow
    BY <2>1 DEF DInv, IInv, ReferentialIntegrity
  <2>3. PICK c \in Batch : \E g \in 1..Len(Request[c].groups) :
          Request[c].groups[g].trace = t /\ traces[t].from = Elements(Request[c].groups[g].spans)
    BY <2>2 DEF FromAGroup
  <2>4. PICK g \in 1..Len(Request[c].groups) :
          Request[c].groups[g].trace = t /\ traces[t].from = Elements(Request[c].groups[g].spans)
    BY <2>3
  <2>5. Elements(Request[c].groups[g].spans) = Own(t)
    BY <2>3, <2>4, OneGroupHasAll
  <2> QED BY <2>1, <2>4, <2>5
<1>3. DInv => IInv
  BY DEF DInv
<1> QED BY <1>1, <1>2, <1>3, InitDInv, NextDInv, NextFromAGroup, PTL DEF Spec

-----------------------------------------------------------------------------
(* The hits of breakpoints. *)

Matching(b) == {s \in spans : b \in Info[s].breaks}
Pending(b)  == IF \E w \in Worker : b \in job[w].todo.hits THEN 1 ELSE 0

\* Hits that are still to be recorded are of a stored span that satisfies the condition,
\* and while nothing was sent twice they and those recorded have a span each.
CInv ==
  /\ IsFiniteSet(spans)
  /\ \A w \in Worker : \A b \in job[w].todo.hits : b \in Info[CurSpan(w)].breaks
  /\ \A b \in Breakpoint : breakpoints[b].last \in Matching(b) \cup {NoSpan}
  /\ (\A c \in Batch : attempts[c] <= 1) =>
       \A b \in Breakpoint : breakpoints[b].hits + Pending(b) <= Cardinality(Matching(b))

\* Only a handler with the lock has something to record.
LEMMA OneRecords ==
  ASSUME IInv, NEW w \in Worker, Writing(w), NEW v \in Worker, job[v].todo.hits # {}
  PROVE  v = w
<1>1. Writing(v)
  BY DEF IInv, Placement, Placed, Nothing
<1> QED BY <1>1 DEF IInv, LockHeldByWriter, Writing

\* Steps that store no span, record no hit and add none to be recorded.
LEMMA CountStays ==
  ASSUME IInv, IInv', CInv, spans' = spans,
         \A c \in Batch : attempts'[c] >= attempts[c],
         \A b \in Breakpoint : /\ breakpoints'[b].hits \in {0, breakpoints[b].hits}
                               /\ breakpoints'[b].last \in {NoSpan, breakpoints[b].last},
         \A w \in Worker : job'[w].todo.hits \subseteq job[w].todo.hits,
         \A w \in Worker : job'[w].todo.hits # {} => CurSpan(w)' = CurSpan(w)
  PROVE  CInv'
<1>1. \A b \in Breakpoint : Matching(b)' = Matching(b)
  BY DEF Matching
<1>2. \A w \in Worker : \A b \in job'[w].todo.hits : b \in Info[CurSpan(w)'].breaks
  BY DEF CInv
<1>3. \A b \in Breakpoint : breakpoints'[b].last \in Matching(b)' \cup {NoSpan}
  BY <1>1 DEF CInv
<1>4. ASSUME \A c \in Batch : attempts'[c] <= 1, NEW b \in Breakpoint
      PROVE  breakpoints'[b].hits + Pending(b)' <= Cardinality(Matching(b))'
  <2>1. \A c \in Batch : attempts[c] <= 1
    BY <1>4 DEF IInv, TypeOK
  <2>2. breakpoints[b].hits + Pending(b) <= Cardinality(Matching(b))
    BY <2>1 DEF CInv
  <2>3. /\ breakpoints[b].hits \in Nat /\ breakpoints'[b].hits \in Nat
        /\ Pending(b) \in {0, 1} /\ Pending(b)' \in {0, 1}
    BY DEF IInv, TypeOK, BreakpointRow, Pending
  <2>4. Pending(b)' <= Pending(b)
    BY DEF Pending
  <2>5. Cardinality(Matching(b)) \in Nat
    <3>1. IsFiniteSet(Matching(b))
      BY FS_Subset DEF CInv, Matching
    <3> QED BY <3>1, FS_CardinalityType
  <2>6. breakpoints'[b].hits + Pending(b)' <= breakpoints[b].hits + Pending(b)
    BY <2>3, <2>4
  <2> QED BY <1>1, <2>2, <2>3, <2>5, <2>6
<1> QED BY <1>2, <1>3, <1>4 DEF CInv

\* Cardinalities of stored matching spans.
LEMMA MatchingCounted ==
  ASSUME IsFiniteSet(spans), NEW b \in Breakpoint
  PROVE  IsFiniteSet(Matching(b)) /\ Cardinality(Matching(b)) \in Nat
<1>1. Matching(b) \in SUBSET spans
  BY DEF Matching
<1>2. IsFiniteSet(Matching(b))
  BY <1>1, FS_Subset
<1> QED BY <1>2, FS_CardinalityType

\* A span that is stored on its first delivery was not stored before, so that every hit
\* it owes has a span of its own.
LEMMA StoringIsCounted ==
  ASSUME OInv, OInv', CInv, NEW w \in Worker, UpsertSpan(w)
  PROVE  CInv'
<1> DEFINE s == NextSpan(w)
<1>1. /\ spans' = spans \cup {s} /\ UNCHANGED <<attempts, breakpoints>> /\ Writes(w)
      /\ MoreSpans(w) /\ Writing(w)
  BY DEF UpsertSpan, Writes
<1>2. /\ \A v \in Worker : v # w => job'[v] = job[v]
      /\ job'[w].batch = job[w].batch /\ job[w].batch \in Batch
      /\ job[w].group \in Nat /\ job[w].at \in Nat
      /\ job'[w].group = job[w].group /\ job'[w].at = job[w].at + 1
  BY <1>1, WritesKeepCall, WritesGoOn DEF OInv
<1>3. job'[w].todo.hits \subseteq Info[s].breaks /\ job'[w].todo.hits \subseteq Breakpoint
  <2> DEFINE rest == [messages |-> Info[NextSpan(w)].messages,
                      tool     |-> Info[NextSpan(w)].tool,
                      cache    |-> Info[NextSpan(w)].pins # NoHash,
                      hits     |-> Info[NextSpan(w)].breaks \cap job[w].watch]
  <2>1. job' = [job EXCEPT ![w].at = @ + 1, ![w].todo = rest]
    BY DEF UpsertSpan
  <2>2. rest.hits \subseteq Info[s].breaks /\ job[w].watch \subseteq Breakpoint
    BY DEF OInv, IInv, TypeOK, Job
  <2>3. rest.hits \subseteq Breakpoint
    BY <2>2
  <2> HIDE DEF rest, s
  <2>4. job'[w].todo = rest
    BY <2>1 DEF OInv, IInv, TypeOK, Job
  <2> QED BY <2>2, <2>3, <2>4
<1>4. CurSpan(w)' = s
  BY <1>2 DEF CurSpan, GroupOf, Groups, NextSpan
<1>5. \A v \in Worker : job[v].todo.hits = {}
  <2>1. job[w].todo.hits = {}
    BY <1>1 DEF MoreSpans, Nothing
  <2> QED BY <1>1, <2>1, OneRecords DEF OInv
<1>6. IsFiniteSet(spans')
  BY <1>1, FS_AddElement DEF CInv
<1>7. \A v \in Worker : \A b \in job'[v].todo.hits : b \in Info[CurSpan(v)'].breaks
  BY <1>2, <1>3, <1>4, <1>5
<1>8. \A b \in Breakpoint : Matching(b) \subseteq Matching(b)'
  BY <1>1 DEF Matching
<1>9. \A b \in Breakpoint : breakpoints'[b].last \in Matching(b)' \cup {NoSpan}
  BY <1>1, <1>8 DEF CInv
<1>10. ASSUME \A c \in Batch : attempts'[c] <= 1, NEW b \in Breakpoint
       PROVE  breakpoints'[b].hits + Pending(b)' <= Cardinality(Matching(b))'
  <2>1. breakpoints[b].hits + Pending(b) <= Cardinality(Matching(b))
    BY <1>1, <1>10 DEF CInv
  <2>2. Pending(b) = 0 /\ breakpoints[b].hits \in Nat
    BY <1>5 DEF Pending, OInv, IInv, TypeOK, BreakpointRow
  <2>3. /\ IsFiniteSet(Matching(b)) /\ Cardinality(Matching(b)) \in Nat
        /\ Cardinality(Matching(b))' \in Nat
    <3>1. IsFiniteSet(Matching(b)) /\ Cardinality(Matching(b)) \in Nat
      BY MatchingCounted DEF CInv
    <3>2. Matching(b)' \in SUBSET spans'
      BY DEF Matching
    <3>3. IsFiniteSet(Matching(b)')
      BY <1>6, <3>2, FS_Subset
    <3> QED BY <3>1, <3>3, FS_CardinalityType
  <2>4. CASE b \notin Info[s].breaks
    <3>1. Matching(b)' = Matching(b) /\ Pending(b)' = 0
      BY <1>1, <1>2, <1>3, <1>5, <2>4 DEF Matching, Pending
    <3> QED BY <1>1, <2>1, <2>2, <2>3, <3>1
  <2>5. CASE b \in Info[s].breaks
    <3>1. s \notin spans
      <4>1. job[w].group \in 1..Len(Groups(w)) /\ job[w].at + 1 \in 1..Len(GroupOf(w).spans)
            /\ s \in Span /\ s = Groups(w)[job[w].group].spans[job[w].at + 1]
        <5>1. Placed(w) /\ job[w].group > 0
          BY <1>1 DEF OInv, IInv, Placement, MoreSpans
        <5>2. Len(Groups(w)) \in Nat
          BY <1>2, RequestFacts DEF Groups
        <5>3. job[w].group \in 1..Len(Groups(w))
          BY <1>1, <1>2, <5>1, <5>2 DEF Placed
        <5> QED BY <1>1, <5>3, Position DEF OInv, IInv, NextSpan, GroupOf
      <4>2. s \in Ahead(w)
        <5> HIDE DEF s
        <5>1. job[w].at + 1 > job[w].at
          BY <1>2
        <5> QED BY <4>1, <5>1 DEF Ahead, GroupOf
      <4>3. attempts[job[w].batch] = 1
        <5>1. attempts[job[w].batch] \in Nat /\ attempts[job[w].batch] <= 1
          BY <1>1, <1>2, <1>10 DEF OInv, IInv, TypeOK
        <5>2. attempts[job[w].batch] # 0
          BY <1>2 DEF OInv, Once
        <5> QED BY <5>1, <5>2
      <4> QED BY <1>2, <4>2, <4>3 DEF OInv, Once
    <3>2. s \notin Matching(b) /\ Matching(b)' = Matching(b) \cup {s}
      BY <1>1, <2>5, <3>1 DEF Matching
    <3>3. Cardinality(Matching(b))' = Cardinality(Matching(b)) + 1
      BY <2>3, <3>2, FS_AddElement
    <3>4. Pending(b)' \in {0, 1}
      BY DEF Pending
    <3> QED BY <1>1, <2>1, <2>2, <2>3, <3>3, <3>4
  <2> QED BY <2>4, <2>5
<1> QED BY <1>6, <1>7, <1>9, <1>10 DEF CInv

\* A hit that is recorded is no longer pending.
LEMMA RecordingIsCounted ==
  ASSUME IInv, IInv', CInv, NEW w \in Worker, NEW k \in Breakpoint, RecordBreakpointHit(w, k)
  PROVE  CInv'
<1>1. /\ UNCHANGED <<spans, attempts>> /\ Writes(w) /\ Writing(w) /\ k \in job[w].todo.hits
      /\ job \in [Worker -> Job] /\ breakpoints \in [Breakpoint -> BreakpointRow]
      /\ \/ breakpoints' = [breakpoints EXCEPT ![k].hits = @ + 1, ![k].last = CurSpan(w)]
         \/ breakpoints' = breakpoints
  BY DEF RecordBreakpointHit, Writes, IInv, TypeOK
<1>2. /\ \A v \in Worker : v # w => job'[v] = job[v]
      /\ job'[w].todo.hits = job[w].todo.hits \ {k}
      /\ CurSpan(w)' = CurSpan(w)
  <2> DEFINE t == [job[w].todo EXCEPT !.hits = job[w].todo.hits \ {k}]
  <2>1. job' = [job EXCEPT ![w].todo = t]
    BY DEF RecordBreakpointHit
  <2>2. t.hits = job[w].todo.hits \ {k}
    BY <1>1 DEF Job, Todo
  <2> HIDE DEF t
  <2>3. job'[w].todo = t /\ job'[w].batch = job[w].batch /\ job'[w].group = job[w].group
        /\ job'[w].at = job[w].at
    BY <1>1, <2>1 DEF Job
  <2> QED BY <1>1, <2>1, <2>2, <2>3 DEF CurSpan, GroupOf, Groups
<1>3. \A v \in Worker : job[v].todo.hits # {} => v = w
  BY <1>1, OneRecords
<1>4. CurSpan(w) \in Matching(k)
  <2>1. job[w].todo # Nothing
    BY <1>1 DEF Nothing
  <2>2. CurSpan(w) \in spans
    BY <1>1, <2>1, Position DEF IInv
  <2> QED BY <1>1, <2>2 DEF CInv, Matching
<1>5. \A b \in Breakpoint : Matching(b)' = Matching(b)
  BY <1>1 DEF Matching
<1>6. /\ \A b \in Breakpoint : b # k => breakpoints'[b] = breakpoints[b]
      /\ breakpoints'[k].hits \in {breakpoints[k].hits, breakpoints[k].hits + 1}
      /\ breakpoints'[k].last \in {breakpoints[k].last, CurSpan(w)}
  BY <1>1 DEF BreakpointRow
<1>7. \A v \in Worker : \A b \in job'[v].todo.hits : b \in Info[CurSpan(v)'].breaks
  BY <1>2, <1>3 DEF CInv
<1>8. \A b \in Breakpoint : breakpoints'[b].last \in Matching(b)' \cup {NoSpan}
  BY <1>4, <1>5, <1>6 DEF CInv
<1>9. ASSUME \A c \in Batch : attempts'[c] <= 1, NEW b \in Breakpoint
      PROVE  breakpoints'[b].hits + Pending(b)' <= Cardinality(Matching(b))'
  <2>1. breakpoints[b].hits + Pending(b) <= Cardinality(Matching(b))
    BY <1>1, <1>9 DEF CInv
  <2>2. /\ breakpoints[b].hits \in Nat /\ Cardinality(Matching(b)) \in Nat
        /\ Pending(b) \in {0, 1} /\ Pending(b)' \in {0, 1}
    BY <1>1, MatchingCounted DEF BreakpointRow, CInv, Pending
  <2>3. CASE b = k
    <3>1. Pending(k) = 1 /\ Pending(k)' = 0
      BY <1>1, <1>2, <1>3 DEF Pending
    <3> QED BY <1>5, <1>6, <2>1, <2>2, <2>3, <3>1
  <2>4. CASE b # k
    <3>1. Pending(b)' <= Pending(b)
      BY <1>2, <1>3, <2>2 DEF Pending
    <3> QED BY <1>5, <1>6, <2>1, <2>2, <2>4, <3>1
  <2> QED BY <2>3, <2>4
<1> QED BY <1>1, <1>7, <1>8, <1>9 DEF CInv

\* Every step keeps hits and spans in step.
LEMMA NextCInv == OInv /\ CInv /\ [Next]_vars => CInv'
<1> SUFFICES ASSUME OInv, CInv, [Next]_vars PROVE CInv'
  OBVIOUS
<1>1. /\ IInv /\ IInv' /\ OInv' /\ job \in [Worker -> Job] /\ \A w \in Worker : job[w] \in Job
      /\ attempts \in [Batch -> Nat]
  BY NextIInv, NextOInv DEF OInv, IInv, TypeOK
<1>2. ASSUME NEW w \in Worker, UpsertTrace(w) \/ InsertMessage(w) \/ InsertToolCall(w) \/ UpsertLlmCache(w)
      PROVE  CInv'
  <2>1. /\ Writes(w) /\ ~UpsertSpan(w) /\ UNCHANGED <<attempts, breakpoints>>
        /\ \/ UpsertTrace(w)
           \/ ~UpsertTrace(w)
    <3>1. Writes(w) /\ UNCHANGED <<attempts, breakpoints>>
      BY <1>2 DEF Writes, UpsertTrace, InsertMessage, InsertToolCall, UpsertLlmCache
    <3>2. ~UpsertSpan(w)
      <4>1. ~UpsertTrace(w) => job[w].todo # Nothing
        BY <1>2 DEF InsertMessage, InsertToolCall, UpsertLlmCache, CacheNext, Nothing
      <4>2. UpsertTrace(w) => ~MoreSpans(w)
        BY DEF UpsertTrace, GroupDone, MoreSpans
      <4> QED BY <4>1, <4>2 DEF UpsertSpan, MoreSpans
    <3> QED BY <3>1, <3>2
  <2>2. UNCHANGED spans /\ \A v \in Worker : v # w => job'[v] = job[v]
    BY <1>1, <2>1, WritesKeepCall, WritesGoOn
  <2>3. \A v \in Worker : job'[v].todo.hits \subseteq job[v].todo.hits
    BY <1>1, <2>1, <2>2, WritesGoOn
  <2>4. ASSUME NEW v \in Worker, job'[v].todo.hits # {} PROVE CurSpan(v)' = CurSpan(v)
    <3>1. CASE v # w
      BY <2>2, <3>1 DEF CurSpan, GroupOf, Groups
    <3>2. CASE v = w /\ UpsertTrace(w)
      <4>1. job[w].todo.hits = {}
        BY <3>2 DEF UpsertTrace, GroupDone, Nothing
      <4> QED BY <2>3, <2>4, <3>2, <4>1
    <3>3. CASE v = w /\ ~UpsertTrace(w)
      <4>1. job'[w].group = job[w].group /\ job'[w].at = job[w].at /\ job'[w].batch = job[w].batch
        BY <1>1, <2>1, <3>3, WritesGoOn, WritesKeepCall
      <4> QED BY <3>3, <4>1 DEF CurSpan, GroupOf, Groups
    <3> QED BY <3>1, <3>2, <3>3
  <2> QED BY <1>1, <2>1, <2>2, <2>3, <2>4, CountStays
<1>3. ASSUME UNCHANGED spans, UNCHANGED breakpoints,
             \A c \in Batch : attempts'[c] >= attempts[c],
             \A v \in Worker : job'[v].todo.hits = {} \/ job'[v] = job[v]
                               \/ /\ job'[v].todo = job[v].todo /\ job'[v].batch = job[v].batch
                                  /\ job'[v].group = job[v].group /\ job'[v].at = job[v].at
      PROVE  CInv'
  <2>1. \A v \in Worker : /\ job'[v].todo.hits \subseteq job[v].todo.hits
                          /\ job'[v].todo.hits # {} => CurSpan(v)' = CurSpan(v)
    BY <1>3 DEF CurSpan, GroupOf, Groups
  <2> QED BY <1>1, <1>3, <2>1, CountStays
<1>4. \A c \in Batch : attempts[c] >= attempts[c]
  BY <1>1
<1>5. ASSUME NEW w \in Worker, Acquire(w) \/ LookupProject(w) \/ InsertProject(w) PROVE CInv'
  <2>1. /\ UNCHANGED <<spans, attempts, breakpoints>>
        /\ \A v \in Worker : v # w => job'[v] = job[v]
    BY <1>1, <1>5 DEF Acquire, LookupProject, InsertProject, store
  <2>2. /\ job'[w].batch = job[w].batch /\ job'[w].todo = job[w].todo
        /\ job'[w].group = job[w].group /\ job'[w].at = job[w].at
    <3>1. CASE Acquire(w)
      <4> DEFINE enabled == {k \in Breakpoint : breakpoints[k].state = "enabled"}
      <4>1. job' = [job EXCEPT ![w].pc = "project", ![w].watch = enabled]
        BY <3>1 DEF Acquire
      <4> HIDE DEF enabled
      <4> QED BY <1>1, <4>1 DEF Job
    <3>2. CASE LookupProject(w)
      BY <1>1, <3>2 DEF LookupProject, Job
    <3>3. CASE InsertProject(w)
      BY <1>1, <3>3 DEF InsertProject, Job
    <3> QED BY <1>5, <3>1, <3>2, <3>3
  <2> QED BY <1>3, <1>4, <2>1, <2>2
<1>6. ASSUME NEW w \in Worker, Reply(w) \/ StatementFails(w) PROVE CInv'
  <2>1. job' = [job EXCEPT ![w] = Idle] /\ UNCHANGED <<spans, attempts, breakpoints>>
    BY <1>6 DEF Reply, StatementFails, store
  <2>2. job'[w].todo.hits = {} /\ \A v \in Worker : v # w => job'[v] = job[v]
    BY <1>1, <2>1 DEF Idle, Nothing
  <2> QED BY <1>3, <1>4, <2>1, <2>2
<1>7. ASSUME NEW c \in Batch, Exporter(c) PROVE CInv'
  <2>1. UNCHANGED <<spans, breakpoints>>
    BY <1>7, Zenon DEF Exporter, Send, GiveUp, Receive, store
  <2>2. \A d \in Batch : attempts'[d] >= attempts[d]
    <3>1. attempts' = attempts \/ attempts' = [attempts EXCEPT ![c] = attempts[c] + 1]
      BY <1>7, Zenon DEF Exporter, Send, GiveUp, Receive
    <3> QED BY <1>1, <3>1
  <2>3. \A v \in Worker : job'[v].todo = job[v].todo /\ (job'[v].todo.hits # {} => job'[v].batch = job[v].batch)
                          /\ job'[v].group = job[v].group /\ job'[v].at = job[v].at
    <3>1. CASE Send(c)
      BY <3>1 DEF Send
    <3>2. CASE GiveUp(c)
      <4>1. \A v \in Worker : job'[v] = IF job[v].batch = c THEN [job[v] EXCEPT !.heard = FALSE] ELSE job[v]
        BY <3>2 DEF GiveUp
      <4> QED BY <1>1, <4>1 DEF Job
    <3>3. ASSUME NEW w \in Worker, Receive(w, c) 
          PROVE  \A v \in Worker : job'[v].todo = job[v].todo
                          /\ (job'[v].todo.hits # {} => job'[v].batch = job[v].batch)
                          /\ job'[v].group = job[v].group /\ job'[v].at = job[v].at
      <4>1. /\ job[w] = Idle
            /\ job' = [job EXCEPT ![w].pc = "waiting", ![w].batch = c, ![w].heard = TRUE]
        BY <3>3 DEF Receive
      <4>2. job'[w].todo = job[w].todo /\ job'[w].group = job[w].group /\ job'[w].at = job[w].at
        BY <1>1, <4>1 DEF Job
      <4>3. job[w].todo.hits = {}
        BY <4>1 DEF Idle, Nothing
      <4>4. \A v \in Worker : v # w => job'[v] = job[v]
        BY <1>1, <4>1
      <4> QED BY <4>2, <4>3, <4>4
    <3> QED BY <1>7, <3>1, <3>2, <3>3 DEF Exporter
  <2> QED BY <1>3, <2>1, <2>2, <2>3
<1>8. CASE Crash
  <2>1. UNCHANGED <<spans, attempts, breakpoints>> /\ \A v \in Worker : job'[v] = Idle
    BY <1>8 DEF Crash, store
  <2>2. \A v \in Worker : job'[v].todo.hits = {}
    BY <2>1 DEF Idle, Nothing
  <2> QED BY <1>3, <1>4, <2>1, <2>2
<1>9. ASSUME NEW k \in Breakpoint, AddBreakpoint(k) \/ DeleteBreakpoint(k) PROVE CInv'
  <2>1. UNCHANGED <<spans, attempts, job>>
    BY <1>9, Zenon DEF AddBreakpoint, DeleteBreakpoint
  <2>2. breakpoints \in [Breakpoint -> BreakpointRow] /\ breakpoints[k] \in BreakpointRow
    BY <1>1 DEF IInv, TypeOK
  <2>3. \/ breakpoints' = breakpoints
        \/ breakpoints' = [breakpoints EXCEPT ![k].state = "enabled"]
        \/ breakpoints' = [breakpoints EXCEPT ![k] = [state |-> "deleted", hits |-> 0, last |-> NoSpan]]
    BY <1>9 DEF AddBreakpoint, DeleteBreakpoint
  <2>4. \A b \in Breakpoint : /\ breakpoints'[b].hits \in {0, breakpoints[b].hits}
                              /\ breakpoints'[b].last \in {NoSpan, breakpoints[b].last}
    BY <2>2, <2>3 DEF BreakpointRow
  <2>5. \A v \in Worker : CurSpan(v)' = CurSpan(v)
    BY <2>1 DEF CurSpan, GroupOf, Groups
  <2> QED BY <1>1, <1>4, <2>1, <2>4, <2>5, CountStays
<1>10. CASE UNCHANGED vars
  BY <1>3, <1>4, <1>10 DEF vars
<1>11. ASSUME NEW w \in Worker, Handle(w) PROVE CInv'
  BY <1>1, <1>2, <1>5, <1>6, <1>11, StoringIsCounted, RecordingIsCounted DEF Handle
<1> QED BY <1>7, <1>8, <1>9, <1>10, <1>11 DEF Next

\* While nothing was delivered twice a breakpoint has counted at most the stored spans
\* that satisfy its condition, and the span it shows as its last hit is one of them
\* (store.py:236-263, mapper.py:311-333).
THEOREM HitsCountSpans == Spec => []HitsCountStoredSpans
<1>1. Init => CInv
  <2> SUFFICES ASSUME Init PROVE CInv
    OBVIOUS
  <2>1. /\ spans = {} /\ \A w \in Worker : job[w].todo.hits = {}
        /\ \A b \in Breakpoint : breakpoints[b].hits = 0 /\ breakpoints[b].last = NoSpan
    BY DEF Init, Idle, Nothing
  <2>2. IsFiniteSet(spans)
    BY <2>1, FS_EmptySet
  <2>3. ASSUME NEW b \in Breakpoint
        PROVE  breakpoints[b].hits + Pending(b) <= Cardinality(Matching(b))
    <3>1. Matching(b) = {} /\ Pending(b) = 0
      BY <2>1 DEF Matching, Pending
    <3> QED BY <2>1, <3>1, FS_EmptySet
  <2> QED BY <2>1, <2>2, <2>3 DEF CInv
<1>2. OInv /\ CInv => HitsCountStoredSpans
  <2> SUFFICES ASSUME OInv, CInv, NEW b \in Breakpoint
               PROVE  /\ (\A c \in Batch : attempts[c] <= 1) => breakpoints[b].hits <= Cardinality(Matching(b))
                      /\ breakpoints[b].last \in Matching(b) \cup {NoSpan}
    BY DEF HitsCountStoredSpans, Matching
  <2>1. breakpoints[b].hits \in Nat /\ Pending(b) \in {0, 1} /\ Cardinality(Matching(b)) \in Nat
    BY MatchingCounted DEF OInv, IInv, TypeOK, BreakpointRow, Pending, CInv
  <2> QED BY <2>1 DEF CInv
<1> QED BY <1>1, <1>2, InitOInv, NextOInv, NextCInv, PTL DEF Spec
==================================================================================
