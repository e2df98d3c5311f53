----------------------------- MODULE WorkbenchProofs -----------------------------
(***************************************************************************)
(* The Workbench's store, for every set of traces, spans and breakpoints   *)
(* and any number of calls under way: its fields keep their meaning, and   *)
(* panes that have come to rest agree with the selection.                  *)
(***************************************************************************)
EXTENDS Workbench, SequenceTheorems, WellFoundedInduction, TLAPS

-----------------------------------------------------------------------------
(* Calls under way *)

\* A call that is in order: a replay is asked for with a span and a trace, and only the
\* chain of confirmBranch has its `finally' ahead.
CallOK(c) ==
  /\ c \in Call
  /\ c.op = "branch" => c.span # NoSpan /\ c.trace # NoTrace
  /\ c.closes => c.op \in {"branch", "traces", "breakpoints", "spans"}

CallsOK(q) == q \in Seq(Call) /\ \A k \in 1..Len(q) : CallOK(q[k])
Closed(q)  == \E k \in 1..Len(q) : q[k].closes

\* What is left when a call has come back.
LEMMA Removed ==
  ASSUME NEW S, NEW q \in Seq(S), NEW i \in 1..Len(q)
  PROVE  /\ RemoveAt(q, i) \in Seq(S) /\ Len(RemoveAt(q, i)) = Len(q) - 1 /\ Len(q) \in Nat
         /\ \A k \in 1..(Len(q) - 1) : RemoveAt(q, i)[k] = q[IF k < i THEN k ELSE k + 1]
<1> DEFINE before == SubSeq(q, 1, i - 1)
           after  == SubSeq(q, i + 1, Len(q))
<1>1. Len(q) \in Nat /\ i \in Nat /\ \A k \in 1..Len(q) : q[k] \in S
  BY LenProperties
<1>2. \A k \in 1..(i - 1) : q[k] \in S
  BY <1>1
<1>3. \A k \in (i + 1)..Len(q) : q[k] \in S
  BY <1>1
<1>4. /\ before \in Seq(S) /\ Len(before) = i - 1
      /\ \A k \in 1..(i - 1) : before[k] = q[k]
  <2>1. /\ before \in Seq(S) /\ Len(before) = IF 1 <= i - 1 THEN (i - 1) - 1 + 1 ELSE 0
        /\ \A k \in 1..((i - 1) - 1 + 1) : before[k] = q[1 + k - 1]
    BY <1>1, <1>2, SubSeqProperties
  <2> HIDE DEF before
  <2> QED BY <1>1, <2>1
<1>5. /\ after \in Seq(S) /\ Len(after) = Len(q) - i
      /\ \A k \in 1..(Len(q) - i) : after[k] = q[k + i]
  <2>1. /\ after \in Seq(S) /\ Len(after) = IF i + 1 <= Len(q) THEN Len(q) - (i + 1) + 1 ELSE 0
        /\ \A k \in 1..(Len(q) - (i + 1) + 1) : after[k] = q[(i + 1) + k - 1]
    BY <1>1, <1>3, SubSeqProperties
  <2> HIDE DEF after
  <2> QED BY <1>1, <2>1
<1>6. RemoveAt(q, i) = before \o after
  BY DEF RemoveAt
<1> HIDE DEF before, after
<1>7. /\ before \o after \in Seq(S) /\ Len(before \o after) = Len(q) - 1
      /\ \A k \in 1..(Len(q) - 1) : (before \o after)[k] = IF k <= i - 1 THEN before[k] ELSE after[k - (i - 1)]
  <2>1. /\ before \o after \in Seq(S) /\ Len(before \o after) = Len(before) + Len(after)
        /\ \A k \in 1..(Len(before) + Len(after)) :
             (before \o after)[k] = IF k <= Len(before) THEN before[k] ELSE after[k - Len(before)]
    BY <1>4, <1>5, ConcatProperties
  <2>2. Len(before) + Len(after) = Len(q) - 1
    BY <1>1, <1>4, <1>5
  <2> QED BY <1>4, <2>1, <2>2
<1>8. ASSUME NEW k \in 1..(Len(q) - 1)
      PROVE  (before \o after)[k] = q[IF k < i THEN k ELSE k + 1]
  <2>1. CASE k < i
    BY <1>1, <1>4, <1>7, <2>1
  <2>2. CASE ~(k < i)
    <3>1. k - (i - 1) \in 1..(Len(q) - i) /\ (k - (i - 1)) + i = k + 1
      BY <1>1, <2>2
    <3> QED BY <1>1, <1>5, <1>7, <2>2, <3>1
  <2> QED BY <2>1, <2>2
<1> QED BY <1>1, <1>6, <1>7, <1>8

\* Calls stay in order as they come back and are made.
LEMMA CallsStayOK ==
  ASSUME NEW q, CallsOK(q)
  PROVE  /\ \A c : CallOK(c) => CallsOK(Append(q, c))
         /\ \A i \in 1..Len(q) : CallsOK(RemoveAt(q, i))
<1>1. q \in Seq(Call) /\ Len(q) \in Nat
  BY LenProperties DEF CallsOK
<1>2. ASSUME NEW c, CallOK(c) PROVE CallsOK(Append(q, c))
  <2>1. /\ Append(q, c) \in Seq(Call) /\ Len(Append(q, c)) = Len(q) + 1
        /\ \A k \in 1..Len(q) : Append(q, c)[k] = q[k]
        /\ Append(q, c)[Len(q) + 1] = c
    BY <1>1, <1>2, AppendProperties DEF CallOK
  <2>2. \A k \in 1..Len(Append(q, c)) : k \in 1..Len(q) \/ k = Len(q) + 1
    BY <1>1, <2>1
  <2> QED BY <1>2, <2>1, <2>2 DEF CallsOK
<1>3. ASSUME NEW i \in 1..Len(q) PROVE CallsOK(RemoveAt(q, i))
  <2>1. /\ RemoveAt(q, i) \in Seq(Call) /\ Len(RemoveAt(q, i)) = Len(q) - 1
        /\ \A k \in 1..(Len(q) - 1) : RemoveAt(q, i)[k] = q[IF k < i THEN k ELSE k + 1]
    BY <1>1, Removed
  <2>2. \A k \in 1..(Len(q) - 1) : (IF k < i THEN k ELSE k + 1) \in 1..Len(q)
    BY <1>1
  <2> QED BY <2>1, <2>2 DEF CallsOK
<1> QED BY <1>2, <1>3

\* Somebody still closes the dialog, unless it was the call that came back.
LEMMA ClosedStays ==
  ASSUME NEW q \in Seq(Call), NEW c \in Call
  PROVE  /\ Closed(q) \/ c.closes => Closed(Append(q, c))
         /\ \A i \in 1..Len(q) : Closed(q) /\ ~q[i].closes => Closed(RemoveAt(q, i))
<1>1. /\ Len(Append(q, c)) = Len(q) + 1 /\ Len(q) \in Nat
      /\ \A k \in 1..Len(q) : Append(q, c)[k] = q[k]
      /\ Append(q, c)[Len(q) + 1] = c
  BY AppendProperties, LenProperties
<1>2. Closed(q) \/ c.closes => Closed(Append(q, c))
  <2>1. Len(q) + 1 \in 1..Len(Append(q, c)) /\ \A k \in 1..Len(q) : k \in 1..Len(Append(q, c))
    BY <1>1
  <2> QED BY <1>1, <2>1 DEF Closed
<1>3. ASSUME NEW i \in 1..Len(q), Closed(q), ~q[i].closes PROVE Closed(RemoveAt(q, i))
  <2>1. PICK k \in 1..Len(q) : q[k].closes
    BY <1>3 DEF Closed
  <2>2. /\ Len(RemoveAt(q, i)) = Len(q) - 1
        /\ \A l \in 1..(Len(q) - 1) : RemoveAt(q, i)[l] = q[IF l < i THEN l ELSE l + 1]
    BY Removed
  <2>3. PICK l \in 1..(Len(q) - 1) : (IF l < i THEN l ELSE l + 1) = k
    <3>1. k # i /\ i \in Nat
      BY <1>3, <2>1
    <3>2. CASE k < i
      <4>1. k \in 1..(Len(q) - 1)
        BY <1>1, <3>1, <3>2
      <4> QED BY <3>2, <4>1
    <3>3. CASE k > i
      <4>1. k - 1 \in 1..(Len(q) - 1) /\ ~(k - 1 < i) /\ (k - 1) + 1 = k
        BY <1>1, <3>1, <3>3
      <4> QED BY <4>1
    <3> QED BY <3>1, <3>2, <3>3
  <2> QED BY <2>1, <2>2, <2>3 DEF Closed
<1> QED BY <1>2, <1>3

-----------------------------------------------------------------------------
(* The newest hit *)

\* Among hits that are dated one is the newest, whatever the server has counted.
LEMMA NewestIsAHit ==
  ASSUME NEW h \in Hits
  PROVE  NewestHit(h) \in Hit \cup {NoHit}
<1> DEFINE dated == {h[b] : b \in Breakpoint} \ {NoHit, Unset}
           below == OpToRel(<, Nat)
           T == {MaxHits - x.at : x \in dated}
<1>1. MaxHits \in Nat
  BY WorkbenchAssumption
<1>2. dated \subseteq Hit
  BY DEF Hits
<1>3. NewestHit(h) = IF dated = {} THEN NoHit ELSE CHOOSE x \in dated : \A y \in dated : y.at <= x.at
  BY DEF NewestHit
<1>4. ASSUME dated # {} PROVE (CHOOSE x \in dated : \A y \in dated : y.at <= x.at) \in dated
  <2> HIDE DEF dated
  <2>1. \A x \in dated : x.at \in 1..MaxHits
    BY <1>2 DEF Hit
  <2>2. T \subseteq Nat /\ T # {}
    BY <1>1, <1>4, <2>1
  <2>3. PICK u \in T : \A v \in T : ~ (<<v, u>> \in below)
    <3> HIDE DEF T, below
    <3> QED BY <2>2, NatLessThanWellFounded, WFMin DEF below
  <2>4. \A v \in T : ~(v < u)
    BY <2>2, <2>3 DEF OpToRel
  <2>5. PICK x \in dated : u = MaxHits - x.at
    OBVIOUS
  <2>6. \A y \in dated : MaxHits - y.at \in T
    OBVIOUS
  <2> HIDE DEF T
  <2>7. \A y \in dated : y.at <= x.at
    BY <1>1, <2>1, <2>4, <2>5, <2>6
  <2> QED BY <2>7
<1> HIDE DEF dated
<1> QED BY <1>2, <1>3, <1>4

-----------------------------------------------------------------------------
(* The fields *)

Fields ==
  /\ connected \in BOOLEAN /\ listed \in BOOLEAN /\ inOrder \in BOOLEAN
  /\ selectedTraceId \in Trace \cup {NoTrace} /\ spans \subseteq Span
  /\ selectedSpanId \in Span \cup {NoSpan} /\ messages \in Span \cup {NoSpan}
  /\ bpSig \in Hit \cup {NoHit}
  /\ branchModal \in Modal
  /\ hits \in Hits
  /\ now \in 0..MaxHits /\ errors \in Nat

\* The inductive invariant: the dialog that says `replaying' is waited for.
BInv == Fields /\ CallsOK(calls) /\ (branchModal.busy => Closed(calls))

\* It implies the type invariant that the runs check.
LEMMA BInvTypes == ASSUME BInv PROVE TypeOK
<1>1. {connected, listed, inOrder} \subseteq BOOLEAN
  BY DEF BInv, Fields
<1>2. {selectedSpanId, messages} \subseteq Span \cup {NoSpan}
  BY DEF BInv, Fields
<1>3. calls \in Seq(Call) /\ \A k \in 1..Len(calls) :
        calls[k].op = "branch" => calls[k].span # NoSpan /\ calls[k].trace # NoTrace
  BY DEF BInv, CallsOK, CallOK
<1>4. branchModal.busy => \E k \in 1..Len(calls) : calls[k].closes
  BY DEF BInv, Closed
<1> QED BY <1>1, <1>2, <1>3, <1>4 DEF BInv, Fields, TypeOK

\* The calls the store makes.
LEMMA CallsMade ==
  /\ \A op \in {"health", "projects", "traces", "breakpoints", "spans", "messages",
                "toolCall", "add", "delete"} : CallOK(Plain(op)) /\ ~Plain(op).closes
  /\ \A t \in Trace, s \in Span \cup {NoSpan} :
       CallOK(GetSpans(t, s)) /\ GetSpans(t, s).op = "spans" /\ GetSpans(t, s).trace = t
  /\ \A s \in Span : CallOK(GetMessages(s)) /\ GetMessages(s).op = "messages" /\ GetMessages(s).span = s
  /\ \A s \in Span : CallOK([Plain("toolCall") EXCEPT !.span = s])
  /\ \A op \in {"add", "delete"}, b \in Breakpoint : CallOK([Plain(op) EXCEPT !.bp = b])
  /\ \A t \in Trace, s \in Span :
       LET c == [Plain("branch") EXCEPT !.trace = t, !.span = s, !.closes = TRUE]
       IN  CallOK(c) /\ c.closes
  /\ \A op \in {"traces", "breakpoints"}, e \in BOOLEAN :
       LET c == [Plain(op) EXCEPT !.closes = e] IN CallOK(c) /\ (c.closes <=> e) /\ c.op = op
<1>1. NoTrace \notin Trace /\ NoSpan \notin Span
  BY WorkbenchAssumption
<1> USE DEF CallOK, Call, Plain, GetSpans, GetMessages
<1>2. \A op \in {"health", "projects", "traces", "breakpoints", "spans", "messages",
                "toolCall", "add", "delete"} : CallOK(Plain(op)) /\ ~Plain(op).closes
  OBVIOUS
<1>3. \A t \in Trace, s \in Span \cup {NoSpan} :
       CallOK(GetSpans(t, s)) /\ GetSpans(t, s).op = "spans" /\ GetSpans(t, s).trace = t
  OBVIOUS
<1>4. \A s \in Span : CallOK(GetMessages(s)) /\ GetMessages(s).op = "messages" /\ GetMessages(s).span = s
  OBVIOUS
<1>5. \A s \in Span : CallOK([Plain("toolCall") EXCEPT !.span = s])
  OBVIOUS
<1>6. \A op \in {"add", "delete"}, b \in Breakpoint : CallOK([Plain(op) EXCEPT !.bp = b])
  OBVIOUS
<1>7. ASSUME NEW t \in Trace, NEW s \in Span
      PROVE  LET c == [Plain("branch") EXCEPT !.trace = t, !.span = s, !.closes = TRUE]
             IN  CallOK(c) /\ c.closes
  BY <1>1
<1>8. ASSUME NEW op \in {"traces", "breakpoints"}, NEW e \in BOOLEAN
      PROVE  LET c == [Plain(op) EXCEPT !.closes = e] IN CallOK(c) /\ (c.closes <=> e) /\ c.op = op
  OBVIOUS
<1> QED BY <1>2, <1>3, <1>4, <1>5, <1>6, <1>7, <1>8

\* A call is made.
LEMMA Made == ASSUME BInv, NEW c, CallOK(c), Ask(c)
  PROVE CallsOK(calls') /\ (Closed(calls) \/ c.closes => Closed(calls'))
BY CallsStayOK, ClosedStays DEF BInv, Ask, CallsOK, CallOK

\* A call has come back, and perhaps another is made.
LEMMA CameBack == ASSUME BInv, NEW i \in 1..Len(calls)
  PROVE  /\ Done(i) => /\ CallsOK(calls')
                       /\ Closed(calls) /\ ~calls[i].closes => Closed(calls')
         /\ \A c : CallOK(c) /\ DoneThen(i, c) =>
                       /\ CallsOK(calls')
                       /\ (Closed(calls) /\ ~calls[i].closes) \/ c.closes => Closed(calls')
<1>1. CallsOK(calls) /\ calls \in Seq(Call)
  BY DEF BInv, CallsOK
<1>2. CallsOK(RemoveAt(calls, i)) /\ RemoveAt(calls, i) \in Seq(Call)
  BY <1>1, CallsStayOK DEF CallsOK
<1>3. Closed(calls) /\ ~calls[i].closes => Closed(RemoveAt(calls, i))
  BY <1>1, ClosedStays, CallsMade DEF CallOK, CallsOK
<1>4. ASSUME NEW c, CallOK(c)
      PROVE  /\ CallsOK(Append(RemoveAt(calls, i), c))
             /\ Closed(RemoveAt(calls, i)) \/ c.closes => Closed(Append(RemoveAt(calls, i), c))
  BY <1>2, <1>4, CallsStayOK, ClosedStays DEF CallOK
<1> QED BY <1>2, <1>3, <1>4 DEF Done, DoneThen

-----------------------------------------------------------------------------
(* What the user, the timer and the server do *)

\* A trace of the list, a span of the tree, a tool call to branch from.
LEMMA SelectTraceBInv == ASSUME BInv, NEW t \in Trace, SelectTrace(t) PROVE BInv'
<1>1. Ask(GetSpans(t, NoSpan)) /\ CallOK(GetSpans(t, NoSpan))
  BY CallsMade DEF SelectTrace
<1>2. Fields'
  BY DEF BInv, Fields, SelectTrace, ShowTrace
<1> QED BY <1>1, <1>2, Made DEF BInv, SelectTrace

LEMMA SelectSpanBInv == ASSUME BInv, NEW s \in Span, SelectSpan(s) PROVE BInv'
<1>1. Ask(GetMessages(s)) /\ CallOK(GetMessages(s))
  BY CallsMade DEF SelectSpan
<1>2. Fields'
  BY DEF BInv, Fields, SelectSpan, ShowSpan
<1> QED BY <1>1, <1>2, Made DEF BInv, SelectSpan

LEMMA OpenBranchBInv == ASSUME BInv, NEW s \in Span, OpenBranch(s) PROVE BInv'
<1>1. /\ Ask([Plain("toolCall") EXCEPT !.span = s])
      /\ CallOK([Plain("toolCall") EXCEPT !.span = s])
  BY CallsMade DEF OpenBranch
<1>2. Fields'
  BY DEF BInv, Fields, OpenBranch, shown
<1>3. UNCHANGED branchModal
  BY DEF OpenBranch
<1> QED BY <1>1, <1>2, <1>3, Made DEF BInv

\* The dialog is closed only while nothing is replayed.
LEMMA CloseBranchBInv == ASSUME BInv, CloseBranch PROVE BInv'
<1>1. branchModal' \in Modal /\ ~branchModal'.busy
  BY DEF BInv, Fields, CloseBranch, Modal
<1>2. Fields'
  BY <1>1 DEF BInv, Fields, CloseBranch, shown
<1> QED BY <1>1, <1>2 DEF BInv, CloseBranch

\* A replay is asked for: a call that closes the dialog is made with it.
LEMMA ConfirmBranchBInv == ASSUME BInv, ConfirmBranch PROVE BInv'
<1>1. branchModal.span \in Span /\ selectedTraceId \in Trace
  BY DEF BInv, Fields, ConfirmBranch, Modal
<1>2. PICK c : CallOK(c) /\ c.closes /\ Ask(c)
  BY <1>1, CallsMade DEF ConfirmBranch
<1>3. branchModal' \in Modal
  BY DEF BInv, Fields, ConfirmBranch, Modal
<1>4. Fields'
  BY <1>3 DEF BInv, Fields, ConfirmBranch, shown
<1> QED BY <1>2, <1>4, Made DEF BInv

LEMMA EditBreakpointBInv == ASSUME BInv, NEW b \in Breakpoint, EditBreakpoint(b) PROVE BInv'
<1>1. PICK op \in {"add", "delete"} : Ask([Plain(op) EXCEPT !.bp = b])
  BY DEF EditBreakpoint
<1>2. CallOK([Plain(op) EXCEPT !.bp = b])
  BY CallsMade
<1>3. Fields'
  BY DEF BInv, Fields, EditBreakpoint, shown
<1>4. UNCHANGED branchModal
  BY DEF EditBreakpoint
<1> QED BY <1>1, <1>2, <1>3, <1>4, Made DEF BInv

LEMMA PollBInv == ASSUME BInv, Poll PROVE BInv'
<1>1. Ask(Plain("traces")) /\ CallOK(Plain("traces"))
  BY CallsMade DEF Poll
<1>2. Fields'
  BY DEF BInv, Fields, Poll, shown, used
<1>3. UNCHANGED branchModal
  BY DEF Poll
<1> QED BY <1>1, <1>2, <1>3, Made DEF BInv

\* The server counts a hit within its bound.
LEMMA RecordHitBInv ==
  ASSUME BInv, NEW b \in Breakpoint, NEW s \in Span, RecordHit(b, s) PROVE BInv'
<1>1. MaxHits \in Nat
  BY WorkbenchAssumption
<1>2. [bp |-> b, at |-> now + 1, span |-> s] \in Hit /\ now' \in 0..MaxHits
  BY <1>1 DEF BInv, Fields, RecordHit, Hit
<1>3. hits' \in Hits
  BY <1>2 DEF BInv, Fields, RecordHit, Hits
<1>4. Fields'
  BY <1>2, <1>3 DEF BInv, Fields, RecordHit, shown
<1>5. UNCHANGED <<branchModal, calls>>
  BY DEF RecordHit
<1> QED BY <1>4, <1>5 DEF BInv

\* The server's breakpoints stay what they should be.
LEMMA ServedHits == ASSUME BInv, NEW i \in 1..Len(calls), Serve(i) PROVE hits' \in Hits
<1>1. hits \in Hits
  BY DEF BInv, Fields
<1>2. [hits EXCEPT ![calls[i].bp] = NoHit] \in Hits
  BY <1>1 DEF Hits
<1>3. [hits EXCEPT ![calls[i].bp] = Unset] \in Hits
  BY <1>1 DEF Hits
<1> QED BY <1>1, <1>2, <1>3 DEF Serve

\* An answer is given: the calls are the same but for it.
LEMMA Answers == ASSUME BInv, NEW i \in 1..Len(calls), Serve(i)
  PROVE  /\ calls' \in Seq(Call) /\ Len(calls') = Len(calls)
         /\ \A k \in 1..Len(calls) : /\ CallOK(calls'[k])
                                     /\ calls'[k].op = calls[k].op /\ calls'[k].span = calls[k].span
                                     /\ calls'[k].trace = calls[k].trace
                                     /\ (calls'[k].closes <=> calls[k].closes)
<1> DEFINE c == [calls[i] EXCEPT !.answer = hits']
<1>1. /\ calls \in Seq(Call) /\ Len(calls) \in Nat
      /\ \A k \in 1..Len(calls) : CallOK(calls[k])
  BY LenProperties DEF BInv, CallsOK
<1>2. hits' \in Hits
  BY ServedHits
<1>3. calls' = [calls EXCEPT ![i] = c]
  BY DEF Serve
<1>4. /\ c \in Call /\ c.op = calls[i].op /\ c.span = calls[i].span
      /\ c.trace = calls[i].trace /\ (c.closes <=> calls[i].closes)
  BY <1>1, <1>2 DEF CallOK, Call
<1>5. CallOK(c)
  BY <1>1, <1>4 DEF CallOK
<1> HIDE DEF c
<1>6. /\ calls' \in Seq(Call) /\ Len(calls') = Len(calls)
      /\ \A k \in 1..Len(calls) : calls'[k] = IF k = i THEN c ELSE calls[k]
  BY <1>1, <1>3, <1>4, ExceptSeq
<1> QED BY <1>1, <1>4, <1>5, <1>6

LEMMA ServeBInv == ASSUME BInv, NEW i \in 1..Len(calls), Serve(i) PROVE BInv'
<1>1. CallsOK(calls') /\ (Closed(calls) => Closed(calls'))
  BY Answers DEF CallsOK, Closed
<1>2. hits' \in Hits
  BY ServedHits
<1>3. Fields'
  BY <1>2 DEF BInv, Fields, Serve, shown, used
<1>4. UNCHANGED branchModal
  BY DEF Serve
<1> QED BY <1>1, <1>3, <1>4 DEF BInv

-----------------------------------------------------------------------------
(* What the calls do when they come back *)

\* Errors are counted, and the rest of the bounds is as it was.
LEMMA AnsweredKeeps ==
  ASSUME BInv, NEW i \in 1..Len(calls), NEW ok \in BOOLEAN, NEW op, Answered(i, op, ok)
  PROVE  /\ calls[i].op = op /\ CallOK(calls[i]) /\ errors' \in Nat
         /\ UNCHANGED <<hits, now, inOrder>>
BY DEF Answered, BInv, Fields, CallsOK

\* The last await closes the dialog that waited for it.
LEMMA Closes == ASSUME BInv, NEW i \in 1..Len(calls), Closing(i)
  PROVE  /\ branchModal' \in Modal
         /\ branchModal'.busy => branchModal.busy /\ ~calls[i].closes
BY DEF Closing, BInv, Fields, Modal, CallsOK, CallOK, Call

LEMMA HealthBInv ==
  ASSUME BInv, NEW i \in 1..Len(calls), NEW ok \in BOOLEAN, HealthAnswered(i, ok) PROVE BInv'
<1>1. /\ calls[i].op = "health" /\ CallOK(calls[i]) /\ errors' \in Nat
      /\ UNCHANGED <<hits, now, inOrder>>
  BY AnsweredKeeps DEF HealthAnswered
<1>2. CallsOK(calls') /\ (Closed(calls) => Closed(calls'))
  BY <1>1, CameBack, CallsMade DEF HealthAnswered, CallOK
<1>3. Fields'
  BY <1>1 DEF HealthAnswered, BInv, Fields, shown
<1> QED BY <1>2, <1>3 DEF BInv, HealthAnswered

LEMMA ProjectsBInv ==
  ASSUME BInv, NEW i \in 1..Len(calls), NEW ok \in BOOLEAN, ProjectsAnswered(i, ok) PROVE BInv'
<1>1. /\ calls[i].op = "projects" /\ CallOK(calls[i]) /\ errors' \in Nat
      /\ UNCHANGED <<hits, now, inOrder>>
  BY AnsweredKeeps DEF ProjectsAnswered
<1>2. CallsOK(calls') /\ (Closed(calls) => Closed(calls'))
  BY <1>1, CameBack, CallsMade DEF ProjectsAnswered, CallOK
<1>3. connected' \in BOOLEAN
  BY DEF ProjectsAnswered, BInv, Fields
<1>4. Fields'
  BY <1>1, <1>3 DEF ProjectsAnswered, BInv, Fields, shown
<1> QED BY <1>2, <1>4 DEF BInv, ProjectsAnswered

\* The call after this one takes over the duty to close the dialog.
LEMMA TracesBInv ==
  ASSUME BInv, NEW i \in 1..Len(calls), NEW ok \in BOOLEAN, TracesAnswered(i, ok) PROVE BInv'
<1>1. /\ calls[i].op = "traces" /\ CallOK(calls[i]) /\ errors' \in Nat
      /\ UNCHANGED <<hits, now, inOrder>>
  BY AnsweredKeeps DEF TracesAnswered
<1>2. calls[i].closes \in BOOLEAN
  BY <1>1 DEF CallOK, Call
<1>3. listed' \in BOOLEAN /\ connected' \in BOOLEAN
  BY DEF TracesAnswered, BInv, Fields
<1>4. UNCHANGED <<selectedTraceId, spans, selectedSpanId, messages, bpSig>>
  BY DEF TracesAnswered, shown
<1>5. CASE ok
  <2> DEFINE c == [Plain("breakpoints") EXCEPT !.closes = calls[i].closes]
  <2>1. CallOK(c) /\ (c.closes <=> calls[i].closes) /\ DoneThen(i, c) /\ UNCHANGED branchModal
    BY <1>2, <1>5, CallsMade DEF TracesAnswered
  <2> HIDE DEF c
  <2>2. CallsOK(calls') /\ (Closed(calls) => Closed(calls'))
    BY <2>1, CameBack
  <2> QED BY <1>1, <1>3, <1>4, <2>1, <2>2 DEF BInv, Fields
<1>6. CASE ~ok
  <2>1. Done(i) /\ Closing(i)
    BY <1>6 DEF TracesAnswered
  <2>2. CallsOK(calls') /\ (Closed(calls) /\ ~calls[i].closes => Closed(calls'))
    BY <2>1, CameBack
  <2> QED BY <1>1, <1>3, <1>4, <2>1, <2>2, Closes DEF BInv, Fields
<1> QED BY <1>5, <1>6

\* An announced hit is one the server counted, and its trace is fetched next.
Announces(i) ==
  \E hit \in Hit : \E c :
    /\ hit # NoHit /\ bpSig' = hit /\ ShowTrace(TraceOf[hit.span])
    /\ hit.span \in Span /\ TraceOf[hit.span] \in Trace
    /\ CallOK(c) /\ (c.closes <=> calls[i].closes)
    /\ c.op = "spans" /\ c.trace = TraceOf[hit.span]
    /\ DoneThen(i, c) /\ UNCHANGED branchModal

LEMMA Announced ==
  ASSUME BInv, NEW i \in 1..Len(calls), NEW ok \in BOOLEAN, BreakpointsAnswered(i, ok)
  PROVE  Announces(i) \/ (Done(i) /\ Closing(i) /\ UNCHANGED <<bpSig, shown>>)
<1> DEFINE hit == NewestHit(calls[i].answer)
           c == [GetSpans(TraceOf[hit.span], hit.span) EXCEPT !.closes = calls[i].closes]
<1>1. Answered(i, "breakpoints", ok) /\ CallOK(calls[i])
  BY AnsweredKeeps DEF BreakpointsAnswered
<1>2. CASE Done(i) /\ Closing(i) /\ UNCHANGED <<bpSig, shown>>
  BY <1>2
<1>3. CASE /\ ok /\ NewSignature(hit) /\ bpSig' = hit /\ ShowTrace(TraceOf[hit.span])
           /\ DoneThen(i, c) /\ UNCHANGED branchModal
  <2>1. calls[i].answer \in Hits /\ calls[i].closes \in BOOLEAN
    BY <1>1, <1>3 DEF Answered, TimeMatters, CallOK, Call
  <2>2. hit \in Hit \cup {NoHit}
    BY <2>1, NewestIsAHit
  <2> HIDE DEF hit
  <2>3. hit \in Hit /\ hit # NoHit
    BY <1>3, <2>2 DEF NewSignature
  <2>4. hit.span \in Span /\ TraceOf[hit.span] \in Trace
    BY <2>3, WorkbenchAssumption DEF Hit
  <2>5. CallOK(c) /\ (c.closes <=> calls[i].closes) /\ c.op = "spans" /\ c.trace = TraceOf[hit.span]
    <3>1. ASSUME NEW t \in Trace, NEW s \in Span, NEW e \in BOOLEAN
          PROVE  LET d == [GetSpans(t, s) EXCEPT !.closes = e]
                 IN  CallOK(d) /\ (d.closes <=> e) /\ d.op = "spans" /\ d.trace = t
      BY DEF CallOK, Call, Plain, GetSpans
    <3> HIDE DEF GetSpans
    <3> QED BY <2>1, <2>4, <3>1
  <2> HIDE DEF c
  <2> QED BY <1>3, <2>3, <2>4, <2>5 DEF Announces
<1> QED BY <1>2, <1>3 DEF BreakpointsAnswered

LEMMA BreakpointsBInv ==
  ASSUME BInv, NEW i \in 1..Len(calls), NEW ok \in BOOLEAN, BreakpointsAnswered(i, ok) PROVE BInv'
<1>1. /\ errors' \in Nat /\ CallOK(calls[i])
      /\ UNCHANGED <<hits, now, inOrder, connected, listed>>
  BY AnsweredKeeps DEF BreakpointsAnswered
<1>2. CASE Announces(i)
  <2>1. PICK hit \in Hit : \E c :
          /\ bpSig' = hit /\ ShowTrace(TraceOf[hit.span]) /\ TraceOf[hit.span] \in Trace
          /\ CallOK(c) /\ (c.closes <=> calls[i].closes) /\ DoneThen(i, c) /\ UNCHANGED branchModal
    BY <1>2 DEF Announces
  <2>2. PICK c :
          /\ bpSig' = hit /\ ShowTrace(TraceOf[hit.span]) /\ TraceOf[hit.span] \in Trace
          /\ CallOK(c) /\ (c.closes <=> calls[i].closes) /\ DoneThen(i, c) /\ UNCHANGED branchModal
    BY <2>1
  <2>3. CallsOK(calls') /\ (Closed(calls) => Closed(calls'))
    BY <2>2, CameBack
  <2>4. Fields'
    BY <1>1, <2>2 DEF BInv, Fields, ShowTrace
  <2> QED BY <2>2, <2>3, <2>4 DEF BInv
<1>3. CASE Done(i) /\ Closing(i) /\ UNCHANGED <<bpSig, shown>>
  <2>1. CallsOK(calls') /\ (Closed(calls) /\ ~calls[i].closes => Closed(calls'))
    BY <1>3, CameBack
  <2>2. Fields'
    BY <1>1, <1>3, Closes DEF BInv, Fields, shown
  <2> QED BY <1>3, <2>1, <2>2, Closes DEF BInv
<1> QED BY <1>2, <1>3, Announced

LEMMA SpansBInv ==
  ASSUME BInv, NEW i \in 1..Len(calls), NEW ok \in BOOLEAN, SpansAnswered(i, ok) PROVE BInv'
<1>1. /\ calls[i].op = "spans" /\ CallOK(calls[i]) /\ errors' \in Nat
      /\ UNCHANGED <<hits, now, inOrder>>
  BY AnsweredKeeps DEF SpansAnswered
<1>2. calls[i].focus \in Span \cup {NoSpan}
  BY <1>1 DEF CallOK, Call
<1>3. CallsOK(calls') /\ (Closed(calls) /\ ~calls[i].closes => Closed(calls'))
  <2>1. CASE calls[i].focus = NoSpan
    BY <2>1, CameBack DEF SpansAnswered
  <2>2. CASE calls[i].focus # NoSpan
    <3>1. CallOK(GetMessages(calls[i].focus)) /\ DoneThen(i, GetMessages(calls[i].focus))
      BY <1>2, <2>2, CallsMade DEF SpansAnswered
    <3> QED BY <3>1, CameBack
  <2> QED BY <2>1, <2>2
<1>4. /\ branchModal' \in Modal
      /\ branchModal'.busy => branchModal.busy /\ ~calls[i].closes
  BY Closes DEF SpansAnswered
<1>5. selectedSpanId' \in Span \cup {NoSpan} /\ messages' \in Span \cup {NoSpan}
  BY <1>2 DEF SpansAnswered, ShowSpan, BInv, Fields
<1>6. connected' \in BOOLEAN /\ spans' \subseteq Span
  BY DEF SpansAnswered, SpansIn, BInv, Fields
<1>7. Fields'
  BY <1>1, <1>4, <1>5, <1>6 DEF SpansAnswered, BInv, Fields
<1> QED BY <1>3, <1>4, <1>7 DEF BInv

LEMMA MessagesBInv ==
  ASSUME BInv, NEW i \in 1..Len(calls), NEW ok \in BOOLEAN, MessagesAnswered(i, ok) PROVE BInv'
<1>1. /\ calls[i].op = "messages" /\ CallOK(calls[i]) /\ errors' \in Nat
      /\ UNCHANGED <<hits, now, inOrder>>
  BY AnsweredKeeps DEF MessagesAnswered
<1>2. CallsOK(calls') /\ (Closed(calls) => Closed(calls'))
  BY <1>1, CameBack DEF MessagesAnswered, CallOK
<1>3. calls[i].span \in Span \cup {NoSpan}
  BY <1>1 DEF CallOK, Call
<1>4. connected' \in BOOLEAN /\ messages' \in Span \cup {NoSpan}
  BY <1>3 DEF MessagesAnswered, BInv, Fields
<1>5. Fields'
  BY <1>1, <1>4 DEF MessagesAnswered, BInv, Fields
<1> QED BY <1>2, <1>5 DEF BInv, MessagesAnswered

LEMMA ToolCallBInv ==
  ASSUME BInv, NEW i \in 1..Len(calls), NEW ok \in BOOLEAN, ToolCallAnswered(i, ok) PROVE BInv'
<1>1. /\ calls[i].op = "toolCall" /\ CallOK(calls[i]) /\ errors' \in Nat
      /\ UNCHANGED <<hits, now, inOrder>>
  BY AnsweredKeeps DEF ToolCallAnswered
<1>2. CallsOK(calls')
  BY CameBack DEF ToolCallAnswered
<1>3. branchModal' \in Modal /\ ~branchModal'.busy
  BY <1>1 DEF ToolCallAnswered, CallOK, Call, Modal
<1>4. Fields'
  BY <1>1, <1>3 DEF ToolCallAnswered, BInv, Fields, shown
<1> QED BY <1>2, <1>3, <1>4 DEF BInv

LEMMA BranchBInv ==
  ASSUME BInv, NEW i \in 1..Len(calls), NEW ok \in BOOLEAN, BranchAnswered(i, ok) PROVE BInv'
<1>1. /\ calls[i].op = "branch" /\ CallOK(calls[i]) /\ errors' \in Nat
      /\ UNCHANGED <<hits, now, inOrder>>
  BY AnsweredKeeps DEF BranchAnswered
<1>2. CASE ok
  <2> DEFINE c == [Plain("traces") EXCEPT !.closes = TRUE]
  <2>1. CallOK(c) /\ c.closes /\ DoneThen(i, c) /\ UNCHANGED branchModal
    BY <1>2, CallsMade DEF BranchAnswered
  <2> HIDE DEF c
  <2>2. CallsOK(calls') /\ Closed(calls')
    BY <2>1, CameBack
  <2>3. Fields'
    BY <1>1, <2>1 DEF BranchAnswered, BInv, Fields, shown
  <2> QED BY <2>2, <2>3 DEF BInv
<1>3. CASE ~ok
  <2>1. Done(i) /\ Closing(i)
    BY <1>3 DEF BranchAnswered
  <2>2. CallsOK(calls') /\ (Closed(calls) /\ ~calls[i].closes => Closed(calls'))
    BY <2>1, CameBack
  <2>3. Fields'
    BY <1>1, <2>1, Closes DEF BranchAnswered, BInv, Fields, shown
  <2> QED BY <2>1, <2>2, <2>3, Closes DEF BInv
<1> QED BY <1>2, <1>3

LEMMA EditBInv ==
  ASSUME BInv, NEW i \in 1..Len(calls), NEW ok \in BOOLEAN, EditAnswered(i, ok) PROVE BInv'
<1>1. PICK op \in {"add", "delete"} : Answered(i, op, ok)
  BY DEF EditAnswered
<1>2. /\ calls[i].op = op /\ CallOK(calls[i]) /\ errors' \in Nat
      /\ UNCHANGED <<hits, now, inOrder>>
  BY <1>1, AnsweredKeeps
<1>3. CallsOK(calls') /\ (Closed(calls) => Closed(calls'))
  BY <1>2, CameBack, CallsMade DEF EditAnswered, CallOK
<1>4. Fields'
  BY <1>2 DEF EditAnswered, BInv, Fields, shown
<1> QED BY <1>3, <1>4 DEF BInv, EditAnswered

-----------------------------------------------------------------------------
(* The type invariant *)

\* The store starts with one call, to see whether the server is there.
LEMMA BInvInit == Init => BInv
<1> SUFFICES ASSUME Init PROVE BInv
  OBVIOUS
<1>1. MaxHits \in Nat /\ InOrders \subseteq BOOLEAN
  BY WorkbenchAssumption
<1>2. hits \in Hits
  BY DEF Init, Hits
<1>3. branchModal \in Modal /\ ~branchModal.busy
  BY DEF Init, Modal
<1>4. Fields
  <2>1. inOrder \in BOOLEAN /\ now \in 0..MaxHits /\ errors \in Nat
    BY <1>1 DEF Init
  <2>2. connected \in BOOLEAN /\ listed \in BOOLEAN
    BY DEF Init
  <2>3. /\ selectedTraceId \in Trace \cup {NoTrace} /\ spans \subseteq Span
        /\ selectedSpanId \in Span \cup {NoSpan} /\ messages \in Span \cup {NoSpan}
        /\ bpSig \in Hit \cup {NoHit}
    BY DEF Init
  <2> QED BY <1>2, <1>3, <2>1, <2>2, <2>3 DEF Fields
<1>5. CallsOK(calls)
  <2>1. CallOK(Plain("health"))
    BY CallsMade
  <2> HIDE DEF Plain
  <2>2. calls \in Seq(Call) /\ Len(calls) = 1 /\ calls[1] = Plain("health")
    BY <2>1 DEF Init, CallOK
  <2> QED BY <2>1, <2>2 DEF CallsOK
<1> QED BY <1>3, <1>4, <1>5 DEF BInv

LEMMA BInvNext == BInv /\ [Next]_vars => BInv'
<1> SUFFICES ASSUME BInv, [Next]_vars PROVE BInv'
  OBVIOUS
<1>1. CASE User
  BY <1>1, SelectTraceBInv, SelectSpanBInv, OpenBranchBInv, CloseBranchBInv, ConfirmBranchBInv,
     EditBreakpointBInv DEF User
<1>2. CASE Poll
  BY <1>2, PollBInv
<1>3. CASE \E b \in Breakpoint, s \in Span : RecordHit(b, s)
  BY <1>3, RecordHitBInv
<1>4. CASE \E i \in 1..Len(calls) : Serve(i)
  BY <1>4, ServeBInv
<1>5. ASSUME NEW i \in 1..Len(calls), NEW ok \in BOOLEAN, Continue(i, ok) PROVE BInv'
  BY <1>5, HealthBInv, ProjectsBInv, TracesBInv, BreakpointsBInv, SpansBInv, MessagesBInv,
     ToolCallBInv, BranchBInv, EditBInv DEF Continue
<1>6. CASE UNCHANGED vars
  BY <1>6 DEF BInv, Fields, vars, shown, used
<1> QED BY <1>1, <1>2, <1>3, <1>4, <1>5, <1>6 DEF Next

\* The store's fields keep their meaning however answers come in and calls fail, and a
\* dialog that says `replaying' is always waited for (store.ts:423-444).
THEOREM StoreTypeCorrect == Spec => []TypeOK
<1>1. Init => BInv
  BY BInvInit
<1>2. BInv /\ [Next]_vars => BInv'
  BY BInvNext
<1>3. BInv => TypeOK
  BY BInvTypes
<1> QED BY <1>1, <1>2, <1>3, PTL DEF Spec

-----------------------------------------------------------------------------
(* What the calls under way are about *)

\* What a call fetches, the last call of a kind, and whether there is one.
Points(c)        == IF c.op = "spans" THEN c.trace ELSE c.span
Latest(q, op, k) == q[k].op = op /\ \A l \in (k + 1)..Len(q) : q[l].op # op
Aims(q, op, x)   == \A k \in 1..Len(q) : Latest(q, op, k) => Points(q[k]) = x
Idle(q, op)      == \A k \in 1..Len(q) : q[k].op # op

\* The calls r are, for this kind, those of q.
Follows(q, r, op) == /\ \A x : Aims(q, op, x) => Aims(r, op, x)
                     /\ Idle(r, op) => Idle(q, op)

\* A new call is the last one of its kind and of no other.
LEMMA AimsAppend ==
  ASSUME NEW q \in Seq(Call), NEW c \in Call, NEW op
  PROVE  /\ c.op # op => Follows(q, Append(q, c), op)
         /\ c.op = op => Aims(Append(q, c), op, Points(c)) /\ ~Idle(Append(q, c), op)
<1> DEFINE r == Append(q, c)
<1>1. /\ Len(r) = Len(q) + 1 /\ Len(q) \in Nat
      /\ \A k \in 1..Len(q) : r[k] = q[k]
      /\ r[Len(q) + 1] = c
  BY AppendProperties, LenProperties
<1> HIDE DEF r
<1>2. Len(q) + 1 \in 1..Len(r) /\ \A k \in 1..Len(q) : k \in 1..Len(r)
  BY <1>1
<1>3. ASSUME c.op # op PROVE Follows(q, r, op)
  <2>1. ASSUME NEW x, Aims(q, op, x), NEW k \in 1..Len(r), Latest(r, op, k)
        PROVE  Points(r[k]) = x
    <3>1. k \in 1..Len(q)
      <4>1. k # Len(q) + 1
        BY <1>1, <1>3, <2>1 DEF Latest
      <4> QED BY <1>1, <4>1
    <3>2. ASSUME NEW l \in (k + 1)..Len(q) PROVE q[l].op # op
      <4>1. l \in (k + 1)..Len(r) /\ l \in 1..Len(q)
        BY <1>1, <3>1
      <4> QED BY <1>1, <2>1, <4>1 DEF Latest
    <3>3. Latest(q, op, k) /\ r[k] = q[k]
      BY <1>1, <2>1, <3>1, <3>2 DEF Latest
    <3> QED BY <2>1, <3>1, <3>3 DEF Aims
  <2>2. Idle(r, op) => Idle(q, op)
    BY <1>1, <1>2 DEF Idle
  <2> QED BY <2>1, <2>2 DEF Follows, Aims
<1>4. ASSUME c.op = op PROVE Aims(r, op, Points(c)) /\ ~Idle(r, op)
  <2>1. ASSUME NEW k \in 1..Len(r), Latest(r, op, k) PROVE r[k] = c
    <3>1. CASE k \in 1..Len(q)
      <4>1. Len(q) + 1 \in (k + 1)..Len(r)
        BY <1>1, <3>1
      <4> QED BY <1>1, <1>4, <2>1, <4>1 DEF Latest
    <3> QED BY <1>1, <3>1
  <2> QED BY <1>1, <1>2, <1>4, <2>1 DEF Aims, Idle
<1> QED BY <1>3, <1>4 DEF r

\* When the first call has come back the rest still points where it did; if it was the
\* only one of its kind, it is the one that pointed there.
LEMMA AimsRest ==
  ASSUME NEW q \in Seq(Call), 1 \in 1..Len(q), NEW op
  PROVE  /\ \A x : Aims(q, op, x) => Aims(RemoveAt(q, 1), op, x)
         /\ q[1].op # op => Follows(q, RemoveAt(q, 1), op)
         /\ q[1].op = op /\ Idle(RemoveAt(q, 1), op) => \A x : Aims(q, op, x) => Points(q[1]) = x
<1> DEFINE r == RemoveAt(q, 1)
<1>1. /\ Len(r) = Len(q) - 1 /\ Len(q) \in Nat
      /\ \A k \in 1..(Len(q) - 1) : r[k] = q[IF k < 1 THEN k ELSE k + 1]
  BY Removed
<1> HIDE DEF r
<1>2. \A k \in 1..Len(r) : r[k] = q[k + 1] /\ k + 1 \in 1..Len(q)
  BY <1>1
<1>3. \A k \in 2..Len(q) : k - 1 \in 1..Len(r) /\ r[k - 1] = q[k]
  <2>1. \A k \in 2..Len(q) : k - 1 \in 1..Len(r) /\ (k - 1) + 1 = k
    BY <1>1
  <2> QED BY <1>2, <2>1
<1>4. ASSUME NEW x, Aims(q, op, x), NEW k \in 1..Len(r), Latest(r, op, k)
      PROVE  Points(r[k]) = x
  <2>1. ASSUME NEW l \in ((k + 1) + 1)..Len(q) PROVE q[l].op # op
    <3>1. l \in 2..Len(q) /\ l - 1 \in (k + 1)..Len(r)
      BY <1>1
    <3> QED BY <1>3, <1>4, <3>1 DEF Latest
  <2>2. Latest(q, op, k + 1)
    BY <1>2, <1>4, <2>1 DEF Latest
  <2> QED BY <1>2, <1>4, <2>2 DEF Aims
<1>5. ASSUME q[1].op # op PROVE Idle(r, op) => Idle(q, op)
  <2>1. \A k \in 1..Len(q) : k = 1 \/ k \in 2..Len(q)
    BY <1>1
  <2> QED BY <1>3, <1>5, <2>1 DEF Idle
<1>6. ASSUME q[1].op = op, Idle(r, op), NEW x, Aims(q, op, x) PROVE Points(q[1]) = x
  <2>1. ASSUME NEW l \in (1 + 1)..Len(q) PROVE q[l].op # op
    <3>1. l \in 2..Len(q)
      BY <1>1
    <3> QED BY <1>3, <1>6, <3>1 DEF Idle
  <2>2. Latest(q, op, 1)
    BY <1>6, <2>1 DEF Latest
  <2> QED BY <1>6, <2>2 DEF Aims
<1>7. \A x : Aims(q, op, x) => Aims(r, op, x)
  BY <1>4 DEF Aims
<1> QED BY <1>5, <1>6, <1>7 DEF r, Follows

\* Calls that ask for the same follow each other.
LEMMA AimsSame ==
  ASSUME NEW q, NEW r, NEW op, Len(r) = Len(q),
         \A k \in 1..Len(q) : r[k].op = q[k].op /\ Points(r[k]) = Points(q[k]),
         Len(q) \in Nat
  PROVE  Follows(q, r, op)
<1>1. ASSUME NEW x, Aims(q, op, x), NEW k \in 1..Len(r), Latest(r, op, k)
      PROVE  Points(r[k]) = x
  <2>1. ASSUME NEW l \in (k + 1)..Len(q) PROVE q[l].op # op
    <3>1. l \in 1..Len(q) /\ l \in (k + 1)..Len(r)
      OBVIOUS
    <3> QED BY <1>1, <3>1 DEF Latest
  <2>2. Latest(q, op, k)
    BY <1>1, <2>1 DEF Latest
  <2> QED BY <1>1, <2>2 DEF Aims
<1>2. Idle(r, op) => Idle(q, op)
  BY DEF Idle
<1> QED BY <1>1, <1>2 DEF Follows, Aims

-----------------------------------------------------------------------------
(* The panes *)

\* The inductive invariant.  What was fetched last for a pane is what is selected; and
\* when nothing is on its way for a pane, the pane shows it.
Right == inOrder /\ errors = 0 =>
  /\ Aims(calls, "spans", selectedTraceId)
  /\ Idle(calls, "spans") => \A s \in spans : TraceOf[s] = selectedTraceId
  /\ selectedSpanId # NoSpan =>
       /\ Aims(calls, "messages", selectedSpanId)
       /\ Idle(calls, "messages") => messages \in {selectedSpanId, NoSpan}

\* Calls about something else leave the panes right.
LEMMA Apart ==
  ASSUME Right, UNCHANGED shown, UNCHANGED inOrder, errors' = 0 => errors = 0,
         inOrder' /\ errors' = 0 =>
           Follows(calls, calls', "spans") /\ Follows(calls, calls', "messages")
  PROVE  Right'
<1> SUFFICES ASSUME inOrder', errors' = 0
             PROVE  /\ Aims(calls', "spans", selectedTraceId')
                    /\ Idle(calls', "spans") => \A s \in spans' : TraceOf[s] = selectedTraceId'
                    /\ selectedSpanId' # NoSpan =>
                         /\ Aims(calls', "messages", selectedSpanId')
                         /\ Idle(calls', "messages") => messages' \in {selectedSpanId', NoSpan}
  BY DEF Right, Aims, Idle, Latest
<1>1. UNCHANGED <<selectedTraceId, spans, selectedSpanId, messages>>
  BY DEF shown
<1> QED BY <1>1 DEF Right, Follows

\* A call about something else is made.
LEMMA AskApart ==
  ASSUME BInv, Right, NEW c \in Call, Ask(c), c.op \notin {"spans", "messages"},
         UNCHANGED <<shown, inOrder, errors>>
  PROVE  Right'
<1>1. Follows(calls, calls', "spans") /\ Follows(calls, calls', "messages")
  BY AimsAppend DEF Ask, BInv, CallsOK
<1> QED BY <1>1, Apart

\* What the order of answers means: without errors the first call comes back, answered.
LEMMA FirstComesBack ==
  ASSUME BInv, NEW i \in 1..Len(calls), NEW ok \in BOOLEAN, NEW op, Answered(i, op, ok)
  PROVE  /\ UNCHANGED inOrder
         /\ errors' = 0 => ok /\ errors = 0
         /\ inOrder' => i = 1 /\ 1 \in 1..Len(calls)
         /\ calls \in Seq(Call) /\ calls[i].op = op /\ calls[i] \in Call
BY DEF Answered, BInv, Fields, CallsOK, CallOK

\* The first call, about something else, comes back, and another such call may be made.
LEMMA BackApart ==
  ASSUME BInv, Right, NEW i \in 1..Len(calls), NEW ok \in BOOLEAN, NEW op, Answered(i, op, ok),
         op \notin {"spans", "messages"}, UNCHANGED shown,
         Done(i) \/ \E c \in Call : DoneThen(i, c) /\ c.op \notin {"spans", "messages"}
  PROVE  Right'
<1>1. /\ UNCHANGED inOrder
      /\ errors' = 0 => errors = 0
      /\ inOrder' => i = 1 /\ 1 \in 1..Len(calls)
      /\ calls \in Seq(Call) /\ calls[i].op = op
  BY FirstComesBack
<1>2. ASSUME inOrder', NEW kind \in {"spans", "messages"} PROVE Follows(calls, calls', kind)
  <2>1. i = 1 /\ Follows(calls, RemoveAt(calls, 1), kind)
    BY <1>1, <1>2, AimsRest
  <2>2. CASE Done(i)
    BY <2>1, <2>2 DEF Done
  <2>3. CASE \E c \in Call : DoneThen(i, c) /\ c.op \notin {"spans", "messages"}
    <3>1. PICK c \in Call : DoneThen(i, c) /\ c.op \notin {"spans", "messages"}
      BY <2>3
    <3>2. RemoveAt(calls, 1) \in Seq(Call)
      BY <1>1, <1>2, Removed
    <3>3. Follows(RemoveAt(calls, 1), Append(RemoveAt(calls, 1), c), kind)
      BY <1>2, <3>1, <3>2, AimsAppend
    <3>4. calls' = Append(RemoveAt(calls, 1), c)
      BY <2>1, <3>1 DEF DoneThen
    <3> QED BY <2>1, <3>3, <3>4 DEF Follows
  <2> QED BY <2>2, <2>3
<1>3. inOrder' => Follows(calls, calls', "spans") /\ Follows(calls, calls', "messages")
  BY <1>2
<1> QED BY <1>1, <1>3, Apart

\* Selecting a trace: its spans are asked for, and nothing is shown until they arrive.
LEMMA TraceSelected ==
  ASSUME NEW q \in Seq(Call), NEW c \in Call, c.op = "spans", ShowTrace(c.trace), calls' = Append(q, c)
  PROVE  Right'
<1>1. Aims(calls', "spans", selectedTraceId') /\ ~Idle(calls', "spans") /\ selectedSpanId' = NoSpan
  <2>1. Points(c) = selectedTraceId' /\ selectedSpanId' = NoSpan
    BY DEF Points, ShowTrace
  <2>2. Aims(Append(q, c), "spans", Points(c)) /\ ~Idle(Append(q, c), "spans")
    BY AimsAppend
  <2> QED BY <2>1, <2>2
<1> QED BY <1>1 DEF Right, Aims, Idle, Latest

LEMMA SelectTraceRight == ASSUME BInv, NEW t \in Trace, SelectTrace(t) PROVE Right'
<1>1. /\ GetSpans(t, NoSpan) \in Call /\ GetSpans(t, NoSpan).op = "spans"
      /\ GetSpans(t, NoSpan).trace = t
  BY DEF GetSpans, Plain, Call
<1>2. calls \in Seq(Call) /\ calls' = Append(calls, GetSpans(t, NoSpan)) /\ ShowTrace(t)
  BY DEF SelectTrace, Ask, BInv, CallsOK
<1> HIDE DEF GetSpans
<1> QED BY <1>1, <1>2, TraceSelected

\* A span is selected: its details are asked for, after those of all others.
LEMMA SelectSpanRight == ASSUME BInv, Right, NEW s \in Span, SelectSpan(s) PROVE Right'
<1>1. /\ GetMessages(s) \in Call /\ GetMessages(s).op = "messages" /\ GetMessages(s).span = s
      /\ calls \in Seq(Call) /\ calls' = Append(calls, GetMessages(s))
  BY CallsMade DEF CallOK, SelectSpan, Ask, BInv, CallsOK
<1>2. /\ UNCHANGED <<inOrder, errors, selectedTraceId, spans>>
      /\ selectedSpanId' = s
  BY DEF SelectSpan, ShowSpan
<1>3. Follows(calls, calls', "spans")
  BY <1>1, AimsAppend
<1>4. Aims(calls', "messages", s) /\ ~Idle(calls', "messages")
  <2>1. Points(GetMessages(s)) = s
    BY <1>1 DEF Points
  <2> QED BY <1>1, <2>1, AimsAppend
<1>5. Aims(calls, "spans", selectedTraceId) => Aims(calls', "spans", selectedTraceId')
  BY <1>2, <1>3 DEF Follows
<1>6. Idle(calls', "spans") => Idle(calls, "spans")
  BY <1>3 DEF Follows
<1> SUFFICES ASSUME inOrder', errors' = 0
             PROVE  /\ Aims(calls', "spans", selectedTraceId')
                    /\ Idle(calls', "spans") => \A z \in spans' : TraceOf[z] = selectedTraceId'
                    /\ Aims(calls', "messages", selectedSpanId') /\ ~Idle(calls', "messages")
  BY DEF Right, Aims, Idle, Latest
<1> QED BY <1>2, <1>4, <1>5, <1>6 DEF Right

\* Nothing else the user, the timer or the server does is about the panes.
LEMMA OthersRight ==
  ASSUME BInv, Right, BInv',
         \/ \E s \in Span : OpenBranch(s)
         \/ CloseBranch \/ ConfirmBranch \/ Poll
         \/ \E b \in Breakpoint : EditBreakpoint(b)
         \/ \E b \in Breakpoint, s \in Span : RecordHit(b, s)
         \/ \E i \in 1..Len(calls) : Serve(i)
         \/ UNCHANGED vars
  PROVE  Right'
<1>1. ASSUME NEW s \in Span, OpenBranch(s) PROVE Right'
  <2>1. [Plain("toolCall") EXCEPT !.span = s] \in Call
    BY CallsMade DEF CallOK
  <2>2. [Plain("toolCall") EXCEPT !.span = s].op = "toolCall"
    BY DEF Plain
  <2> QED BY <1>1, <2>1, <2>2, AskApart DEF OpenBranch
<1>2. CASE CloseBranch
  <2>1. Follows(calls, calls', "spans") /\ Follows(calls, calls', "messages")
    BY <1>2 DEF CloseBranch, Follows
  <2> QED BY <1>2, <2>1, Apart DEF CloseBranch
<1>3. CASE ConfirmBranch
  <2> DEFINE c == [Plain("branch") EXCEPT !.trace = selectedTraceId, !.span = branchModal.span,
                                          !.closes = TRUE]
  <2>1. branchModal.span \in Span /\ selectedTraceId \in Trace
    BY <1>3 DEF BInv, Fields, ConfirmBranch, Modal
  <2>2. c \in Call
    BY <2>1, CallsMade DEF CallOK
  <2>3. c.op = "branch" /\ Ask(c) /\ UNCHANGED <<shown, inOrder, errors>>
    BY <1>3 DEF ConfirmBranch, Plain
  <2> HIDE DEF c
  <2> QED BY <2>2, <2>3, AskApart
<1>4. CASE Poll
  <2>1. Plain("traces") \in Call
    BY CallsMade DEF CallOK
  <2>2. Plain("traces").op = "traces"
    BY DEF Plain
  <2> QED BY <1>4, <2>1, <2>2, AskApart DEF Poll, used
<1>5. ASSUME NEW b \in Breakpoint, EditBreakpoint(b) PROVE Right'
  <2>1. PICK op \in {"add", "delete"} : Ask([Plain(op) EXCEPT !.bp = b])
    BY <1>5 DEF EditBreakpoint
  <2>2. [Plain(op) EXCEPT !.bp = b] \in Call
    BY CallsMade DEF CallOK
  <2>3. [Plain(op) EXCEPT !.bp = b].op = op
    BY DEF Plain
  <2> QED BY <1>5, <2>1, <2>2, <2>3, AskApart DEF EditBreakpoint
<1>6. ASSUME NEW b \in Breakpoint, NEW s \in Span, RecordHit(b, s) PROVE Right'
  <2>1. Follows(calls, calls', "spans") /\ Follows(calls, calls', "messages")
    BY <1>6 DEF RecordHit, Follows
  <2> QED BY <1>6, <2>1, Apart DEF RecordHit
<1>7. ASSUME NEW i \in 1..Len(calls), Serve(i) PROVE Right'
  <2>1. /\ Len(calls') = Len(calls) /\ Len(calls) \in Nat
        /\ \A k \in 1..Len(calls) : /\ calls'[k].op = calls[k].op
                                    /\ Points(calls'[k]) = Points(calls[k])
    BY <1>7, Answers, LenProperties DEF Points, BInv, CallsOK
  <2>2. Follows(calls, calls', "spans") /\ Follows(calls, calls', "messages")
    BY <2>1, AimsSame
  <2> QED BY <1>7, <2>2, Apart DEF Serve, used
<1>8. CASE UNCHANGED vars
  <2>1. Follows(calls, calls', "spans") /\ Follows(calls, calls', "messages")
    BY <1>8 DEF vars, Follows
  <2> QED BY <1>8, <2>1, Apart DEF vars, used
<1> QED BY <1>1, <1>2, <1>3, <1>4, <1>5, <1>6, <1>7, <1>8

\* Calls that have come back and touch no pane.
LEMMA ApartRight ==
  ASSUME BInv, Right, NEW i \in 1..Len(calls), NEW ok \in BOOLEAN,
         \/ HealthAnswered(i, ok) \/ ProjectsAnswered(i, ok) \/ TracesAnswered(i, ok)
         \/ ToolCallAnswered(i, ok) \/ BranchAnswered(i, ok) \/ EditAnswered(i, ok)
  PROVE  Right'
<1>1. UNCHANGED shown
  BY DEF HealthAnswered, ProjectsAnswered, TracesAnswered, ToolCallAnswered, BranchAnswered,
         EditAnswered
<1>2. PICK op : Answered(i, op, ok) /\ op \notin {"spans", "messages"}
  BY DEF HealthAnswered, ProjectsAnswered, TracesAnswered, ToolCallAnswered, BranchAnswered,
         EditAnswered
<1>3. calls[i] \in Call
  BY FirstComesBack, <1>2
<1>4. ASSUME NEW kind \in {"projects", "traces", "breakpoints"}
      PROVE  Plain(kind) \in Call /\ Plain(kind).op = kind
  BY CallsMade DEF CallOK, Plain
<1>5. ASSUME NEW kind \in {"traces", "breakpoints"}, NEW e \in BOOLEAN
      PROVE  [Plain(kind) EXCEPT !.closes = e] \in Call /\ [Plain(kind) EXCEPT !.closes = e].op = kind
  BY DEF Plain, Call
<1>6. calls[i].closes \in BOOLEAN
  BY <1>3 DEF Call
<1>7. Done(i) \/ \E c \in Call : DoneThen(i, c) /\ c.op \notin {"spans", "messages"}
  <2>1. CASE Done(i)
    BY <2>1
  <2>2. CASE \E kind \in {"projects", "traces", "breakpoints"} : DoneThen(i, Plain(kind))
    BY <1>4, <2>2
  <2>3. CASE \E kind \in {"traces", "breakpoints"} : \E e \in BOOLEAN :
               DoneThen(i, [Plain(kind) EXCEPT !.closes = e])
    BY <1>5, <2>3
  <2>4. CASE HealthAnswered(i, ok) \/ ProjectsAnswered(i, ok) \/ EditAnswered(i, ok)
               \/ ToolCallAnswered(i, ok)
    BY <2>1, <2>2, <2>4 DEF HealthAnswered, ProjectsAnswered, EditAnswered, ToolCallAnswered
  <2>5. CASE TracesAnswered(i, ok) \/ BranchAnswered(i, ok)
    BY <1>6, <2>1, <2>3, <2>5 DEF TracesAnswered, BranchAnswered
  <2> QED BY <2>4, <2>5
<1> QED BY <1>1, <1>2, <1>7, BackApart

\* A hit is announced and its trace selected, or nothing is new.
LEMMA BreakpointsRight ==
  ASSUME BInv, Right, NEW i \in 1..Len(calls), NEW ok \in BOOLEAN, BreakpointsAnswered(i, ok)
  PROVE  Right'
<1>1. Answered(i, "breakpoints", ok)
  BY DEF BreakpointsAnswered
<1>2. CASE Announces(i)
  <2>1. PICK hit \in Hit : \E c :
          /\ ShowTrace(TraceOf[hit.span]) /\ CallOK(c)
          /\ c.op = "spans" /\ c.trace = TraceOf[hit.span] /\ DoneThen(i, c)
    BY <1>2 DEF Announces
  <2>2. PICK c :
          /\ ShowTrace(TraceOf[hit.span]) /\ CallOK(c)
          /\ c.op = "spans" /\ c.trace = TraceOf[hit.span] /\ DoneThen(i, c)
    BY <2>1
  <2>3. RemoveAt(calls, i) \in Seq(Call) /\ calls' = Append(RemoveAt(calls, i), c) /\ c \in Call
    BY <2>2, Removed DEF BInv, CallsOK, CallOK, DoneThen
  <2> QED BY <2>2, <2>3, TraceSelected
<1>3. CASE Done(i) /\ Closing(i) /\ UNCHANGED <<bpSig, shown>>
  <2> QED BY <1>1, <1>3, BackApart
<1> QED BY <1>2, <1>3, Announced

\* The spans arrive.  If no later ones are on their way they are those of the selected
\* trace; and the details of the hit in focus, if there is one, are asked for after all others.
LEMMA SpansRight ==
  ASSUME BInv, Right, NEW i \in 1..Len(calls), NEW ok \in BOOLEAN, SpansAnswered(i, ok)
  PROVE  Right'
<1> DEFINE rest == RemoveAt(calls, 1)
           c == GetMessages(calls[1].focus)
<1> SUFFICES ASSUME inOrder', errors' = 0
             PROVE  /\ Aims(calls', "spans", selectedTraceId')
                    /\ Idle(calls', "spans") => \A s \in spans' : TraceOf[s] = selectedTraceId'
                    /\ selectedSpanId' # NoSpan =>
                         /\ Aims(calls', "messages", selectedSpanId')
                         /\ Idle(calls', "messages") => messages' \in {selectedSpanId', NoSpan}
  BY DEF Right, Aims, Idle, Latest
<1>1. Answered(i, "spans", ok)
  BY DEF SpansAnswered
<1>2. /\ i = 1 /\ ok /\ inOrder /\ errors = 0 /\ 1 \in 1..Len(calls)
      /\ calls \in Seq(Call) /\ calls[1].op = "spans" /\ calls[1] \in Call
  BY <1>1, FirstComesBack
<1>3. /\ rest \in Seq(Call) /\ Aims(rest, "spans", selectedTraceId)
      /\ Idle(rest, "spans") => Points(calls[1]) = selectedTraceId
      /\ Follows(calls, rest, "messages")
  BY <1>2, AimsRest, Removed DEF Right
<1>4. spans' = SpansIn(calls[1].trace) /\ selectedTraceId' = selectedTraceId
  BY <1>2 DEF SpansAnswered
<1>5. Idle(rest, "spans") => \A s \in spans' : TraceOf[s] = selectedTraceId'
  BY <1>2, <1>3, <1>4 DEF Points, SpansIn
<1>6. CASE calls[1].focus = NoSpan
  <2>1. calls' = rest /\ UNCHANGED <<selectedSpanId, messages>>
    BY <1>2, <1>6 DEF SpansAnswered, Done
  <2> HIDE DEF rest
  <2> QED BY <1>2, <1>3, <1>4, <1>5, <2>1 DEF Right, Follows
<1>7. CASE calls[1].focus # NoSpan
  <2>1. calls' = Append(rest, c) /\ selectedSpanId' = calls[1].focus /\ calls[1].focus \in Span
    BY <1>2, <1>7 DEF SpansAnswered, DoneThen, ShowSpan, Call
  <2>2. c \in Call /\ c.op = "messages" /\ c.span = calls[1].focus
    BY <2>1, CallsMade DEF CallOK
  <2> HIDE DEF rest, c
  <2>3. Follows(rest, calls', "spans")
    BY <1>3, <2>1, <2>2, AimsAppend
  <2>4. Aims(calls', "messages", selectedSpanId') /\ ~Idle(calls', "messages")
    <3>1. Points(c) = selectedSpanId'
      BY <2>1, <2>2 DEF Points
    <3> QED BY <1>3, <2>1, <2>2, <3>1, AimsAppend
  <2> QED BY <1>3, <1>4, <1>5, <2>3, <2>4 DEF Follows
<1> QED BY <1>6, <1>7

\* The details arrive.  If no later ones are on their way they are the selected span's.
LEMMA MessagesRight ==
  ASSUME BInv, Right, NEW i \in 1..Len(calls), NEW ok \in BOOLEAN, MessagesAnswered(i, ok)
  PROVE  Right'
<1> DEFINE rest == RemoveAt(calls, 1)
<1> SUFFICES ASSUME inOrder', errors' = 0
             PROVE  /\ Aims(calls', "spans", selectedTraceId')
                    /\ Idle(calls', "spans") => \A s \in spans' : TraceOf[s] = selectedTraceId'
                    /\ selectedSpanId' # NoSpan =>
                         /\ Aims(calls', "messages", selectedSpanId')
                         /\ Idle(calls', "messages") => messages' \in {selectedSpanId', NoSpan}
  BY DEF Right, Aims, Idle, Latest
<1>1. Answered(i, "messages", ok)
  BY DEF MessagesAnswered
<1>2. /\ i = 1 /\ ok /\ inOrder /\ errors = 0 /\ 1 \in 1..Len(calls)
      /\ calls \in Seq(Call) /\ calls[1].op = "messages" /\ calls[1] \in Call
  BY <1>1, FirstComesBack
<1>3. /\ Follows(calls, rest, "spans")
      /\ \A x : Aims(calls, "messages", x) =>
           Aims(rest, "messages", x) /\ (Idle(rest, "messages") => Points(calls[1]) = x)
  BY <1>2, AimsRest
<1>4. /\ calls' = rest /\ messages' = calls[1].span
      /\ UNCHANGED <<selectedTraceId, spans, selectedSpanId>>
  BY <1>2 DEF MessagesAnswered, Done
<1>5. Points(calls[1]) = calls[1].span
  BY <1>2 DEF Points
<1> HIDE DEF rest
<1> QED BY <1>2, <1>3, <1>4, <1>5 DEF Right, Follows

-----------------------------------------------------------------------------
(* Panes that have come to rest *)

\* Every step keeps the panes right.
LEMMA RightNext == BInv /\ Right /\ [Next]_vars => Right'
<1> SUFFICES ASSUME BInv, Right, [Next]_vars PROVE Right'
  OBVIOUS
<1>1. BInv'
  BY BInvNext
<1>2. CASE User
  BY <1>1, <1>2, SelectTraceRight, SelectSpanRight, OthersRight DEF User
<1>3. CASE Poll
  BY <1>1, <1>3, OthersRight
<1>4. CASE \E b \in Breakpoint, s \in Span : RecordHit(b, s)
  BY <1>1, <1>4, OthersRight
<1>5. CASE \E i \in 1..Len(calls) : Serve(i)
  BY <1>1, <1>5, OthersRight
<1>6. ASSUME NEW i \in 1..Len(calls), NEW ok \in BOOLEAN, Continue(i, ok) PROVE Right'
  BY <1>6, ApartRight, BreakpointsRight, SpansRight, MessagesRight DEF Continue
<1>7. CASE UNCHANGED vars
  BY <1>1, <1>7, OthersRight
<1> QED BY <1>2, <1>3, <1>4, <1>5, <1>6, <1>7 DEF Next

\* At the start nothing is selected and nothing about it is on its way.
LEMMA RightInit == Init => Right
<1> SUFFICES ASSUME Init PROVE Right
  OBVIOUS
<1>1. Len(calls) = 1 /\ calls[1].op = "health"
  BY DEF Init, Plain
<1>2. selectedSpanId = NoSpan /\ spans = {}
  BY DEF Init
<1> QED BY <1>1, <1>2 DEF Right, Aims, Latest

\* Once every call has come back (in order, none failed), the panes show spans of the
\* selected trace and the details of the selected span, whatever was selected, announced
\* and answered in between, and however many calls were under way (store.ts:176-194).
THEOREM PanesComeToRest == Spec => []PanesAgree
<1>1. Init => BInv /\ Right
  BY BInvInit, RightInit
<1>2. BInv /\ Right /\ [Next]_vars => (BInv /\ Right)'
  BY BInvNext, RightNext
<1>3. BInv /\ Right => PanesAgree
  BY DEF Right, Idle, PanesAgree, Quiet
<1> QED BY <1>1, <1>2, <1>3, PTL DEF Spec

=================================================================================
