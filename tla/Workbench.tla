------------------------------- MODULE Workbench -------------------------------
(***************************************************************************)
(* The Workbench's store (packages/ui/src/store.ts) and the HTTP calls it  *)
(* has under way.  Every operation of the store runs to its next `await',  *)
(* lets other operations run, and then writes what its answer says.  A     *)
(* call under way is a record with what its continuation still needs; the  *)
(* server (tools/ref_ingest, see TraceIngest) appears only as the times at *)
(* which it answers, counts breakpoint hits and deletes breakpoints.       *)
(***************************************************************************)
EXTENDS Naturals, SequencesExt

CONSTANTS
  Span, Trace, Breakpoint,
  TraceOf,        \* the trace of each span
  ToolSpan,       \* the spans of kind tool_call
  Matches,        \* the spans that satisfy each breakpoint's predicate
  InOrders,       \* may the network keep answers in order, may it not: values of inOrder
  MaxClicks,      \* bound: what the user does
  MaxHits,        \* bound: breakpoint hits counted by the server
  MaxEvents,      \* bound: both together, a hit counted twice
  MaxErrors,      \* bound: calls that fail
  MaxCalls,       \* bound: calls under way
  NoTrace, NoSpan, NoHit, Unset, Pending

ASSUME WorkbenchAssumption ==
  /\ TraceOf \in [Span -> Trace]
  /\ ToolSpan \subseteq Span /\ Matches \in [Breakpoint -> SUBSET Span]
  /\ InOrders \subseteq BOOLEAN
  /\ {MaxClicks, MaxHits, MaxEvents, MaxErrors, MaxCalls} \subseteq Nat
  /\ NoTrace \notin Trace /\ NoSpan \notin Span

VARIABLES
  connected, listed,        \* is the server there, has the trace list arrived
  selectedTraceId, spans,   \* the selected trace, the spans shown under it
  selectedSpanId, messages, \* the selected span, the span whose details are shown
  bpSig,                    \* the hit announced last
  branchModal,
  calls,                    \* calls under way, in the order they were made
  hits,                     \* server: the last hit of each breakpoint
  clicks, now, errors,      \* how much of the bounds is used; `now' dates hits
  inOrder                   \* do answers arrive in the order the calls were made?

shown == <<selectedTraceId, spans, selectedSpanId, messages>>
used  == <<clicks, now, errors, inOrder>>
vars  == <<connected, listed, shown, bpSig, branchModal, calls, hits, used>>

Hit   == [bp : Breakpoint, at : 1..MaxHits, span : Span]
Hits  == [Breakpoint -> Hit \cup {NoHit, Unset}]  \* Unset: no such breakpoint (any more)
Modal == [open : BOOLEAN, span : Span \cup {NoSpan}, busy : BOOLEAN]

\* focus: the span refreshBreakpoints selects next; closes: confirmBranch waits
\* for this call; answer: what the server has said, when that depends on time.
Call == [op : {"health", "projects", "traces", "breakpoints", "spans", "messages",
               "toolCall", "branch", "add", "delete"},
         trace : Trace \cup {NoTrace}, span : Span \cup {NoSpan},
         bp : Breakpoint \cup {NoHit}, focus : Span \cup {NoSpan},
         closes : BOOLEAN, answer : Hits \cup {Pending}]

Plain(op) == [op |-> op, trace |-> NoTrace, span |-> NoSpan, bp |-> NoHit,
              focus |-> NoSpan, closes |-> FALSE, answer |-> Pending]
GetSpans(t, s)   == [Plain("spans") EXCEPT !.trace = t, !.focus = s]
GetMessages(s)   == [Plain("messages") EXCEPT !.span = s]

SpansIn(t) == {s \in Span : TraceOf[s] = t}

\* The hit with the latest last_hit_at.
NewestHit(h) ==
  LET dated == {h[b] : b \in Breakpoint} \ {NoHit, Unset}
  IN  IF dated = {} THEN NoHit
      ELSE CHOOSE x \in dated : \A y \in dated : y.at <= x.at

Init ==
  /\ connected = FALSE /\ listed = FALSE
  /\ selectedTraceId = NoTrace /\ spans = {}
  /\ selectedSpanId = NoSpan /\ messages = NoSpan
  /\ bpSig = NoHit
  /\ branchModal = [open |-> FALSE, span |-> NoSpan, busy |-> FALSE]
  /\ calls = <<Plain("health")>>
  /\ hits \in [Breakpoint -> {NoHit, Unset}]
  /\ clicks = 0 /\ now = 0 /\ errors = 0 /\ inOrder \in InOrders

-----------------------------------------------------------------------------
(* The user, and the timer of Workbench.tsx *)

Click == clicks < MaxClicks /\ clicks + 2 * now < MaxEvents /\ clicks' = clicks + 1

Ask(c) == Len(calls) < MaxCalls /\ calls' = Append(calls, c)

\* Selecting clears the panes at once and fills them when the answer arrives.
ShowTrace(t) == /\ selectedTraceId' = t
                /\ spans' = {} /\ selectedSpanId' = NoSpan /\ messages' = NoSpan
ShowSpan(s)  == selectedSpanId' = s /\ messages' = NoSpan

\* A click in the trace tree; an open dialog lies over the tree.
SelectTrace(t) ==
  /\ Click /\ listed /\ ~branchModal.open
  /\ ShowTrace(t)
  /\ Ask(GetSpans(t, NoSpan))
  /\ UNCHANGED <<connected, listed, bpSig, branchModal, hits, now, errors, inOrder>>

\* Mutant of SelectSpan: no call when details are shown already.
SelectSpanUnfetched(s) ==
  /\ Click /\ s \in spans
  /\ IF messages = NoSpan THEN ShowSpan(s) /\ Ask(GetMessages(s))
                          ELSE selectedSpanId' = s /\ UNCHANGED <<messages, calls>>
  /\ UNCHANGED <<connected, listed, selectedTraceId, spans, bpSig, branchModal, hits, now, errors, inOrder>>

\* A click on a span, or next, prev, step, finish, continue: all of them go to
\* one of the spans shown.
SelectSpan(s) ==
  /\ Click /\ s \in spans
  /\ ShowSpan(s)
  /\ Ask(GetMessages(s))
  /\ UNCHANGED <<connected, listed, selectedTraceId, spans, bpSig, branchModal, hits, now, errors, inOrder>>

\* The Inspector's button or `branch <span_id>'.
OpenBranch(s) ==
  /\ Click /\ s \in spans \cap ToolSpan
  /\ Ask([Plain("toolCall") EXCEPT !.span = s])
  /\ UNCHANGED <<connected, listed, shown, bpSig, branchModal, hits, now, errors, inOrder>>

CloseBranch ==
  /\ Click /\ branchModal.open /\ ~branchModal.busy
  /\ branchModal' = [branchModal EXCEPT !.open = FALSE]
  /\ UNCHANGED <<connected, listed, shown, bpSig, calls, hits, now, errors, inOrder>>

ConfirmBranch ==
  /\ Click /\ branchModal.open /\ ~branchModal.busy
  /\ branchModal.span # NoSpan /\ selectedTraceId # NoTrace
  /\ branchModal' = [branchModal EXCEPT !.busy = TRUE]
  /\ Ask([Plain("branch") EXCEPT !.trace = selectedTraceId, !.span = branchModal.span,
                                 !.closes = TRUE])
  /\ UNCHANGED <<connected, listed, shown, bpSig, hits, now, errors, inOrder>>

\* `break <predicate>' and `delete <id>'.
EditBreakpoint(b) ==
  /\ Click
  /\ \E op \in {"add", "delete"} :
       /\ op = "add" <=> hits[b] = Unset
       /\ Ask([Plain(op) EXCEPT !.bp = b])
  /\ UNCHANGED <<connected, listed, shown, bpSig, branchModal, hits, now, errors, inOrder>>

Poll ==
  /\ Ask(Plain("traces"))
  /\ UNCHANGED <<connected, listed, shown, bpSig, branchModal, hits, used>>

-----------------------------------------------------------------------------
(* The server *)

RecordHit(b, s) ==
  /\ now < MaxHits /\ clicks + 2 * now + 2 <= MaxEvents
  /\ s \in Matches[b] /\ hits[b] # Unset
  /\ now' = now + 1
  /\ hits' = [hits EXCEPT ![b] = [bp |-> b, at |-> now + 1, span |-> s]]
  /\ UNCHANGED <<connected, listed, shown, bpSig, branchModal, calls, clicks, errors, inOrder>>

TimeMatters(c) == c.op \in {"breakpoints", "add", "delete"}

\* An add whose predicate does not parse changes nothing.
Serve(i) ==
  /\ TimeMatters(calls[i]) /\ calls[i].answer = Pending
  /\ inOrder => \A j \in 1..(i - 1) : TimeMatters(calls[j]) => calls[j].answer # Pending
  /\ \/ calls[i].op # "delete" /\ UNCHANGED hits
     \/ /\ calls[i].op = "add" /\ hits[calls[i].bp] = Unset
        /\ hits' = [hits EXCEPT ![calls[i].bp] = NoHit]
     \/ calls[i].op = "delete" /\ hits' = [hits EXCEPT ![calls[i].bp] = Unset]
  /\ calls' = [calls EXCEPT ![i].answer = hits']
  /\ UNCHANGED <<connected, listed, shown, bpSig, branchModal, used>>

-----------------------------------------------------------------------------
(* Continuations: the i-th call comes back.  ok says whether its promise is *)
(* fulfilled or rejected.                                                   *)

Answered(i, op, ok) ==
  /\ calls[i].op = op
  /\ inOrder => i = 1
  /\ ok /\ TimeMatters(calls[i]) => calls[i].answer # Pending
  /\ ~ok => errors < MaxErrors
  /\ errors' = IF ok THEN errors ELSE errors + 1
  /\ UNCHANGED <<hits, clicks, now, inOrder>>

Done(i)          == calls' = RemoveAt(calls, i)
DoneThen(i, c)   == calls' = Append(RemoveAt(calls, i), c)
\* The last await of a chain: confirmBranch's `finally' closes the dialog.
Closing(i)       == branchModal' = IF calls[i].closes
                                     THEN [branchModal EXCEPT !.open = FALSE, !.busy = FALSE]
                                     ELSE branchModal

HealthAnswered(i, ok) ==
  /\ Answered(i, "health", ok)
  /\ connected' = ok
  /\ IF ok THEN DoneThen(i, Plain("projects")) ELSE Done(i)
  /\ UNCHANGED <<listed, shown, bpSig, branchModal>>

ProjectsAnswered(i, ok) ==
  /\ Answered(i, "projects", ok)
  /\ connected' = (connected /\ ok)
  /\ IF ok THEN DoneThen(i, Plain("traces")) ELSE Done(i)
  /\ UNCHANGED <<listed, shown, bpSig, branchModal>>

\* Mutants of TracesAnswered: nobody notices that the server is back; a failure
\* skips confirmBranch's `finally'.
TracesAnsweredQuietly(i, ok) ==
  /\ Answered(i, "traces", ok)
  /\ connected' = (connected /\ ok)
  /\ listed' = (listed \/ ok)
  /\ IF ok THEN DoneThen(i, [Plain("breakpoints") EXCEPT !.closes = calls[i].closes])
           ELSE Done(i)
  /\ IF ok THEN UNCHANGED branchModal ELSE Closing(i)
  /\ UNCHANGED <<shown, bpSig>>

TracesAnsweredNoFinally(i, ok) ==
  /\ Answered(i, "traces", ok)
  /\ connected' = ok
  /\ listed' = (listed \/ ok)
  /\ IF ok THEN DoneThen(i, [Plain("breakpoints") EXCEPT !.closes = calls[i].closes])
           ELSE Done(i)
  /\ UNCHANGED <<shown, bpSig, branchModal>>

TracesAnswered(i, ok) ==
  /\ Answered(i, "traces", ok)
  /\ connected' = ok
  /\ listed' = (listed \/ ok)
  /\ IF ok THEN DoneThen(i, [Plain("breakpoints") EXCEPT !.closes = calls[i].closes])
           ELSE Done(i)
  /\ IF ok THEN UNCHANGED branchModal ELSE Closing(i)
  /\ UNCHANGED <<shown, bpSig>>

\* Mutant of NewSignature: with nothing to compare with, nothing is announced.
NewSignatureOnChange(hit) == hit # NoHit /\ bpSig # NoHit /\ hit # bpSig

NewSignature(hit) == hit # NoHit /\ hit # bpSig

\* A new signature is announced, and its trace selected.
BreakpointsAnswered(i, ok) ==
  LET hit == NewestHit(calls[i].answer)
  IN
  /\ Answered(i, "breakpoints", ok)
  /\ \/ /\ ok /\ NewSignature(hit)
        /\ bpSig' = hit
        /\ ShowTrace(TraceOf[hit.span])
        /\ DoneThen(i, [GetSpans(TraceOf[hit.span], hit.span) EXCEPT !.closes = calls[i].closes])
        /\ UNCHANGED branchModal
     \/ /\ ok => ~NewSignature(hit)
        /\ Done(i) /\ Closing(i)
        /\ UNCHANGED <<bpSig, shown>>
  /\ UNCHANGED <<connected, listed>>

\* Mutant of SpansAnswered: the hit is focused only if its spans arrived.
SpansAnsweredIfOk(i, ok) ==
  /\ Answered(i, "spans", ok)
  /\ spans' = IF ok THEN SpansIn(calls[i].trace) ELSE spans
  /\ connected' = (connected /\ ok)
  /\ IF ~ok \/ calls[i].focus = NoSpan
       THEN Done(i) /\ UNCHANGED <<selectedSpanId, messages>>
       ELSE DoneThen(i, GetMessages(calls[i].focus)) /\ ShowSpan(calls[i].focus)
  /\ Closing(i)
  /\ UNCHANGED <<listed, selectedTraceId, bpSig>>

\* The spans are shown, whatever has been selected in the meantime.
SpansAnswered(i, ok) ==
  /\ Answered(i, "spans", ok)
  /\ spans' = IF ok THEN SpansIn(calls[i].trace) ELSE spans
  /\ connected' = (connected /\ ok)
  /\ IF calls[i].focus = NoSpan
       THEN Done(i) /\ UNCHANGED <<selectedSpanId, messages>>
       ELSE DoneThen(i, GetMessages(calls[i].focus)) /\ ShowSpan(calls[i].focus)
  /\ Closing(i)
  /\ UNCHANGED <<listed, selectedTraceId, bpSig>>

MessagesAnswered(i, ok) ==
  /\ Answered(i, "messages", ok)
  /\ messages' = IF ok THEN calls[i].span ELSE messages
  /\ connected' = (connected /\ ok)
  /\ Done(i)
  /\ UNCHANGED <<listed, selectedTraceId, spans, selectedSpanId, bpSig, branchModal>>

\* The dialog opens, with or without the recorded result.
ToolCallAnswered(i, ok) ==
  /\ Answered(i, "toolCall", ok)
  /\ branchModal' = [open |-> TRUE, span |-> calls[i].span, busy |-> FALSE]
  /\ Done(i)
  /\ UNCHANGED <<connected, listed, shown, bpSig>>

\* Mutant of BranchAnswered: no `finally'.
BranchAnsweredNoFinally(i, ok) ==
  /\ Answered(i, "branch", ok)
  /\ IF ok THEN DoneThen(i, [Plain("traces") EXCEPT !.closes = TRUE]) ELSE Done(i)
  /\ UNCHANGED <<connected, listed, shown, bpSig, branchModal>>

BranchAnswered(i, ok) ==
  /\ Answered(i, "branch", ok)
  /\ IF ok THEN DoneThen(i, [Plain("traces") EXCEPT !.closes = TRUE]) /\ UNCHANGED branchModal
           ELSE Done(i) /\ Closing(i)
  /\ UNCHANGED <<connected, listed, shown, bpSig>>

\* A refused breakpoint refreshes nothing.
Refused(c) == c.op = "add" /\ c.answer[c.bp] = Unset

EditAnswered(i, ok) ==
  /\ \E op \in {"add", "delete"} : Answered(i, op, ok)
  /\ IF ok /\ ~Refused(calls[i]) THEN DoneThen(i, Plain("breakpoints")) ELSE Done(i)
  /\ UNCHANGED <<connected, listed, shown, bpSig, branchModal>>

-----------------------------------------------------------------------------
Continue(i, ok) ==
  \/ HealthAnswered(i, ok) \/ ProjectsAnswered(i, ok) \/ TracesAnswered(i, ok)
  \/ BreakpointsAnswered(i, ok) \/ SpansAnswered(i, ok) \/ MessagesAnswered(i, ok)
  \/ ToolCallAnswered(i, ok) \/ BranchAnswered(i, ok) \/ EditAnswered(i, ok)

User ==
  \/ \E t \in Trace : SelectTrace(t)
  \/ \E s \in Span : SelectSpan(s) \/ OpenBranch(s)
  \/ CloseBranch \/ ConfirmBranch
  \/ \E b \in Breakpoint : EditBreakpoint(b)

Next ==
  \/ User \/ Poll
  \/ \E b \in Breakpoint, s \in Span : RecordHit(b, s)
  \/ \E i \in 1..Len(calls) : Serve(i) \/ \E ok \in BOOLEAN : Continue(i, ok)

\* The timer never stops, the server serves, and the oldest call comes back.
Fairness ==
  /\ WF_vars(Poll)
  /\ WF_vars(calls # <<>> /\ Serve(1))
  /\ WF_vars(calls # <<>> /\ \E ok \in BOOLEAN : Continue(1, ok))

Spec     == Init /\ [][Next]_vars
FairSpec == Spec /\ Fairness

-----------------------------------------------------------------------------
\* Every variable stays in its domain; only a selected trace is branched; and the dialog
\* says `replaying' only while confirmBranch still waits for a call, so it is never stuck
\* with its buttons disabled (store.ts:423-444).
TypeOK ==
  /\ {connected, listed, inOrder} \subseteq BOOLEAN
  /\ selectedTraceId \in Trace \cup {NoTrace} /\ spans \subseteq Span
  /\ {selectedSpanId, messages} \subseteq Span \cup {NoSpan}
  /\ bpSig \in Hit \cup {NoHit}
  /\ branchModal \in Modal
  /\ calls \in Seq(Call)
  /\ \A i \in 1..Len(calls) :
       calls[i].op = "branch" => calls[i].span # NoSpan /\ calls[i].trace # NoTrace
  /\ hits \in Hits
  /\ branchModal.busy => \E i \in 1..Len(calls) : calls[i].closes

Quiet == calls = <<>>

\* `Wired to the selected span' (Inspector.tsx:5): once every call has come back
\* (in order, and none failed) the panes show spans of the selected trace and details of the selected span.
PanesAgree ==
  Quiet /\ inOrder /\ errors = 0 =>
           /\ \A s \in spans : TraceOf[s] = selectedTraceId
           /\ selectedSpanId # NoSpan => messages \in {selectedSpanId, NoSpan}

\* `Detect a new hit' (store.ts:147): what is announced is newer than what was.
AnnouncesNewHits ==
  [][bpSig' # bpSig => bpSig = NoHit \/ bpSig'.at > bpSig.at]_vars

\* `Replay from tool span X' (BranchModal.tsx:57): a replay is asked for in the
\* trace the span is in.
ReplaysOwnTrace ==
  \A i \in 1..Len(calls) : calls[i].op = "branch" => TraceOf[calls[i].span] = calls[i].trace

\* `Detect a new hit' (store.ts:147), to the end: although polls overlap, and the answer
\* that still has an older hit of another breakpoint may come last and announce that one
\* again, what is announced for good is the newest hit the server still knows, or a later
\* one whose breakpoint was deleted.
NewestHitIsAnnounced ==
  LET newest == NewestHit(hits)
  IN  <>[](newest = NoHit \/ (bpSig # NoHit /\ bpSig.at >= newest.at))

\* After an outage the timer finds the server again.
Reconnects == <>[]connected

\* An announced hit gets the selection, even if its spans could not be fetched.
HitIsFocused ==
  \A s \in Span : (\E i \in 1..Len(calls) : calls[i].focus = s) ~> selectedSpanId = s

\* The dialog closes when the replay and the refresh after it are over.
ReplayEnds == branchModal.busy ~> ~branchModal.busy
================================================================================
