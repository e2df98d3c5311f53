------------------------------ MODULE TraceIngest ------------------------------
(***************************************************************************)
(* The OTLP collector: gRPC Export handlers that write one embedded DuckDB *)
(* store under one lock (tools/ref_ingest/server.py, mapper.py, store.py;  *)
(* the Rust crates `ingestion' and `store' are the same machine, without   *)
(* the breakpoint hits).                                                   *)
(*                                                                         *)
(* A handler is modelled SQL statement by SQL statement, because the store *)
(* commits every statement on its own: a handler that fails or a process   *)
(* that is killed half-way leaves the statements it has run.  What the     *)
(* store contains of a span never depends on how its text looks, so a span *)
(* is an identifier with a few facts (SpanInfo), and a trace row is the    *)
(* set of spans its aggregates were computed from.                         *)
(*                                                                         *)
(* The reads (GET /traces, /spans ...) hold the same lock and change       *)
(* nothing: they see exactly the states in which lock = Free.              *)
(***************************************************************************)
EXTENDS Naturals, Sequences, FiniteSets

CONSTANTS
  Span, Trace, Project, Hash, Breakpoint,  \* identifiers
  Batch,           \* export requests the instrumented programs hand over
  Worker,          \* threads of the gRPC server (max_workers=4)
  Info,            \* the facts of each span
  Request,         \* project and spans of each batch, grouped by trace
  DefaultProject,  \* name used by POST /breakpoints on an empty store
  MaxAttempts,     \* bound: deliveries of one batch, the first one included
  Faults,          \* may a statement fail or the process be killed?
  Free, NoRow, NoSpan, NoHash, NoBatch

SpanInfo ==
  [ trace    : Trace,
    error    : BOOLEAN,             \* STATUS_CODE_ERROR
    started  : BOOLEAN,             \* start time is not 0 (spans.started_at NOT NULL)
    messages : Nat,                 \* prompt and completion messages it carries
    tool     : BOOLEAN,             \* a tool_call span with a tool name
    pins     : Hash \cup {NoHash},  \* llm_call with a prompt_hash and a completion
    model    : BOOLEAN,             \* has a model (llm_cache.model NOT NULL)
    breaks   : SUBSET Breakpoint ]  \* breakpoints whose condition it satisfies

Group == [trace : Trace, spans : Seq(Span)]

ASSUME InfoAssumption == Info \in [Span -> SpanInfo]

\* by_trace: the groups of a request hold spans of their own trace.
ASSUME RequestAssumption ==
  /\ Request \in [Batch -> [project : Project, groups : Seq(Group)]]
  /\ \A b \in Batch : \A g \in 1..Len(Request[b].groups) :
       \A i \in 1..Len(Request[b].groups[g].spans) :
         Info[Request[b].groups[g].spans[i]].trace = Request[b].groups[g].trace

\* by_trace is a dict that is filled span by span: one group for a trace, none empty.
ASSUME ByTraceAssumption ==
  \A b \in Batch : \A g \in 1..Len(Request[b].groups) :
    /\ Len(Request[b].groups[g].spans) > 0
    /\ \A h \in 1..Len(Request[b].groups) :
         Request[b].groups[g].trace = Request[b].groups[h].trace => g = h

\* The SDK hands a span that ended to its exporter once; only whole batches are sent
\* again.  So a span has one place in one batch.
ASSUME SentOnceAssumption ==
  \A b, c \in Batch :
    \A g \in 1..Len(Request[b].groups), h \in 1..Len(Request[c].groups) :
      \A i \in 1..Len(Request[b].groups[g].spans), k \in 1..Len(Request[c].groups[h].spans) :
        Request[b].groups[g].spans[i] = Request[c].groups[h].spans[k] => b = c /\ g = h /\ i = k

ASSUME ScalarAssumption ==
  /\ DefaultProject \in Project
  /\ MaxAttempts \in Nat \ {0}
  /\ Faults \in BOOLEAN
  /\ Free \notin Worker
  /\ NoSpan \notin Span
  /\ NoBatch \notin Batch
  /\ NoHash \notin Hash
  /\ NoRow \notin [project : Nat, from : SUBSET Span]

VARIABLES
  projects,    \* table projects: the names in creation order, the id is the position
  traces,      \* table traces
  spans,       \* table spans: ids of the stored spans
  messages,    \* table messages: rows stored for each span
  toolCalls,   \* table tool_calls: spans with a row
  llmCache,    \* table llm_cache: the span whose response is pinned under a hash
  breakpoints, \* table breakpoints, over the ids ever used
  lock,        \* the threading.Lock shared by Export and the HTTP API
  job,         \* what each gRPC worker is doing
  client,      \* where the exporter stands with each batch
  attempts     \* deliveries of each batch so far

store == <<projects, traces, spans, messages, toolCalls, llmCache, breakpoints>>
vars  == <<projects, traces, spans, messages, toolCalls, llmCache, breakpoints,
           lock, job, client, attempts>>

\* A trace row; label, parent and totals are functions of `from', like the status.
Row == [project : Nat, from : SUBSET Span]

Status(row) == IF \E s \in row.from : Info[s].error THEN "failed" ELSE "completed"

BreakpointRow == [state : {"unused", "enabled", "deleted"}, hits : Nat,
                  last : Span \cup {NoSpan}]

\* The writes a span still needs once its own row is stored.
Todo    == [messages : Nat, tool : BOOLEAN, cache : BOOLEAN, hits : SUBSET Breakpoint]
Nothing == [messages |-> 0, tool |-> FALSE, cache |-> FALSE, hits |-> {}]

Job == [pc : {"idle", "waiting", "project", "insert", "writing"}, batch : Batch \cup {NoBatch},
        heard : BOOLEAN,            \* the caller still waits for the reply
        watch : SUBSET Breakpoint,  \* enabled breakpoints read at the start
        project : Nat,
        group : Nat, at : Nat,      \* group and span last begun, 0 before the first
        todo : Todo]

Idle == [pc |-> "idle", batch |-> NoBatch, heard |-> FALSE, watch |-> {},
         project |-> 0, group |-> 0, at |-> 0, todo |-> Nothing]

-----------------------------------------------------------------------------
\* Shorthands for the handler's position in its request.

Groups(w)   == Request[job[w].batch].groups
GroupOf(w)  == Groups(w)[job[w].group]
CurSpan(w)  == GroupOf(w).spans[job[w].at]
NextSpan(w) == GroupOf(w).spans[job[w].at + 1]

GroupDone(w) == /\ job[w].todo = Nothing
                /\ job[w].group > 0 => job[w].at = Len(GroupOf(w).spans)
MoreSpans(w) == /\ job[w].todo = Nothing
                /\ job[w].group > 0
                /\ job[w].at < Len(GroupOf(w).spans)
\* Mutant of AllDone: the reply does not wait for the last group's spans.
AllDoneEarly(w) == job[w].group = Len(Groups(w))

AllDone(w)   == GroupDone(w) /\ job[w].group = Len(Groups(w))

Writing(w) == job[w].pc = "writing"

Elements(seq) == {seq[i] : i \in 1..Len(seq)}
SpansOf(b)    == UNION {Elements(Request[b].groups[g].spans) : g \in 1..Len(Request[b].groups)}

-----------------------------------------------------------------------------
Init ==
  /\ projects = <<>>
  /\ traces = [t \in Trace |-> NoRow]
  /\ spans = {}
  /\ messages = [s \in Span |-> 0]
  /\ toolCalls = {}
  /\ llmCache = [h \in Hash |-> NoSpan]
  /\ breakpoints = [b \in Breakpoint |-> [state |-> "unused", hits |-> 0, last |-> NoSpan]]
  /\ lock = Free
  /\ job = [w \in Worker |-> Idle]
  /\ client = [b \in Batch |-> "queued"]
  /\ attempts = [b \in Batch |-> 0]

-----------------------------------------------------------------------------
(* The exporter (OpenTelemetry SDK, external): it sends a batch, gives up on *)
(* a call that takes too long or whose server died, and sends it again until *)
(* its attempts are used up.  A reply other than success is not retried.     *)

Send(b) ==
  /\ client[b] = "queued"
  /\ client' = [client EXCEPT ![b] = "sent"]
  /\ attempts' = [attempts EXCEPT ![b] = @ + 1]
  /\ UNCHANGED <<store, lock, job>>

AfterLoss(b) == IF attempts[b] < MaxAttempts THEN "queued" ELSE "dropped"

\* The deadline passes, before or after a worker took the call; a worker that
\* did goes on, and its reply will find nobody listening.
GiveUp(b) ==
  /\ client[b] \in {"sent", "received"}
  /\ client' = [client EXCEPT ![b] = AfterLoss(b)]
  /\ job' = [w \in Worker |-> IF job[w].batch = b THEN [job[w] EXCEPT !.heard = FALSE]
                                                 ELSE job[w]]
  /\ UNCHANGED <<store, lock, attempts>>

-----------------------------------------------------------------------------
(* The Export handler *)

\* A pool thread starts on the call and blocks on `with self._lock'.
Receive(w, b) ==
  /\ job[w] = Idle
  /\ client[b] = "sent"
  /\ client' = [client EXCEPT ![b] = "received"]
  /\ job' = [job EXCEPT ![w].pc = "waiting", ![w].batch = b, ![w].heard = TRUE]
  /\ UNCHANGED <<store, lock, attempts>>

\* Mutant of Acquire: nobody waits for the lock.
AcquireFreely(w) ==
  /\ job[w].pc = "waiting"
  /\ lock' = w
  /\ job' = [job EXCEPT ![w].pc = "project"]
  /\ UNCHANGED <<store, client, attempts>>

\* It gets the lock and reads the enabled breakpoints, once for the batch.
Acquire(w) ==
  /\ job[w].pc = "waiting"
  /\ lock = Free
  /\ lock' = w
  /\ job' = [job EXCEPT ![w].pc = "project",
                ![w].watch = {b \in Breakpoint : breakpoints[b].state = "enabled"}]
  /\ UNCHANGED <<store, client, attempts>>

\* ensure_project: SELECT by name ...
LookupProject(w) ==
  /\ job[w].pc = "project"
  /\ \/ \E p \in 1..Len(projects) :
          /\ projects[p] = Request[job[w].batch].project
          /\ job' = [job EXCEPT ![w].pc = "writing", ![w].project = p]
     \/ /\ \A p \in 1..Len(projects) : projects[p] # Request[job[w].batch].project
        /\ job' = [job EXCEPT ![w].pc = "insert"]
  /\ UNCHANGED <<store, lock, client, attempts>>

\* Mutant of InsertProject: the fresh id is used, its row is never written.
InsertProjectForgotten(w) ==
  /\ job[w].pc = "insert"
  /\ job' = [job EXCEPT ![w].pc = "writing", ![w].project = Len(projects) + 1]
  /\ UNCHANGED <<store, lock, client, attempts>>

\* ... and INSERT with a fresh id when there was none.
InsertProject(w) ==
  /\ job[w].pc = "insert"
  /\ projects' = Append(projects, Request[job[w].batch].project)
  /\ job' = [job EXCEPT ![w].pc = "writing", ![w].project = Len(projects) + 1]
  /\ UNCHANGED <<traces, spans, messages, toolCalls, llmCache, breakpoints,
                 lock, client, attempts>>

\* Mutant of UpsertTrace: the aggregates of the last span only.
UpsertTraceOfLast(w) ==
  /\ Writing(w) /\ GroupDone(w) /\ ~AllDone(w)
  /\ LET g == Groups(w)[job[w].group + 1]
     IN  traces' = [traces EXCEPT ![g.trace] =
                      [project |-> job[w].project, from |-> {g.spans[Len(g.spans)]}]]
  /\ job' = [job EXCEPT ![w].group = @ + 1, ![w].at = 0]
  /\ UNCHANGED <<projects, spans, messages, toolCalls, llmCache, breakpoints,
                 lock, client, attempts>>

\* Pass 1 over the next group, then its trace row: inserted or overwritten whole.
UpsertTrace(w) ==
  /\ Writing(w) /\ GroupDone(w) /\ ~AllDone(w)
  /\ LET g == Groups(w)[job[w].group + 1]
     IN  traces' = [traces EXCEPT ![g.trace] =
                      [project |-> job[w].project, from |-> Elements(g.spans)]]
  /\ job' = [job EXCEPT ![w].group = @ + 1, ![w].at = 0]
  /\ UNCHANGED <<projects, spans, messages, toolCalls, llmCache, breakpoints,
                 lock, client, attempts>>

\* Mutant of UpsertSpan: every breakpoint is hit, its condition is not evaluated.
UpsertSpanHitsAll(w) ==
  /\ Writing(w) /\ MoreSpans(w)
  /\ Info[NextSpan(w)].started
  /\ spans' = spans \cup {NextSpan(w)}
  /\ job' = [job EXCEPT ![w].at = @ + 1, ![w].todo.hits = job[w].watch]
  /\ UNCHANGED <<projects, traces, messages, toolCalls, llmCache, breakpoints,
                 lock, client, attempts>>

\* Pass 2, one span: its row, and what is left to write for it.
UpsertSpan(w) ==
  /\ Writing(w) /\ MoreSpans(w)
  /\ Info[NextSpan(w)].started
  /\ spans' = spans \cup {NextSpan(w)}
  /\ job' = [job EXCEPT ![w].at = @ + 1,
                ![w].todo = [messages |-> Info[NextSpan(w)].messages,
                          tool     |-> Info[NextSpan(w)].tool,
                          cache    |-> Info[NextSpan(w)].pins # NoHash,
                          hits     |-> Info[NextSpan(w)].breaks \cap job[w].watch]]
  /\ UNCHANGED <<projects, traces, messages, toolCalls, llmCache, breakpoints,
                 lock, client, attempts>>

\* Mutant of InsertMessage: one message too many.
InsertMessageOnceMore(w) ==
  /\ Writing(w) /\ job[w].at > 0 /\ job[w].todo.messages >= 0
  /\ messages' = [messages EXCEPT ![CurSpan(w)] = @ + 1]
  /\ job' = [job EXCEPT ![w].todo.messages = @ - 1]
  /\ UNCHANGED <<projects, traces, spans, toolCalls, llmCache, breakpoints,
                 lock, client, attempts>>

\* Every message gets a fresh ULID, so the insert never meets a conflict.
InsertMessage(w) ==
  /\ Writing(w) /\ job[w].todo.messages > 0
  /\ messages' = [messages EXCEPT ![CurSpan(w)] = @ + 1]
  /\ job' = [job EXCEPT ![w].todo.messages = @ - 1]
  /\ UNCHANGED <<projects, traces, spans, toolCalls, llmCache, breakpoints,
                 lock, client, attempts>>

InsertToolCall(w) ==
  /\ Writing(w) /\ job[w].todo.messages = 0 /\ job[w].todo.tool
  /\ toolCalls' = toolCalls \cup {CurSpan(w)}
  /\ job' = [job EXCEPT ![w].todo.tool = FALSE]
  /\ UNCHANGED <<projects, traces, spans, messages, llmCache, breakpoints,
                 lock, client, attempts>>

CacheNext(w) == job[w].todo.messages = 0 /\ ~job[w].todo.tool /\ job[w].todo.cache

UpsertLlmCache(w) ==
  /\ Writing(w) /\ CacheNext(w) /\ Info[CurSpan(w)].model
  /\ llmCache' = [llmCache EXCEPT ![Info[CurSpan(w)].pins] = CurSpan(w)]
  /\ job' = [job EXCEPT ![w].todo.cache = FALSE]
  /\ UNCHANGED <<projects, traces, spans, messages, toolCalls, breakpoints,
                 lock, client, attempts>>

HitsNext(w) == /\ job[w].todo.messages = 0 /\ ~job[w].todo.tool /\ ~job[w].todo.cache
               /\ job[w].todo.hits # {}

\* An exception here is swallowed (`never break ingestion on a bad predicate').
RecordBreakpointHit(w, b) ==
  /\ Writing(w) /\ HitsNext(w) /\ b \in job[w].todo.hits
  /\ \/ /\ breakpoints[b].state = "enabled"
        /\ breakpoints' = [breakpoints EXCEPT ![b].hits = @ + 1, ![b].last = CurSpan(w)]
     \/ /\ Faults \/ breakpoints[b].state # "enabled"
        /\ UNCHANGED breakpoints
  /\ job' = [job EXCEPT ![w].todo.hits = @ \ {b}]
  /\ UNCHANGED <<projects, traces, spans, messages, toolCalls, llmCache,
                 lock, client, attempts>>

\* The batch is written: the lock is released and the call answered OK.
Reply(w) ==
  /\ Writing(w) /\ AllDone(w)
  /\ lock' = Free
  /\ client' = IF job[w].heard THEN [client EXCEPT ![job[w].batch] = "acked"] ELSE client
  /\ job' = [job EXCEPT ![w] = Idle]
  /\ UNCHANGED <<store, attempts>>

\* A NOT NULL column without a value: the next statement cannot succeed.
BadRow(w) == \/ MoreSpans(w) /\ ~Info[NextSpan(w)].started
             \/ CacheNext(w) /\ ~Info[CurSpan(w)].model

\* A statement is due that may raise (hits are recorded inside a try block).
FailureAllowed(w) ==
  /\ \/ job[w].pc \in {"project", "insert"}
     \/ Writing(w) /\ ~AllDone(w) /\ ~HitsNext(w)
  /\ Faults \/ (Writing(w) /\ BadRow(w))

\* Mutants of StatementFails: the lock is kept; the call is answered OK all the
\* same.
StatementFailsLocked(w) ==
  /\ FailureAllowed(w)
  /\ client' = IF job[w].heard THEN [client EXCEPT ![job[w].batch] = "dropped"] ELSE client
  /\ job' = [job EXCEPT ![w] = Idle]
  /\ UNCHANGED <<store, lock, attempts>>

StatementFailsOk(w) ==
  /\ FailureAllowed(w)
  /\ lock' = Free
  /\ client' = IF job[w].heard THEN [client EXCEPT ![job[w].batch] = "acked"] ELSE client
  /\ job' = [job EXCEPT ![w] = Idle]
  /\ UNCHANGED <<store, attempts>>

\* The next statement raises: the rest of the batch is abandoned, what has been
\* written stays, the lock is released and the call answered INTERNAL.
StatementFails(w) ==
  /\ FailureAllowed(w)
  /\ lock' = Free
  /\ client' = IF job[w].heard THEN [client EXCEPT ![job[w].batch] = "dropped"] ELSE client
  /\ job' = [job EXCEPT ![w] = Idle]
  /\ UNCHANGED <<store, attempts>>

\* The process is killed and started again on the same file.
Crash ==
  /\ Faults
  /\ \E w \in Worker : job[w] # Idle
  /\ lock' = Free
  /\ job' = [w \in Worker |-> Idle]
  /\ client' = [b \in Batch |-> IF client[b] = "received" THEN AfterLoss(b) ELSE client[b]]
  /\ UNCHANGED <<store, attempts>>

-----------------------------------------------------------------------------
(* The HTTP API: one critical section per request *)

\* POST /breakpoints: its project is the one the request names, which need not exist,
\* or else the first one, made if need be.  The last statement may fail after that has
\* created the project.
AddBreakpoint(b) ==
  /\ lock = Free
  /\ breakpoints[b].state = "unused"
  /\ projects' \in {projects, IF projects = <<>> THEN <<DefaultProject>> ELSE projects}
  /\ \/ breakpoints' = [breakpoints EXCEPT ![b].state = "enabled"]
     \/ Faults /\ UNCHANGED breakpoints
  /\ UNCHANGED <<traces, spans, messages, toolCalls, llmCache, lock, job, client, attempts>>

DeleteBreakpoint(b) ==
  /\ lock = Free
  /\ breakpoints[b].state = "enabled"
  /\ breakpoints' = [breakpoints EXCEPT ![b] = [state |-> "deleted", hits |-> 0, last |-> NoSpan]]
  /\ UNCHANGED <<projects, traces, spans, messages, toolCalls, llmCache,
                 lock, job, client, attempts>>

-----------------------------------------------------------------------------
Handle(w) ==
  \/ Acquire(w) \/ LookupProject(w) \/ InsertProject(w)
  \/ UpsertTrace(w) \/ UpsertSpan(w)
  \/ InsertMessage(w) \/ InsertToolCall(w) \/ UpsertLlmCache(w)
  \/ \E b \in Breakpoint : RecordBreakpointHit(w, b)
  \/ Reply(w) \/ StatementFails(w)

Exporter(b) == Send(b) \/ GiveUp(b) \/ \E w \in Worker : Receive(w, b)

Next ==
  \/ \E w \in Worker : Handle(w)
  \/ \E b \in Batch : Exporter(b)
  \/ Crash
  \/ \E b \in Breakpoint : AddBreakpoint(b) \/ DeleteBreakpoint(b)

\* Threads that can run do run; a call that is not answered times out.  The
\* lock is only contended by finitely many calls, so weak fairness is enough.
Fairness ==
  /\ \A w \in Worker : WF_vars(Handle(w))
  /\ \A b \in Batch : WF_vars(Exporter(b))

Spec     == Init /\ [][Next]_vars
FairSpec == Spec /\ Fairness

-----------------------------------------------------------------------------
(* What the collector promises *)

\* Every variable stays in its domain.
TypeOK ==
  /\ projects \in Seq(Project)
  /\ traces \in [Trace -> Row \cup {NoRow}]
  /\ spans \subseteq Span
  /\ messages \in [Span -> Nat]
  /\ toolCalls \subseteq Span
  /\ llmCache \in [Hash -> Span \cup {NoSpan}]
  /\ breakpoints \in [Breakpoint -> BreakpointRow]
  /\ lock \in Worker \cup {Free}
  /\ job \in [Worker -> Job]
  /\ client \in [Batch -> {"queued", "sent", "received", "acked", "dropped"}]
  /\ attempts \in [Batch -> Nat]

\* The schema has no foreign keys; schema.py says the ingestion layer keeps the
\* relations instead by writing a trace before its spans.  Through failing
\* statements, crashes and repeated deliveries no row of a trace and no hit refers
\* to a missing one.  (The project of a breakpoint may: api.py:116 stores what the
\* request names.)
ReferentialIntegrity ==
  /\ \A s \in spans : traces[Info[s].trace] # NoRow
  /\ \A t \in Trace : traces[t] # NoRow => traces[t].project \in 1..Len(projects)
  /\ \A s \in Span : messages[s] > 0 => s \in spans
  /\ toolCalls \subseteq spans
  /\ \A h \in Hash : llmCache[h] \in spans \cup {NoSpan}
  /\ \A b \in Breakpoint : breakpoints[b].last \in spans \cup {NoSpan}

\* A handler between its first and its last statement is the one that holds the
\* lock, whatever failed or was killed before it: two handlers never interleave
\* their statements, and the lock is never left behind.
LockHeldByWriter ==
  \A w \in Worker : job[w].pc \in {"project", "insert", "writing"} <=> lock = w

\* projects.name has no UNIQUE constraint; select-then-insert under the lock
\* still gives every project name one row.
UniqueProjects ==
  \A i, j \in 1..Len(projects) : projects[i] = projects[j] => i = j

\* A span with everything that hangs on it.
Complete(s) ==
  /\ s \in spans
  /\ messages[s] >= Info[s].messages
  /\ Info[s].tool => s \in toolCalls
  /\ Info[s].pins # NoHash => llmCache[Info[s].pins] # NoSpan

\* Export answers OK only for a batch that is in the store down to its last
\* message, and no later failure, crash or overlapping retry takes any of it away.
AckedIsDurable ==
  \A b \in Batch : client[b] = "acked" => \A s \in SpansOf(b) : Complete(s)

\* A read of the API takes the lock.  Of a batch whose first delivery has neither
\* failed nor been given up it finds either nothing or everything.
ReadersSeeWholeBatches ==
  lock = Free =>
    \A b \in Batch : attempts[b] <= 1 /\ client[b] \in {"sent", "received", "acked"}
      => \/ \A s \in SpansOf(b) : s \notin spans
         \/ \A s \in SpansOf(b) : Complete(s)

\* A trace whose spans all rode in one acknowledged batch is listed with the
\* status, label, parent and totals of exactly the spans get_spans returns.
ListedTraceAgrees ==
  \A b \in Batch, t \in Trace :
    LET own == {s \in Span : Info[s].trace = t}
    IN  client[b] = "acked" /\ own # {} /\ own \subseteq SpansOf(b)
          => traces[t].from = {s \in spans : Info[s].trace = t}

\* As long as nothing was sent twice a breakpoint counts a matching span once,
\* and its last hit is a stored span that satisfies it.
HitsCountStoredSpans ==
  \A b \in Breakpoint :
    LET matching == {s \in spans : b \in Info[s].breaks}
    IN  /\ (\A c \in Batch : attempts[c] <= 1) => breakpoints[b].hits <= Cardinality(matching)
        /\ breakpoints[b].last \in matching \cup {NoSpan}

\* Rows of traces, spans, messages, tool calls and cache change only while a
\* handler that has the lock writes.
WritesUnderLock ==
  [][<<traces, spans, messages, toolCalls, llmCache>>' # <<traces, spans, messages, toolCalls, llmCache>>
       => lock \in Worker /\ Writing(lock)]_vars

\* Whoever waits for the lock gets to the end of its request (or dies with the
\* process): the lock is always given back.
EveryHandlerEnds == \A w \in Worker : job[w].pc = "waiting" ~> job[w].pc = "idle"

\* The replayable agent relies on it (`captured on the span; trace marked failed',
\* agent.py:121): when nothing is being written, a trace with a stored failed
\* span is listed as failed.
FailedSpanFailsTrace ==
  lock = Free => \A s \in spans : Info[s].error => Status(traces[Info[s].trace]) = "failed"

\* The abstract log of spans that TraceIngest implements.
Log == INSTANCE SpanLog WITH stored <- spans, promised <- {b \in Batch : client[b] = "acked"}
ImplementsSpanLog == Log!Spec
================================================================================
