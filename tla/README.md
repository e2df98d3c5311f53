# Stethoscope in TLA+

Stethoscope records what an LLM agent does (OpenTelemetry spans), stores it,
shows it in a debugger and replays it with changes. This directory holds TLA+
models of the parts whose correctness depends on order, failure or
concurrency, TLC configurations that check them on small instances, and
TLAPS proofs of the results that matter most. Paths are relative to `src/`.

Contents: [1 The system](#1-the-system) · [2 The modules](#2-the-modules) ·
[3 What the runs check](#3-what-the-runs-check) · [4 What is proved](#4-what-is-proved) ·
[5 Disagreements found](#5-disagreements-found) · [6 Not modelled](#6-not-modelled) ·
[7 Plan](#7-plan)

## 1. The system

| Part | State | Operations | What is hard | What makes it correct |
| --- | --- | --- | --- | --- |
| **SDK** (`packages/sdk-python`) | module globals `_config`, `_tracer`, `_redact`, `_PROVIDER`, OTel's global provider, span stacks, the processor's queue | configure, trace_run, node/llm/tool span, LangGraph wrapper, shutdown | a tracer that outlives its provider, spans that end late or on another thread, batches cut by a timer | one provider; nothing unredacted; nothing left behind by a shutdown; roots last |
| **Collector** (`tools/ref_ingest/server.py`, `mapper.py`; Rust `crates/ingestion`) | one lock | gRPC Export | four threads, deadlines and retries, a failure or kill between two statements | what is acknowledged is stored; the lock is given back |
| **Store** (`tools/ref_ingest/store.py`, `schema.py`; Rust `crates/store`) | tables projects, traces, spans, messages, tool_calls, breakpoints, llm_cache | one autocommitted statement per call | no foreign keys, no transaction, overwriting upserts | rows refer to rows; a trace row agrees with its spans |
| **HTTP API** (`tools/ref_ingest/api.py`) | the same lock | reads, /breakpoints, /branch | must not hold the lock while a replay calls back | a read sees whole batches |
| **Replay** (`tools/ref_replay`, `crates/replay`) | temporary manifest, child process | branch | the child exports to the server that waits for it, timeouts, shared cached responses | a replay is its source up to the edit; every request is answered |
| **Cloud API** (`cloud/api/app.py`, `tenancy.py`, `auth.py`, `store_pg.py`) | Postgres tables, a connection pool and a control lock per process | OTLP/HTTP ingest, reads, signup, login, branch, breakpoints | several processes on one database, check-then-act, a bounded pool | one account per address; tenants see their own rows; requests end |
| **Payload offload** (`cloud/api/store_s3.py`, `infra/s3.tf`) | objects in a bucket, references in rows | put and reference, dereference, archive, expire | a put and its row are two steps; a retry replaces the row; objects age | payloads are read as they were sent |
| **Tokens** (`cloud/api/auth.py`, `auth_cognito.py`) | the signing secret and the cached keys of each process | issue, check, fetch keys, share links | restarts, several processes, keys that change while they are cached, a lock held over a network call | good tokens pass, withdrawn keys fade |
| **Replay queue** (`cloud/api/worker.py`, `infra/sqs.tf`) | SQS queue and dead-letter queue | send, receive, process, delete | redelivery, dying workers or none, poison messages, messages that expire | a queued job is handled at least once while there is a worker |
| **Workbench** (`packages/ui/src/store.ts`) | Zustand store, calls under way | init, polling, selection, breakpoints, branch dialog, command line | every operation awaits and then writes state that may have moved on | panes and diff agree with the selection; hits are announced; dialogs close |
| **Trace diff** (`crates/diff`, `packages/ui/src/data/diff.ts`) | none | align, first divergence | ties and ends of lists | nothing lost, longest alignment |
| **Breakpoint conditions** (`crates/breakpoint`, `data/breakpoint.ts`, `tools/ref_ingest/bp.py`) | none | lex, parse, evaluate | three copies in three languages | the copies agree |
| **Navigation** (`data/nav.ts`, `data/tree.ts`) | the selected span | walk, next, prev, step, finish, continue, where, tree rows | parents that are missing or form cycles, collapsed rows, missing start times | the walk, the rows and the moves agree |
| **Command language** (`crates/command`, `data/command.ts`) | none | tokenize, look up a verb | – | – |
| **Desktop shell, CLI** (`apps/desktop`, `crates/cli`) | one store behind a mutex | thin calls into the crates | – | – |

How they interact. The SDK's exporter calls the collector's `Export`; the
collector and the HTTP API share one DuckDB connection under one lock; the
Workbench polls the HTTP API. A branch requested by the Workbench makes the API
read the source trace, start the agent as a child process with a manifest, and
that child exports its own spans to the collector. The cloud deployment
replaces the shared connection by Postgres and one pool per process, the
collector by OTLP over HTTP, and the child process by a job on SQS that a worker
takes.

## 2. The modules

| Module | Models | Abstract specification | MC module | Proofs |
| --- | --- | --- | --- | --- |
| `TraceIngest` | collector, store, breakpoint routes, exporter | `SpanLog` | `MCTraceIngest` | `TraceIngestProofs` |
| `CloudApi` | cloud API processes, pools, control locks, Postgres | `Accounts` | (`Cloud`) | `CloudProofs` |
| `ReplayQueue` | SQS queue, dead-letter queue, workers | – | (`Cloud`) | `CloudProofs` |
| `Cloud` | `CloudApi` and `ReplayQueue`, joined at the queue | – | `MCCloud` | `CloudProofs` |
| `Replay` | branch requests, replayed agent, its export | – | `MCReplay` | `ReplayProofs` |
| `Workbench` | UI store and its HTTP calls | – | `MCWorkbench` | `WorkbenchProofs` |
| `Sdk` | the Python SDK's life cycle | – | `MCSdk` | `SdkProofs` |
| `TraceDiff` | alignment of two traces | (reference definition in the module) | `MCParts` | `TraceViewProofs` |
| `DiffPane` | picking, opening and closing diffs in the UI | – | `MCParts` | `TraceViewProofs` |
| `Predicate` | lexer, parser and evaluation of breakpoint conditions in three dialects | (the grammar, in the module) | `MCParts` | `PredicateProofs` |
| `Navigation` | the walk over a trace, its moves, the rows of the tree | (the forest, in the module) | `MCParts` | `TraceViewProofs` |
| `PayloadStore` | large payloads between rows and bucket | – | `MCParts` | `CloudPartsProofs` |
| `Sessions` | session and share tokens, the cached keys of a Cognito pool | – | `MCParts` | `CloudPartsProofs` |

`MCParts` puts six modules side by side, of which one is at work in any behaviour: they
share no state, and one run asks of each whether it does its job. It extends all six;
`Nothing` has the constant some of them share, `None`.

Definitions whose comment begins with *Mutant* are not part of any
specification. Each is a plausible slip in the code it stands beside; with it in
place of the real definition, TLC finds one of the properties violated, which
shows that the property depends on that code.

### TraceIngest

State: the seven tables (`projects` … `breakpoints`), `lock` (the
`threading.Lock` of `server.py`), `job` (what each gRPC thread is doing),
`client` and `attempts` (the exporter's side of each batch).

| Action | Code |
| --- | --- |
| `Send`, `Receive`, `GiveUp` | the OTLP exporter: sends, retries after a deadline, drops |
| `Acquire`, `Reply`, `StatementFails` | `server.py` Export: `with lock`, the return, any exception |
| `LookupProject`, `InsertProject` | `store.py` ensure_project: the SELECT, the INSERT |
| `UpsertTrace`, `UpsertSpan`, `InsertMessage`, `InsertToolCall`, `UpsertLlmCache`, `RecordBreakpointHit` | `mapper.py` ingest_request, one statement of `store.py` each, in the code's order |
| `AddBreakpoint`, `DeleteBreakpoint` | `api.py` |
| `Crash` | the process is killed and started again |

Every statement is a step of its own because the store commits each one; that is
where a failure or a kill can leave a batch half-written. A span is an
identifier with the facts the code branches on (`SpanInfo`): failed or not,
number of messages, tool call, prompt hash, matching breakpoints. A trace row is
the set of spans its totals, label, parent and status were computed from,
because all of these are functions of that set. Reads hold the lock and change
nothing; they are the states with `lock = Free`.

### CloudApi, ReplayQueue, Cloud

A request is where it stands (`at`: the next query, or its answer), what it
holds (`has`: control lock, connection), and the process that serves it. Control
queries (`find`, `mint`, `enroll`, `apiKey`, `resolve`) take `control_lock`, then
a connection, run, and give both back (`TakeLock`, `GetConn`, `Release`); store
queries (`look`, `add`, `write`, `read`, `check`) keep one connection, as
`_PooledPgStore` does. `GiveUp` is `PoolTimeout`, `Fail` an exception on a sound
connection, `Crash` a process that dies with its requests. `Break` is a control query
whose connection broke: `cursor()` is outside the `try` of `PgAdapter.execute`, and
inside it `rollback()` comes before `putconn` (`tenancy.py:152`, `:158-161`), so either
way the connection is not put back. `Enroll` follows `create_user`, which drops
the object that would return its connection. `lost` says which request lost each
connection that is gone. A login goes on only with the right password (`Find`, `Found`).
The statements of one ingest after `ensure_project` are two steps, `Write` for the trace
row and `WriteSpans` for what is under it, so that a failure, a crash or another
request can come between them; `TraceIngest` has them one by one. A `send_message`
that raises may have queued its job all the same (`Fail`).

`ReplayQueue` has SQS's visibility timeout (`Reappear`), redrive after
`MaxReceive` receives, the retention period (`Expire`), `SIGTERM` (`Stop`, `Exit`),
`SIGKILL` and ECS's start of a task (`StartTask`). The service begins without tasks, as
`worker_desired_count` does. A message's `Body` is a job, none, or no object at all, on which
`process_message` raises and `main` goes on (outcome `raised`).
`Cloud` joins it to the API: the API's `jobs` are the queue's `sent`.

### Replay

The agent is the constant operator `Ask(_)`: its next call, given the answers so
far. `MakeCall` answers a call from the manifest or anew; `Finish` ends the run, `Raise`
ends it with an exception and `Die` without a word;
`SendBatch`, `LoseBatch` are the exporter, which sends spans in the order they
ended, the root last. `AskBranch`, `TakeLock`, `ReadTrace`, `Spawn`, `Reap`,
`TimeOut` are `engine.branch`: read under the lock, manifest by tool name and by
prompt hash with one entry edited, child process without the lock, 60 seconds, and `ok`
for an exit status of 0. A model's call without an answer in the cache is pinned to
what its prompt says itself (`Said`). Requests that are `Careless` may name a span of another
trace, which the engine does not notice, a span that is no tool call, or a mutation of
another type, which it refuses. Agents that name no entry point are left out: every root has one.

### Workbench

`calls` are the HTTP calls under way, each with what its continuation still
needs. Every operation of `store.ts` is cut at its `await`s: what it does before
the first one is one action (`SelectTrace`, `SelectSpan`, `OpenBranch`,
`ConfirmBranch`, `EditBreakpoint`, `Poll` …), and what it does with each answer
another (`SpansAnswered`, `BranchAnswered` …), with the failing answer as a
disjunct where the code has a `catch` or `finally`. The server is reduced to the
times at which it answers (`Serve`) and counts hits (`RecordHit`), of spans that a
breakpoint `Matches`; an edit it refuses is answered without a refresh (`Refused`).

### Sdk

State: the globals `redact`, `tracer`, `provider`; OpenTelemetry's `global` provider,
which the first call sets for good; the providers that are `down`; where each thread is
in `configure` or `shutdown` (`at`); the spans it has `open`; the processor's `queue` and
what was exported (`out`). `past` is history for the properties.

| Action | Code |
| --- | --- |
| `Configure`, `NewProvider`, `Install`, `FetchTracer` | `instrument.configure` and `_otel.init_tracer`: the redactor first, then the test of `_PROVIDER`, the assignment, `trace.get_tracer` |
| `TracerOrInit`, `SetDefaults` | `_tracer_or_init`, when a span comes first |
| `Start`, `End` | entering and leaving `trace_run`, `node_span`, `llm_span`, `tool_span` |
| `StartDeferred` | the LangGraph wrapper around `stream`, `ainvoke`, `astream`, which leaves `trace_run` with something that has not run |
| `Shutdown`, `Drain`, `Clear` | `_otel.shutdown` |
| `Flush` | the processor's own thread |

No lock protects the globals, so every read and write of them by a thread is a step.

### TraceDiff, DiffPane

`TraceDiff` is the loop of `align_spans`, one pair a step, over every pair of traces up to
`MaxLen`; the table of longest common subsequences is the recursive function `dp`.
`DiffPane` is what the store does around it: `PickForDiff`, `OpenDiff`, whose two calls
are answered one by one (`SpansArrive`, `SpansFail`), `CloseDiff`, `SetDiffSel`. It
knows of an alignment how many pairs it may have.

### Predicate

A condition is a sequence of lexemes; the machine's steps append one (`Type`). `Parse` is
the recursive descent of `crates/breakpoint`, of which `bp.py` and `breakpoint.ts` are
mirrors; `LexFails`, `Cmp`, `Same` take the dialect as a parameter where the three differ.
`Or`, `And`, `Not` and `Primary` are the functions of those names, given what the calls in
them return; `Calls` ties the knot, a recursive function of how deep calls go, which is no
deeper than there are tokens, since each call within a call is of a later place. `Turns` is
their `while` loop, one turn at a time. An expression is the sequence of its nodes, operands
before their operator, which `Values` evaluates one after the other; as every operator has a
fixed number of operands, that is the tree of the code. `Derived` is the grammar of
`lib.rs:4-11`, by the depth of the derivation: the reference the parser is held against.
Characters are abstracted to lexemes, fields to one that holds null, a number or a string.
One definition stands for the three parsers, which were compared line by line; a difference
between them past the lexer would have to be modelled to be found.

### Navigation

Over any assignment of parents, missing and cyclic ones too. `Visit` and `Return` are the
two steps of `walk` inside `preorder`: `frames` has, innermost first, the siblings each of its
calls has ahead, and commands are given once it is over (`Walked`). `AddRow` is the same
step of `buildSpanRows`, with any spans collapsed, and `TreeRows` all of them. `Move` is
`step` for the four directions and `ContinueTo` the search of `continue`; `above` is the climb
of `pathTo`, which `where` prints, and `Climb` says where it ends. The commands are `Walks`
and `Continue`, a click is `Select`.

### PayloadStore

Every delivery goes through its `Steps`, the order of `ingest_request`: `Save` is
`_maybe_offload` of one field, `Upsert` the row it ends in. It can `Fail` before any of them; the other
delivery is the retry, or another request for the same rows. A reader gets rows at once
(`Get`) and their objects one by one (`Fetch`). `Archive` and `Expire` are the bucket's
lifecycle rule.

### Sessions

`LoadSecret` is `_load_jwt_secret` at the start of a process; `IssueJwt`, `IssueShareToken`
and the pool (`PoolIssues`) make tokens; `Present` checks one, except a session in Cognito's
mode, which waits for the lock (`GetJwk`) and asks for the keys if `Stale` (`FetchJwks`,
`FetchFails`). Around it `Tick`, `Restart`, `Publish`, `Withdraw`.

## 3. What the runs check

| Run | Instance | Shows |
| --- | --- | --- |
| `ingest_faults` | a trace split over two batches and a second trace; two threads; a retry; a failing statement; a kill; breakpoints added and deleted | referential integrity without foreign keys, durability of what was acknowledged, whole batches for readers, trace rows that agree with their spans, unique project names, hits counted once, no waiting for ever, refinement of `SpanLog` |
| `cloud_traffic` | two processes, two connections each, three requests of every kind, a failing query or broken connection, a crash, pool timeouts; up to two workers or none, one stop, kill or expired message, one foreign message | refinement of `Accounts`, owned rows, connections and locks accounted for or lost in one of the two ways the code loses them, every request answered, jobs handled at least once while there is a worker |
| `replay_agent` | one original run, two branches (a branch of a branch too), one of which may ask for what does not belong together, one lost batch, raising agent or model, dead process or timeout, an agent whose road depends on its answers | a replay follows its source, its source is over and all there but for batches given up, done means stored, no deadlock on the lock |
| `wb_live` | three user actions, two hits of two breakpoints (`MaxHits`), five of both together (`MaxEvents`, where a hit counts twice), one failing call, two calls under way, answers in any order, or in the order of the calls | panes agree with the selection once all is quiet and nothing overtook or failed; the busy dialog waits for something and closes; hits get the selection; the newest hit is announced; reconnection |
| `sdk_life` | two threads, two calls of `configure`, two of `shutdown`, two spans, from any thread in any order | one provider alive and nothing left behind by a shutdown, redaction as configured, roots last |
| `parts` | one of six parts at work, see the bounds | `BestAlignment`, `DivergesAtTheChange` (diff); `LastDiffShown` (pane); `ParsesTheGrammar`, `MirrorsHold` (conditions); `OneForest`, `MovesFollowTheWalk` (navigation); `PayloadsComeBack` (payloads); `GoodTokensPass`, `WithdrawnKeysFade` (sessions) |
| `ingest_failed_trace`, `wb_new_hits`, `wb_own_trace`, `cloud_pool`, `cloud_malformed`, `replay_tools` | – | one counterexample each, see section 5 |

### Bounds, and why they are enough

- *TraceIngest*: two threads and one retry (`MaxAttempts = 2`) give every overlap
  of a handler with another handler and with the retry of its own batch; the
  lock makes a third thread only wait. The split trace has a failed tool call
  and an LLM call before its root, which is how the SDK's timer cuts long runs.
- *CloudApi*: rivals for one address on two processes with two connections each
  reach both the check-then-act window and an empty pool; `MCTraffic` names the
  four mixes of requests that can interfere.
- *ReplayQueue*: `MaxReceive = 2` is the smallest number with a redelivery before
  the dead-letter queue (`sqs.tf` has 5). `MaxStops` bounds ends of workers and expired
  messages together; before the first job is sent nothing of that changes anything.
- *Replay*: the agent has two tools and at most three calls; an edit changes
  the road, so the part after the edit differs from the source. Bound
  `EarlyBatch`: at most one batch leaves before the last. An edit is a value that
  differs from the recorded one. Of two requests one is `Careless`.
- *Workbench*: two calls under way are enough for one to overtake the other; two hits of
  two breakpoints are enough for an answer with the older one to come after an answer with
  the newer, and for a deletion to uncover the older (`wb_new_hits`). Each breakpoint
  matches spans of one trace, so that a hit of the other changes the trace; one of them is
  there from the start, the other may be added.
- *Sdk*: two threads and two calls of either kind give every overlap of two calls, and a
  `configure` after a `shutdown`; a run with a child needs two spans.
- *TraceDiff*: three spans with two keys and two contents contain every tie of the table and
  every way one list can end before the other.
- *DiffPane*: two diffs under way, three traces, one with a span and two without, one failure; a
  typed `diff a a` too. Only answers in the order of their calls, the premise of `LastDiffShown`.
- *Predicate*: every sequence of up to four lexemes that some dialect may still accept, and
  of up to eleven from a field, `==`, a number, `and`, `or`, and up to five (`MaxNested`) of
  `not` and `(`, with any `)`: four is enough for an
  error at every place of a comparison, eleven for three comparisons with two operators, or two
  with an operator, a `not` and a pair of parentheses.
- *Navigation*: all assignments of parents of up to four spans, roots, orphans and cycles
  included, with at most one span without a start time; any set of hits and of collapsed rows.
- *PayloadStore*: two deliveries, of one span (a retry) or two; every mix of small, large, absent
  payloads of a tool call; one object that ages.
- *Sessions*: two threads in one process, which restarts once: to another process a token is
  brought to, it is as if restarted. Two keys, one token, four units of time, of which the
  cache keeps keys one and a session lives three.

Deadlock is checked wherever the model can go on for ever. In the ingest,
cloud and SDK runs exporters, agents, users and faults are finite and the system stops when they
are used up, so those runs turn it off; there `EveryHandlerEnds` and
`EveryRequestAnswered` say that nobody waits for ever.

### Fairness, and why the code justifies it

Weak fairness only, on the threads and processes that run whenever they can:
handlers and exporter (`TraceIngest`), queries of a request (`CloudApi`: Postgres
answers, and a lock or connection that stays free is taken), the agent's process
and the handler (`Replay`), the loop of a worker that runs and the visibility timer
(`ReplayQueue`; that there is a worker is no fairness, since the service has none by
default: `QueuedIsHandled` has as its premise that again and again there is one or no job), the
polling timer and the oldest HTTP call (`Workbench`, where `fetch` settles sooner
or later). Nothing is assumed of users, failures, crashes, kills and timeouts, and no
fairness at all in `Sdk` and in the modules of `parts`, whose properties are invariants.
Locks are contended by finitely many calls in each run, so strong fairness on
them is not needed.

## 4. What is proved

With TLAPS, for every value of the constants that satisfies the assumptions below. Each
theorem about a property says it of the specification (`Spec => []P`): for any number of
threads, processes, requests, spans and calls, where the runs have two or three.

### From which assumptions

Named `ASSUME`s, which TLC evaluates in each run, and three hypotheses of theorems:

| Assumption | Says | Why the code justifies it |
| --- | --- | --- |
| `InfoAssumption`, `RequestAssumption`, `ScalarAssumption` | constants have their sets; a group holds spans of its trace | `by_trace` of `mapper.py:239` |
| `ByTraceAssumption` | one group for a trace in a request, none empty | `by_trace` is a dict that is filled span by span |
| `SentOnceAssumption` | a span is in one place of one batch | the SDK hands an ended span to its exporter once; what is repeated is a whole batch |
| `CloudAssumption`, `QueueAssumption` | constants have their sets; a pool has a connection; a message is received once at least | `store_pg.py`, `sqs.tf` |
| `ReplayAssumption`, `SdkAssumption`, `WorkbenchAssumption`, `DiffAssumption`, `NavigationAssumption` | constants have their sets, `None` and the like are no values | – |
| `PredicateAssumption` | values are typed, and fields of a span are null, numbers and strings, never bools | the spans' contexts: `mapper.py:202-215`, `store.ts:255` |
| `Constants` (`CloudPartsProofs`) | the pool has a key, and its keys are not the server's secrets | RSA keys of Cognito, an HMAC secret of ours (`auth.py:35`, `auth_cognito.py:73`) |
| `Named` (`CloudPartsProofs`) | no object is called `None` | keys of objects are paths (`store_s3.py:56`) |

### Along which argument

None of the invariants is inductive as the runs check it. What was added, module by module:

*TraceIngestProofs.* `TypeCorrect`, `RowsStayLinked`, `OneWriterAtATime` from `IInv ==
TypeOK /\ Placement /\ LockHeldByWriter /\ ReferentialIntegrity`: that a span's trace
exists depends on where its handler stands, so `Placement` says for every handler what it
has already written, and `Grows` that no step of another handler takes that away.
`AckedStaysStored` needs `DInv`: all spans a handler has gone past are complete, so that its
`Reply` finds the whole batch; `Kept` is the fact that no statement removes anything.
`ProjectsStayUnique` needs `NotThereYet`: a handler about to insert a project has the
lock, and the project is still missing. For the refinement `CollectorIsALog`, `Heard` says
that a caller who still waits has had no reply and waits for one handler only; then a
`Reply` that is heard is the log's `Promise`, `UpsertSpan` its `Record`, and no failure,
kill or repeated delivery changes the log.
`ReadersFindWholeBatches` needs, for each batch sent once, that one handler at most has it
and that exactly the spans this handler still has ahead are missing (`Once` in `OInv`).
`ListedTracesAgree` needs that a row of `traces` was always computed from a whole group of
some request (`FromAGroup`); when one batch has all spans of a trace, `OneGroupHasAll`
leaves one group it can be. `HitsCountSpans` counts: hits recorded and hits a handler is
about to record are together no more than the stored spans that satisfy the condition
(`CInv`), which `UpsertSpan` and `RecordBreakpointHit` keep in step.

*CloudProofs.* All theorems are about `CloudApi` alone and joined to its queue
(`StepsOfTheApi`: a step of `Cloud` is one of `CloudApi`, or leaves it alone).
`OneAccountPerAddress` and `SignupIsOneStep` (`ImplementsAccounts`) from `AInv`: each address
has one row, a signup which got as far as its token has that row (`Registered`), which
endpoint each query belongs to (`RightKind`, so that no other request's answer is taken
for a signup's), and locks and connections are held for queries (`Busy`, so that an
answered request does not fail any more). `RegistersOrConfirms` is the refinement step:
`Enroll` is `Register`, `IssueToken` is `Confirm`, every other step is `Quiet`.
`NothingLeaksElsewhere` (`ResourcesAccounted`) and `OneLockHolder` from `PInv`: connections that are
free, lost or lent add up to the pool (`Counted`, with the cardinality of the set of
requests they are lent to), a lock is held by the request it is noted for (`Locked`), and
a control query has its connection under the lock (`UnderLock`). The theorem does not say that
nothing leaks, which is false, but where: every lost connection belongs to a signup that
registered or to a control query whose connection broke, one to each (`NextExcused`,
`ExcusesStand`: what excuses a loss stays true). `TenantsKeepTheirRows` (`RowsOwned`)
from `RInv`: from the lookup of a key on, a request has a tenant, and a request about to
write has a project of that tenant (`Keyed`); one about to write spans has its trace row
(`WriteSpansLinks`), also when it never comes to that. `HandledBeforeDeleted` (`DeletedWasHandled`)
from `QInv`: a worker that goes on to delete a message has handled it (`Carried`).

*ReplayProofs.* `TypeCorrect`, `SourceWhole`, `DoneIsStored` and `RoadFollowed`,
for every agent `Ask(_)`. The invariant `RInv` has five parts besides the types:
what an agent has called follows from the answers it got (`Roads`), what the
server has of a run is what was sent, and a root comes only when the run is over
(`Exported`), a request's process lives while its handler waits (`Life`), a
request is for a stored tool call (`Asked`), and a manifest says of tools what the
server still has of the source (`Manifested`). The last is stable because a trace
with a root does not change (`Frozen`). `SourceWhole` needs both: a root is stored when the
run has no more to send, and what a run that lost no batch has sent is stored.
`RoadFollowed` is an induction over steps:
with equal answers so far the replay asks what its source asked
(`NextOnTheRoad`), and the manifest answers that as the source was answered, or
with the edit (`PinnedAsExpected`). Its premise `Reliable` names what the manifest
needs; that it is needed is shown by `replay_tools`.

*SdkProofs.* `OneProviderAtATime` from `PInv`: without an overlap one thread at most is in
`configure` and one in `shutdown` (`Alone`); the provider that is alive, if any, is
`_PROVIDER` or the one a thread is about to install, and `_PROVIDER` stays while it is
being shut down (`Owned`); spans wait in the queue of a provider that is shut down
only until they are drained (`Drained`). `TypeCorrect`, `SettingsAreKept`
(`RedactsAsConfigured`) and `RootsComeLast` (`RootIsLast`) add `GInv` – unless a span came
early no thread goes through the lazy defaults, and the redactor is one that was asked for
from the first `configure` on (`Asked`) – and `SInv`: the spans of a thread's stack are
open and on no other (`OpenOnce`, `StillOpen`), the root of a span that is open is open
below it (`UnderItsRoot`), and what was exported and what waits is in order (`Ordered`), so
that nothing of a run can end after its root.

*WorkbenchProofs.* `StoreTypeCorrect` (`TypeOK`) from `BInv`: every call is in order, a call
that closes the dialog is of the chain of `confirmBranch`, and a busy dialog has one
(`Closed`); that the newest hit exists is a fact about maxima (`NewestIsAHit`).
`PanesComeToRest` (`PanesAgree`) from `Right`: the *last* call under way for a pane
is about what is selected, and when none is under way the pane shows it. `AimsAppend`
and `AimsRest` say what a call that is made or comes back does to that; the rest of the
store's actions are shown to be about something else (`Apart`).

*CloudPartsProofs.* `PayloadsReturn` (`PayloadsComeBack`) from `PInv`: whatever a row, a request
between `put` and row, or a reader holds for a payload is the payload, or the name of an
object that has it or had it before it grew old (`StandsFor`). Every
`put` makes an object of its own, so a retry replaces the row but never an object.

`TokensAreGood` (`GoodTokensPass`) and `KeysFade` (`WithdrawnKeysFade`) from
`AInv`: who signed a token (`Signed`), that a key in a process's cache was still published
when the process asked for it (`Cached`), and for each answer of a request why it was given
(`Explained`), which the passing of time, new keys and restarts leave true.

*TraceViewProofs.* `WalkTypeCorrect`, and `DivergenceIsTheChange` (`DivergesAtTheChange`) from
`WInv`: the walk is in step with both traces, or its first pair that is not equal
is at the first place where they differ. Until that pair the table is never consulted, so
nothing need be known about what its recursion computes.

For `AlignmentIsBest` (`BestAlignment`) it must be known, and it is an induction over the
rests of the two traces. The theorems of the library that say so take an operator; what is
used instead is that a nonempty set of numbers has a least one (`LeastNumber`), applied to the
set of counterexamples. That gives, in this order: a table that satisfies the recursion
exists, since a filled part of it can be filled further (`TableExists`), so `dp` is one and
holds numbers (`TableFilled`); no two rests have a common subsequence longer than their
entry (`NoneIsLonger`, by cases on whether it uses the first spans of both). The walk then
keeps `BInv`: the pairs so far with the same key and the entry at the place it stands
add up to the entry at the beginning, so that at the end they are as many as any
alignment has. That nothing is lost, doubled or moved is counted on both sides (`Left`,
`Right`, `OneMoreCounted`).

`LastDiffIsShown` (`LastDiffShown`), of the pane, has the shape of `PanesComeToRest`: the last
diff on its way is the one asked for last, and when none is on its way it is shown
(`LastAsked`).

Navigation needs to know how the loops of the walk nest. `NInv` says that loops under way are
over the children of spans already visited, inner ones of later spans, and that nothing since
is outside them (`Loops`, `Nested`); that no span is visited twice or both visited and ahead
(`Once`: a child of a span not yet visited cannot have been reached); that every root and every
child of a visited span is visited or ahead (`Reached`); and that a first child is next
(`ChildFollows`), siblings in order (`InOrder`). What the recursion of `pathTo` computes is
`AboveIs`, again by `LeastNumber`; `EndsAfter` says where the climb ends: after as many steps
as a visited span has visited ones above it (`WayUpEnds`), and for any other span where one
comes round again (`EveryClimbStops`, by the pigeonhole principle). From that, `MovesAlongTheWalk`
(`MovesFollowTheWalk`), where `PathGrows` compares two ways up, and `ForestIsWalked`: spans
visited are those whose way up ends in a root (`VisitedAreRooted`, `RootedAreVisited`), and
those below one are next to each other (`DescendantsFollow`, `BelowIsBlock`).

`ViewsAgree` (`OneForest`) adds the rows of the tree, a recursion over the steps of
`buildSpanRows` and so once more an induction by least number (`BuildingIs`,
`RowsStayRight`). `RowsInv` is `NInv` over again for loops over spans that are not collapsed,
with two more parts: depths are
counted by the loops that are open (`RowsDeep`), and each row costs two steps, so that the
steps are enough (`RowsCount`, `NothingAhead`). That rows come in the order of the walk
when all have a start time (`RowsSorted`) rests on the walk: what comes after a span and is not
below it comes after its children (`ChildIsBefore`).

*PredicateProofs.* `ParsersAcceptTheGrammar` (`ParsesTheGrammar`) is about every sequence of
lexemes, so it is once more induction by least number, over how deep calls and derivations go
and how many turns a loop has taken; that the recursive functions are what they say is
`TurnIs`, `CallIs`, `DeriveIs`, `ValueIs`. Two halves. What a call returns is derived from the
tokens it has eaten (`Good`, kept by each function: `GoodNot`, `GoodTurn`, `GoodCalled`). And what is derived
is returned (`Returns`), but only where it matters that nothing follows which would go on with it:
an `or` must not be followed by `and` or `or`, an `and` not by `and` (`Follow`). The loops are the
heart of that: the turn in which a loop has come to an expression (`TurnComes`, by the
length of the expression, which also shows that there are turns enough), and that it then
stays (`TurnStays`). Both halves together say that no source has two derivations.
Sources with a lone `=` or `!` are derived from nothing (`DerivedOps`, `LoneIsUnderivable`).
`MirrorsAgree` (`MirrorsHold`): a source that a mirror accepts it lexes as Rust does, unless a
word is a number to one of them only (`LexAgrees`); the expression is made of its tokens
(`DerivedNodes`, from the first theorem), and on such values the three comparisons, each
written after its own language, come to the same (`CmpAgrees`, `HoldsAgrees`).

### Only model-checked

Every invariant and action property of the runs is stated by a theorem. Out of the prover's
reach is liveness: `EveryHandlerEnds`, `EveryRequestAnswered`, `QueuedIsHandled`,
`BranchIsAnswered`, `ReplayEnds`, `HitIsFocused`, `NewestHitIsAnnounced`, `Reconnects`.

## 5. Disagreements found

Each with a run whose counterexample shows it; the quoted lines are in `PROJECT.json`.

| Run | Where | What |
| --- | --- | --- |
| `ingest_failed_trace` | `tools/ref_ingest/mapper.py:280` | a trace row is rewritten from one batch alone, so a failed trace is listed as completed when its root comes in a later batch |
| `cloud_pool` | `cloud/api/auth.py:89` | every successful signup loses one connection of its process's pool |
| `cloud_malformed` | `cloud/api/worker.py:114` | a malformed message is not deleted but received again until it is redriven |
| `replay_tools` | `tools/ref_replay/engine.py:62` | one answer per tool *name*: a tool called twice is replayed with the later, or the edited, answer both times |
| `wb_new_hits` | `packages/ui/src/store.ts:153` | deleting the breakpoint hit last announces an older hit as new |
| `wb_own_trace` | `packages/ui/src/store.ts:430` | a replay is asked for with the trace selected when the dialog is confirmed, which need not be the span's |

Noticed on the way, where no line of the code or its docs is plainly contradicted, or
where the properties name the case as their exception:

- *Cloud.* A control query whose connection broke keeps it: `cursor()` is outside the `try`
  (`tenancy.py:152`), `rollback()` before `putconn` (`tenancy.py:158-161`). The service has no
  worker unless one is asked for (`variables.tf:64-68`), and a job that waits for more
  than a day is dropped without notice (`sqs.tf:18`), after the API said `queued`. A body that
  is JSON but no object makes `process_message` raise (`worker.py:111-113`); it comes back
  until it is redriven. `verify_jwt` does not ask for the kind of a token (`auth.py:122`), so
  for a share token `me` ends in a 500, not a 401. `/health/deep` documents a 503 that it never returns (`cloud/api/app.py:144`, `:159`);
  `worker.py`'s header says the API answers 501 for branches, `app.py` answers `queued`. A
  signup that fails between its queries leaves a tenant without a user. Two processes
  can make two projects of one name for a tenant (`store_pg.py:46`).
- *Collector.* A repeated delivery repeats message rows and hit counts. A breakpoint's
  `project_id` is stored as it comes (`api.py:116`) and may name no project;
  `ReferentialIntegrity` leaves it out.
- *Replay.* The manifest file stays when writing it fails (`engine.py:98`). The span of a branch
  may be of another trace than the one named, which nothing checks (`engine.py:66-71`). A model's
  call that has no answer in the cache is pinned to the last assistant message of its own
  prompt (`engine.py:53-58`), where `docs/replay.md:22` has a real call be made.
- *Payloads.* The threshold counts characters where its setting is in bytes. A response that
  begins with `s3://` is taken for a reference (`store_s3.py:68`). Objects are archived
  after 90 days and deleted after a year while their rows stay, and reading such a row
  fails (`infra/s3.tf:39`); `PayloadsComeBack` names both.
- *Workbench.* Panes may disagree when answers overtake each other. A diff that is
  closed comes back when another one was on its way (`store.ts:459`).
- *SDK.* After a `shutdown`, `configure` gets a tracer of the provider that is gone, and later
  spans are lost (`_otel.py:67-75`). Two threads that open their first spans
  at once make two providers. Redaction covers messages, completions and tool
  payloads, not the attributes of runs and nodes or the text of exceptions
  (`instrument.py:52-55`). `_langgraph.py:27-42` ends the root of a streamed or awaited run
  before it begins, so that its nodes are roots.
- *Conditions.* A lone `=` or `!` is no operator of the documented grammar (`lib.rs:10`);
  Rust and TypeScript take it for one (`lib.rs:71-79`, `breakpoint.ts:41-48`) that never
  matches, Python refuses it: `ParsesTheGrammar` says so. `inf` and `0x10` are numbers to
  some dialects only; Python finds `true` equal to 1: the exceptions of `MirrorsHold`. The
  UI takes `tool_name` from the name of a span (`store.ts:266`), the collector from its
  attributes (`mapper.py:295-302`), so `continue` may stop where no hit was counted.
- *Navigation.* Spans without a start time come first in the walk and last in the tree;
  spans whose parents form a cycle are in neither.
- *Desktop.* `diff_traces` orders spans by start time (`commands.rs:136`) where `align_spans`
  documents pre-order.

## 6. Not modelled

| Part | Why |
| --- | --- |
| Cloud API in DuckDB mode | one process under the lock of `TraceIngest`, with its statements |
| Breakpoint edits and `/tenants` of the cloud API | one statement each, with the connection handling of the requests that are modelled |
| Naming and wrapping of LangGraph nodes; span attributes | data without control; what redaction covers is in section 5 |
| Password hashing; claims of a verified Cognito token | pure functions of a library's results |
| Word diff of the inspector; characters of a lexeme | pure functions; the word diff is a library's in Rust |
| Scrollback, history, print, export, heat map, splash of the Workbench | written and shown, read by nothing that decides |
| Rust `crates/store`, `crates/ingestion` | the operations of the Python reference, behind one mutex |
| `crates/replay` | a stub |
| A statement that commits and whose answer is lost; the retention of the dead-letter queue | a failing query is one that did not run; what follows a committed statement without an answer is covered by `Crash`. Nothing reads the dead-letter queue |
| Command language | a tokenizer and a table of verbs without state |
| Desktop shell, CLI, UI panes, infrastructure | calls, layout and configuration without logic of their own |

## 7. Plan

1. *Core* (done): `TraceIngest`, `SpanLog`, `Workbench`, `CloudApi`, `Accounts`,
   `ReplayQueue`, `Cloud`, `Replay`, `TraceDiff` and their theorems.
2. *Breadth* (done): `Sdk`, `Predicate`, `Navigation`, `PayloadStore`, `DiffPane`,
   `Sessions`; `OneProviderAtATime`.
3. *Proofs* (done): every invariant, action property and refinement that the runs check, among
   them the longest common subsequence of `TraceDiff`, the walks of `Navigation` and the
   parser of `Predicate` (section 4).
4. *Next*: breakpoint edits and `/tenants` of the cloud API (section 6).
