---------------------------------- MODULE Sdk ----------------------------------
(***************************************************************************)
(* The life cycle of the Python SDK (packages/sdk-python): the module      *)
(* globals that `configure', the first span and `shutdown' read and write, *)
(* from any thread, and the way of a span from its start to the exporter.  *)
(*                                                                         *)
(* OpenTelemetry is external: the first provider installed stays the       *)
(* process's provider for good, its processor takes ended spans until it   *)
(* is shut down, and a thread of it empties the queue every few seconds,   *)
(* at a shutdown and at exit.  The queue's limit (2048) is not reached.    *)
(***************************************************************************)
EXTENDS Naturals, SequencesExt

CONSTANTS
  Thread,
  Config,         \* the settings the agent calls `configure' with
  Default,        \* StethoscopeConfig(): no patterns to redact
  MaxConfigures, MaxShutdowns, MaxSpans,  \* bounds: calls of the agent
  None

ASSUME SdkAssumption ==
  /\ Default \notin Config /\ None \notin Nat
  /\ {MaxConfigures, MaxShutdowns, MaxSpans} \subseteq Nat

VARIABLES
  redact, tracer, provider,  \* the globals _redact, _tracer, _PROVIDER
  global,                    \* the provider OpenTelemetry has; providers are numbers
  made, down,                \* providers made so far, those that are shut down
  at,                        \* where each thread is, see At
  open, span,                \* open spans of each thread, outermost first; all spans
  queue, out,                \* ended spans that wait, that were exported, in order
  used,                      \* how much of the bounds is used
  past                       \* history: what `configure' was called with; has a call
                             \* returned; did a span come earlier; have two threads been
                             \* in `configure', or two in `shutdown', at once
globals   == <<redact, tracer, provider, global, made>>
exporting == <<down, queue, out>>
vars == <<globals, exporting, at, open, span, used, past>>

\* lazily, check, install, fetch: in configure; start: about to start a span;
\* drain, clear: in shutdown.  mine: the provider made, or being shut down.
At == [op : {"agent", "lazily", "check", "install", "fetch", "start", "drain", "clear"},
       lazy : BOOLEAN, mine : Nat \cup {None}]

\* deferred: its `with' block was left when it had just begun, see StartDeferred.
Spans == [run : Nat, redact : Config \cup {Default}, deferred : BOOLEAN]

Thus(op, lazy, mine) == [op |-> op, lazy |-> lazy, mine |-> mine]
Agent == Thus("agent", FALSE, None)

Init ==
  /\ redact = Default /\ tracer = None /\ provider = None
  /\ global = None /\ made = 0 /\ down = {}
  /\ at = [t \in Thread |-> Agent]
  /\ open = [t \in Thread |-> <<>>] /\ span = <<>>
  /\ queue = <<>> /\ out = <<>>
  /\ used = [configures |-> 0, shutdowns |-> 0]
  /\ past = [asked |-> {}, returned |-> FALSE, early |-> FALSE, overlap |-> FALSE]

Goto(t, op)    == at' = [at EXCEPT ![t].op = op]
Configuring    == {t \in Thread : at[t].op \in {"lazily", "check", "install", "fetch"}}
Stopping       == {t \in Thread : at[t].op \in {"drain", "clear"}}
Overlapping(S) == past.overlap \/ S # {}

-----------------------------------------------------------------------------
(* configure and init_tracer *)

\* The redactor is set before anything is looked at.
Configure(t, c) ==
  /\ at[t].op = "agent" /\ used.configures < MaxConfigures
  /\ used' = [used EXCEPT !.configures = @ + 1]
  /\ redact' = c
  /\ Goto(t, "check")
  /\ past' = [past EXCEPT !.asked = @ \cup {c}, !.overlap = Overlapping(Configuring)]
  /\ UNCHANGED <<tracer, provider, global, made, exporting, open, span>>

\* The first span configures the SDK if nobody has.
TracerOrInit(t) ==
  /\ at[t].op = "agent" /\ tracer = None /\ Len(span) < MaxSpans
  /\ at' = [at EXCEPT ![t] = Thus("lazily", TRUE, None)]
  /\ past' = [past EXCEPT !.early = @ \/ ~past.returned, !.overlap = Overlapping(Configuring)]
  /\ UNCHANGED <<globals, exporting, open, span, used>>

SetDefaults(t) ==
  /\ at[t].op = "lazily"
  /\ redact' = Default
  /\ Goto(t, "check")
  /\ UNCHANGED <<tracer, provider, global, made, exporting, open, span, used, past>>

\* Mutant: a provider for every call.
NewProviderAlways(t) ==
  /\ at[t].op = "check"
  /\ made' = made + 1 /\ at' = [at EXCEPT ![t] = Thus("install", at[t].lazy, made + 1)]
  /\ UNCHANGED <<redact, tracer, provider, global, exporting, open, span, used, past>>

NewProvider(t) ==
  /\ at[t].op = "check"
  /\ IF provider = None
       THEN made' = made + 1 /\ at' = [at EXCEPT ![t] = Thus("install", at[t].lazy, made + 1)]
       ELSE Goto(t, "fetch") /\ UNCHANGED made
  /\ UNCHANGED <<redact, tracer, provider, global, exporting, open, span, used, past>>

\* set_tracer_provider, of which only the first call has an effect, and the global.
Install(t) ==
  /\ at[t].op = "install"
  /\ global' = IF global = None THEN at[t].mine ELSE global
  /\ provider' = at[t].mine
  /\ Goto(t, "fetch")
  /\ UNCHANGED <<redact, tracer, made, exporting, open, span, used, past>>

\* Mutant: the tracer of the provider last made.
FetchTracerOfOwn(t) ==
  /\ at[t].op = "fetch"
  /\ tracer' = provider
  /\ at' = [at EXCEPT ![t] = Thus(IF at[t].lazy THEN "start" ELSE "agent", FALSE, None)]
  /\ past' = [past EXCEPT !.returned = @ \/ ~at[t].lazy]
  /\ UNCHANGED <<redact, provider, global, made, exporting, open, span, used>>

FetchTracer(t) ==
  /\ at[t].op = "fetch"
  /\ tracer' = global
  /\ at' = [at EXCEPT ![t] = Thus(IF at[t].lazy THEN "start" ELSE "agent", FALSE, None)]
  /\ past' = [past EXCEPT !.returned = @ \/ ~at[t].lazy]
  /\ UNCHANGED <<redact, provider, global, made, exporting, open, span, used>>

-----------------------------------------------------------------------------
(* Spans *)

NewSpan(run, deferred) == [run |-> run, redact |-> redact, deferred |-> deferred]

Here == Len(span) + 1

MayStart(t) == /\ Len(span) < MaxSpans
               /\ at[t].op = "start" \/ (at[t].op = "agent" /\ tracer # None)

\* With no span open it begins a run, or is a node of a run whose root is over.
Start(t) ==
  /\ MayStart(t)
  /\ \E run \in IF open[t] # <<>> THEN {span[Last(open[t])].run}
                 ELSE {Here} \cup {r \in DOMAIN span : span[r].deferred} :
       span' = Append(span, NewSpan(run, FALSE))
  /\ open' = [open EXCEPT ![t] = Append(@, Here)]
  /\ at' = [at EXCEPT ![t] = Agent]
  /\ UNCHANGED <<globals, exporting, used, past>>

Ends(s) == queue' = IF global \in down THEN queue ELSE Append(queue, s)

\* The wrapper of `stream', `ainvoke' and `astream' leaves trace_run with a generator
\* or a coroutine that has not begun.
StartDeferred(t) ==
  /\ MayStart(t) /\ open[t] = <<>>
  /\ span' = Append(span, NewSpan(Here, TRUE))
  /\ Ends(Here)
  /\ at' = [at EXCEPT ![t] = Agent]
  /\ UNCHANGED <<globals, down, out, open, used, past>>

\* Mutant of End: the outermost span goes first.
EndOutermost(t) ==
  /\ at[t].op = "agent" /\ open[t] # <<>>
  /\ Ends(Head(open[t]))
  /\ open' = [open EXCEPT ![t] = Tail(@)]
  /\ UNCHANGED <<globals, down, out, at, span, used, past>>

\* The innermost `with' block is left, by an exception perhaps.
End(t) ==
  /\ at[t].op = "agent" /\ open[t] # <<>>
  /\ Ends(Last(open[t]))
  /\ open' = [open EXCEPT ![t] = Front(@)]
  /\ UNCHANGED <<globals, down, out, at, span, used, past>>

\* Everything that waits leaves, whether the endpoint takes it or not.
Export ==
  /\ queue' = <<>>
  /\ \/ out' = out \o queue
     \/ UNCHANGED out

Flush ==
  /\ queue # <<>> /\ Export
  /\ UNCHANGED <<globals, down, at, open, span, used, past>>

-----------------------------------------------------------------------------
(* shutdown *)

Shutdown(t) ==
  /\ at[t].op = "agent" /\ used.shutdowns < MaxShutdowns /\ provider # None
  /\ used' = [used EXCEPT !.shutdowns = @ + 1]
  /\ down' = down \cup {provider}
  /\ at' = [at EXCEPT ![t] = Thus("drain", FALSE, provider)]
  /\ past' = [past EXCEPT !.overlap = Overlapping(Stopping)]
  /\ UNCHANGED <<globals, queue, out, open, span>>

Drain(t) ==
  /\ at[t].op = "drain"
  /\ IF at[t].mine = global THEN Export ELSE UNCHANGED <<queue, out>>
  /\ Goto(t, "clear")
  /\ UNCHANGED <<globals, down, open, span, used, past>>

\* Mutant: the next span configures the SDK anew, with the defaults.
ClearTracer(t) ==
  /\ at[t].op = "clear"
  /\ provider' = None /\ tracer' = None
  /\ at' = [at EXCEPT ![t] = Agent]
  /\ UNCHANGED <<redact, global, made, exporting, open, span, used, past>>

Clear(t) ==
  /\ at[t].op = "clear"
  /\ provider' = None
  /\ at' = [at EXCEPT ![t] = Agent]
  /\ UNCHANGED <<redact, tracer, global, made, exporting, open, span, used, past>>

-----------------------------------------------------------------------------
InConfigure(t) == TracerOrInit(t) \/ SetDefaults(t) \/ NewProvider(t) \/ Install(t) \/ FetchTracer(t)
InShutdown(t)  == Drain(t) \/ Clear(t)

Next ==
  \/ Flush
  \/ \E t \in Thread :
       \/ \E c \in Config : Configure(t, c)
       \/ InConfigure(t) \/ Start(t) \/ StartDeferred(t) \/ End(t)
       \/ Shutdown(t) \/ InShutdown(t)

Spec == Init /\ [][Next]_vars

-----------------------------------------------------------------------------
(* Properties *)

\* Every variable stays in its domain, and a tracer has a provider.
TypeOK ==
  /\ redact \in Config \cup {Default} /\ {tracer, global} \subseteq 1..made \cup {None}
  /\ provider \in 1..made \cup {None} /\ down \subseteq 1..made
  /\ tracer # None => tracer = global
  /\ at \in [Thread -> At] /\ open \in [Thread -> Seq(DOMAIN span)]
  /\ span \in Seq(Spans) /\ {queue, out} \subseteq Seq(DOMAIN span)

\* `Idempotently install a TracerProvider' (_otel.py:28) and `flush and tear down the
\* exporter' (_otel.py:79): however often the SDK is configured and shut down, one provider
\* at most is alive, and when shutdown returns no span that has ended is left waiting --
\* unless two threads were in `configure' at once, for which two first spans are enough,
\* or in `shutdown'.
OneProvider == ~past.overlap =>
  /\ \A p, q \in 1..made : {p, q} \cap down = {} => p = q
  /\ \A t \in Thread : at[t].op = "clear" => queue = <<>>

\* `Data never leaves the agent process unredacted' (redaction.py:3): once a `configure'
\* has returned and no span came earlier, no shutdown, race or later configure brings the
\* defaults back: every span is redacted as one of the calls asked.  (What is redacted is
\* payloads; attributes of runs and nodes and messages of exceptions are not,
\* instrument.py:52-81.)
RedactsAsConfigured ==
  ~past.early => \A s \in DOMAIN span : span[s].redact \in past.asked

\* The root's name becomes the label of a trace that is complete (instrument.py:46): the
\* exporter gets a root after all other spans of its run, however batches are cut, unless
\* the wrapper let it end when the run had just begun.
RootIsLast ==
  \A p, q \in DOMAIN out : p < q /\ span[out[q]].run = out[p] => span[out[p]].deferred
================================================================================
