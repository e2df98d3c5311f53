------------------------------- MODULE SdkProofs -------------------------------
(* One provider at a time, settings that are kept and roots that come last, for   *)
(* any number of threads, settings and calls.                                     *)
EXTENDS Sdk, SequenceTheorems, TLAPS

\* What the steps below need of the types.
Shape ==
  /\ made \in Nat /\ down \subseteq 1..made
  /\ provider \in 1..made \cup {None} /\ global \in 1..made \cup {None}
  /\ at \in [Thread -> At]
  /\ \A t \in Thread : at[t].op = "install" => at[t].mine \in 1..made
  /\ past \in [asked : SUBSET Config, returned : BOOLEAN, early : BOOLEAN, overlap : BOOLEAN]

Alive == 1..made \ down

\* One thread at most is in `configure', and one in `shutdown'.
Alone ==
  /\ \A t, u \in Configuring : t = u
  /\ \A t, u \in Stopping : t = u

\* The provider that is alive, if there is one, is _PROVIDER or about to be; the one that
\* is being shut down is still _PROVIDER, so that nobody makes another meanwhile.
Owned ==
  /\ \A t \in Thread : at[t].op = "install" =>
       provider = None /\ at[t].mine \in Alive /\ Alive \subseteq {at[t].mine}
  /\ (\A t \in Thread : at[t].op # "install") => Alive \subseteq {provider}
  /\ \A t \in Stopping : at[t].mine = provider /\ provider \in down

\* Spans wait in the queue of a provider that is shut down only until they are drained.
Drained ==
  /\ provider # None => global # None
  /\ global \in down => queue = <<>> \/ \E t \in Thread : at[t].op = "drain" /\ at[t].mine = global

PInv == Shape /\ (~past.overlap => Alone /\ Owned /\ Drained)

-----------------------------------------------------------------------------
\* At the start there is no provider.
LEMMA InitPInv == Init => PInv
  BY SdkAssumption DEF Init, PInv, Shape, Alone, Owned, Drained, Alive, Agent, Thus, At, Configuring, Stopping

\* The invariant gives the property: the thread at `clear' is the only one in `shutdown',
\* all providers are down, and nobody is left who has yet to drain the first one.
LEMMA PInvImplies == PInv => OneProvider
<1> SUFFICES ASSUME PInv, ~past.overlap
             PROVE  /\ \A p, q \in 1..made : {p, q} \cap down = {} => p = q
                    /\ \A t \in Thread : at[t].op = "clear" => queue = <<>>
  BY DEF OneProvider
<1>1. \A p, q \in 1..made : {p, q} \cap down = {} => p = q
  BY DEF PInv, Owned, Alive
<1>2. ASSUME NEW t \in Thread, at[t].op = "clear" PROVE queue = <<>>
  <2>1. t \in Stopping /\ provider \in down
    BY <1>2 DEF PInv, Owned, Stopping
  <2>2. provider \in 1..made /\ provider # None
    BY <2>1, SdkAssumption DEF PInv, Shape
  <2>3. \A u \in Thread : at[u].op # "install"
    BY <2>2 DEF PInv, Owned
  <2>4. global \in down
    BY <2>1, <2>2, <2>3 DEF PInv, Shape, Owned, Drained, Alive
  <2>5. \A u \in Thread : at[u].op # "drain"
    BY <1>2, <2>1 DEF PInv, Alone, Stopping
  <2> QED BY <2>4, <2>5 DEF PInv, Drained
<1> QED BY <1>1, <1>2

-----------------------------------------------------------------------------
(* Steps *)

\* A thread that enters `configure' is alone there, or there was an overlap.
LEMMA EntersPInv ==
  ASSUME PInv, NEW t \in Thread, at[t].op = "agent",
         NEW r \in At, r.op \in {"lazily", "check"}, at' = [at EXCEPT ![t] = r],
         past' \in [asked : SUBSET Config, returned : BOOLEAN, early : BOOLEAN, overlap : BOOLEAN],
         past'.overlap = Overlapping(Configuring),
         UNCHANGED <<made, provider, global, down, queue>>
  PROVE  PInv'
<1>1. (\A u \in Thread \ {t} : at'[u] = at[u]) /\ at'[t] = r /\ at' \in [Thread -> At]
  BY DEF PInv, Shape
<1>2. Shape'
  BY <1>1 DEF PInv, Shape
<1>3. ASSUME ~past'.overlap PROVE Alone' /\ Owned' /\ Drained'
  <2>1. ~past.overlap /\ Configuring = {}
    BY <1>3 DEF Overlapping
  <2>2. Alone'
    BY <1>1, <2>1 DEF PInv, Alone, Configuring, Stopping
  <2>3. Owned'
    BY <1>1, <2>1 DEF PInv, Owned, Alive, Stopping
  <2>4. Drained'
    BY <1>1, <2>1 DEF PInv, Drained
  <2> QED BY <2>2, <2>3, <2>4
<1> QED BY <1>2, <1>3 DEF PInv

\* A thread that goes on, or leaves `configure', and takes nothing with it.
LEMMA GoesOnPInv ==
  ASSUME PInv, NEW t \in Thread, at[t].op \notin {"install", "drain", "clear"},
         NEW r \in At, at' = [at EXCEPT ![t] = r],
         r.op \notin {"install", "drain", "clear"},
         r.op \in {"agent", "start"} \/ t \in Configuring,
         past' \in [asked : SUBSET Config, returned : BOOLEAN, early : BOOLEAN, overlap : BOOLEAN],
         past'.overlap = past.overlap,
         UNCHANGED <<made, provider, global, down>>,
         queue' = queue \/ queue' = <<>> \/ global \notin down
  PROVE  PInv'
<1>1. (\A u \in Thread \ {t} : at'[u] = at[u]) /\ at'[t] = r /\ at' \in [Thread -> At]
  BY DEF PInv, Shape
<1>2. Shape'
  BY <1>1 DEF PInv, Shape
<1>3. ASSUME ~past.overlap PROVE Alone' /\ Owned' /\ Drained'
  <2>1. Alone'
    BY <1>1, <1>3 DEF PInv, Alone, Configuring, Stopping
  <2>2. Owned'
    BY <1>1, <1>3 DEF PInv, Owned, Alive, Stopping
  <2>3. Drained'
    BY <1>1, <1>3 DEF PInv, Drained
  <2> QED BY <2>1, <2>2, <2>3
<1> QED BY <1>2, <1>3 DEF PInv

\* The only thread in `configure' makes a provider only when none is alive.
LEMMA NewProviderPInv == ASSUME PInv, NEW t \in Thread, NewProvider(t) PROVE PInv'
<1>1. CASE provider # None
  <2> DEFINE r == [at[t] EXCEPT !.op = "fetch"]
  <2>1. r \in At /\ r.op = "fetch" /\ at' = [at EXCEPT ![t] = r]
    BY <1>1 DEF NewProvider, Goto, PInv, Shape, At
  <2>2. t \in Configuring /\ at[t].op = "check"
    BY DEF NewProvider, Configuring
  <2> HIDE DEF r
  <2> QED BY <1>1, <2>1, <2>2, GoesOnPInv DEF NewProvider, exporting, PInv, Shape
<1>2. CASE provider = None
  <2>1. /\ at[t].op = "check" /\ made' = made + 1
        /\ at' = [at EXCEPT ![t] = Thus("install", at[t].lazy, made + 1)]
        /\ UNCHANGED <<provider, global, down, queue, past>>
    BY <1>2 DEF NewProvider, exporting
  <2>2. /\ \A u \in Thread \ {t} : at'[u] = at[u]
        /\ at'[t].op = "install" /\ at'[t].mine = made + 1
        /\ at' \in [Thread -> At]
    BY <2>1 DEF PInv, Shape, At, Thus
  <2>3. Shape'
    BY <2>1, <2>2 DEF PInv, Shape
  <2>4. ASSUME ~past.overlap PROVE Alone' /\ Owned' /\ Drained'
    <3>1. \A u \in Thread : at[u].op # "install"
      BY <2>1, <2>4 DEF PInv, Alone, Configuring
    <3>2. Alive = {}
      BY <1>2, <2>4, <3>1, SdkAssumption DEF PInv, Shape, Owned, Alive
    <3>3. Alive' = {made + 1}
      BY <2>1, <3>2 DEF PInv, Shape, Alive
    <3>4. Stopping = {}
      BY <1>2, <2>4, SdkAssumption DEF PInv, Shape, Owned
    <3>5. Alone'
      BY <2>1, <2>2, <2>4 DEF PInv, Alone, Configuring, Stopping
    <3>6. Owned'
      <4>1. Stopping' = {}
        BY <2>2, <3>4 DEF Stopping
      <4> QED BY <1>2, <2>1, <2>2, <3>1, <3>3, <4>1 DEF Owned
    <3>7. Drained'
      BY <2>1, <2>2, <2>4 DEF PInv, Drained
    <3> QED BY <3>5, <3>6, <3>7
  <2> QED BY <2>1, <2>3, <2>4 DEF PInv
<1> QED BY <1>1, <1>2

\* What it made is then _PROVIDER, and the process's provider if it is the first.
LEMMA InstallPInv == ASSUME PInv, NEW t \in Thread, Install(t) PROVE PInv'
<1>1. /\ at[t].op = "install" /\ provider' = at[t].mine
      /\ global' = IF global = None THEN at[t].mine ELSE global
      /\ at' = [at EXCEPT ![t].op = "fetch"]
      /\ UNCHANGED <<made, down, queue, past>>
  BY DEF Install, Goto, exporting
<1>2. /\ \A u \in Thread \ {t} : at'[u] = at[u]
      /\ at'[t].op = "fetch" /\ at' \in [Thread -> At]
  BY <1>1 DEF PInv, Shape, At
<1>3. Shape'
  BY <1>1, <1>2 DEF PInv, Shape
<1>4. ASSUME ~past.overlap PROVE Alone' /\ Owned' /\ Drained'
  <2>1. \A u \in Thread : at'[u].op # "install"
    BY <1>1, <1>2, <1>4 DEF PInv, Alone, Configuring
  <2>2. provider = None /\ Alive \subseteq {at[t].mine} /\ at[t].mine \in Alive
    BY <1>1, <1>4 DEF PInv, Owned
  <2>3. Stopping = {} /\ Stopping' = {}
    <3>1. Stopping = {}
      BY <1>4, <2>2, SdkAssumption DEF PInv, Shape, Owned
    <3> QED BY <1>2, <3>1 DEF Stopping
  <2>4. Alone'
    BY <1>1, <1>2, <1>4 DEF PInv, Alone, Configuring, Stopping
  <2>5. Owned'
    BY <1>1, <2>1, <2>2, <2>3 DEF Owned, Alive
  <2>6. Drained'
    <3>1. at[t].mine \notin down /\ at[t].mine # None
      BY <2>2, SdkAssumption DEF Alive
    <3> QED BY <1>1, <1>2, <1>4, <3>1 DEF PInv, Drained
  <2> QED BY <2>4, <2>5, <2>6
<1> QED BY <1>1, <1>3, <1>4 DEF PInv

\* Alone in `shutdown', a thread takes the one provider that is alive down.
LEMMA ShutdownPInv == ASSUME PInv, NEW t \in Thread, Shutdown(t) PROVE PInv'
<1>1. /\ at[t].op = "agent" /\ provider # None /\ down' = down \cup {provider}
      /\ at' = [at EXCEPT ![t] = Thus("drain", FALSE, provider)]
      /\ past' = [past EXCEPT !.overlap = Overlapping(Stopping)]
      /\ UNCHANGED <<made, provider, global, queue>>
  BY DEF Shutdown, globals
<1>2. /\ \A u \in Thread \ {t} : at'[u] = at[u]
      /\ at'[t].op = "drain" /\ at'[t].mine = provider /\ at' \in [Thread -> At]
  BY <1>1 DEF PInv, Shape, At, Thus
<1>3. /\ past' \in [asked : SUBSET Config, returned : BOOLEAN, early : BOOLEAN, overlap : BOOLEAN]
      /\ past'.overlap = Overlapping(Stopping)
  BY <1>1 DEF PInv, Shape, Overlapping
<1>4. Shape'
  BY <1>1, <1>2, <1>3 DEF PInv, Shape
<1>5. ASSUME ~past'.overlap PROVE Alone' /\ Owned' /\ Drained'
  <2>1. ~past.overlap /\ Stopping = {}
    BY <1>3, <1>5 DEF Overlapping
  <2>2. \A u \in Thread : at[u].op # "install" /\ at'[u].op # "install"
    BY <1>1, <1>2, <2>1 DEF PInv, Owned
  <2>3. Alone'
    BY <1>1, <1>2, <2>1 DEF PInv, Alone, Configuring, Stopping
  <2>4. Stopping' = {t}
    BY <1>2, <2>1 DEF Stopping
  <2>5. Owned'
    BY <1>1, <1>2, <2>1, <2>2, <2>4 DEF PInv, Owned, Alive
  <2>6. Drained'
    BY <1>1, <1>2, <2>1 DEF PInv, Drained
  <2> QED BY <2>3, <2>5, <2>6
<1> QED BY <1>4, <1>5 DEF PInv

\* The first provider's queue is empty once it has been drained.
LEMMA DrainPInv == ASSUME PInv, NEW t \in Thread, Drain(t) PROVE PInv'
<1>1. /\ at[t].op = "drain" /\ at' = [at EXCEPT ![t].op = "clear"]
      /\ IF at[t].mine = global THEN queue' = <<>> ELSE UNCHANGED queue
      /\ UNCHANGED <<made, provider, global, down, past>>
  BY DEF Drain, Goto, globals, Export
<1>2. /\ \A u \in Thread \ {t} : at'[u] = at[u]
      /\ at'[t].op = "clear" /\ at'[t].mine = at[t].mine /\ at' \in [Thread -> At]
  BY <1>1 DEF PInv, Shape, At
<1>3. Shape'
  BY <1>1, <1>2 DEF PInv, Shape
<1>4. ASSUME ~past.overlap PROVE Alone' /\ Owned' /\ Drained'
  <2>1. Configuring' = Configuring /\ Stopping' = Stopping
    BY <1>1, <1>2 DEF Configuring, Stopping
  <2>2. Alone'
    BY <1>4, <2>1 DEF PInv, Alone
  <2>3. Owned'
    <3>1. \A u \in Thread : at'[u].mine = at[u].mine
      BY <1>2
    <3>2. \A u \in Thread : at'[u].op = "install" <=> at[u].op = "install"
      BY <1>1, <1>2
    <3>3. \A u \in Stopping : u \in Thread
      BY DEF Stopping
    <3> QED BY <1>1, <1>4, <2>1, <3>1, <3>2, <3>3 DEF PInv, Owned, Alive
  <2>4. Drained'
    BY <1>1, <1>2, <1>4 DEF PInv, Drained
  <2> QED BY <2>2, <2>3, <2>4
<1> QED BY <1>1, <1>3, <1>4 DEF PInv

\* And _PROVIDER is cleared when it is the one that was shut down.
LEMMA ClearPInv == ASSUME PInv, NEW t \in Thread, Clear(t) PROVE PInv'
<1>1. /\ at[t].op = "clear" /\ provider' = None /\ at' = [at EXCEPT ![t] = Agent]
      /\ UNCHANGED <<made, global, down, queue, past>>
  BY DEF Clear, exporting
<1>2. /\ \A u \in Thread \ {t} : at'[u] = at[u]
      /\ at'[t] = Agent /\ Agent \in At /\ Agent.op = "agent" /\ at' \in [Thread -> At]
  BY <1>1 DEF PInv, Shape, At, Agent, Thus
<1>3. Shape'
  BY <1>1, <1>2 DEF PInv, Shape
<1>4. ASSUME ~past.overlap PROVE Alone' /\ Owned' /\ Drained'
  <2>1. t \in Stopping /\ provider \in down /\ provider # None
    BY <1>1, <1>4, SdkAssumption DEF PInv, Shape, Owned, Stopping
  <2>2. \A u \in Thread : at[u].op # "install" /\ at'[u].op # "install"
    BY <1>2, <1>4, <2>1 DEF PInv, Owned
  <2>3. Alive = {} /\ Alive' = {}
    BY <1>1, <1>4, <2>1, <2>2 DEF PInv, Owned, Alive
  <2>4. Stopping' = {}
    BY <1>2, <1>4, <2>1 DEF PInv, Alone, Stopping
  <2>5. Alone'
    BY <1>1, <1>2, <1>4, <2>4 DEF PInv, Alone, Configuring
  <2>6. Owned'
    BY <2>2, <2>3, <2>4 DEF Owned
  <2>7. Drained'
    BY <1>1, <1>2, <1>4 DEF PInv, Drained
  <2> QED BY <2>5, <2>6, <2>7
<1> QED BY <1>1, <1>3, <1>4 DEF PInv

-----------------------------------------------------------------------------
\* `configure' and the lazy one: they enter, pass through the redactor, and leave.
LEMMA ConfigurePInv ==
  ASSUME PInv, NEW t \in Thread, NEW c \in Config, Configure(t, c)
  PROVE  PInv'
<1> DEFINE r == [at[t] EXCEPT !.op = "check"]
<1>1. r \in At /\ r.op = "check" /\ at' = [at EXCEPT ![t] = r]
  BY DEF Configure, Goto, PInv, Shape, At
<1>2. /\ past' \in [asked : SUBSET Config, returned : BOOLEAN, early : BOOLEAN, overlap : BOOLEAN]
      /\ past'.overlap = Overlapping(Configuring)
  BY DEF Configure, PInv, Shape, Overlapping
<1>3. at[t].op = "agent" /\ UNCHANGED <<made, provider, global, down, queue>>
  BY DEF Configure, exporting
<1> HIDE DEF r
<1> QED BY <1>1, <1>2, <1>3, EntersPInv

\* The first span enters it.
LEMMA TracerOrInitPInv == ASSUME PInv, NEW t \in Thread, TracerOrInit(t) PROVE PInv'
<1> DEFINE r == Thus("lazily", TRUE, None)
<1>1. r \in At /\ r.op = "lazily" /\ at' = [at EXCEPT ![t] = r]
  BY DEF TracerOrInit, At, Thus
<1>2. /\ past' \in [asked : SUBSET Config, returned : BOOLEAN, early : BOOLEAN, overlap : BOOLEAN]
      /\ past'.overlap = Overlapping(Configuring)
  BY DEF TracerOrInit, PInv, Shape, Overlapping
<1>3. at[t].op = "agent" /\ UNCHANGED <<made, provider, global, down, queue>>
  BY DEF TracerOrInit, globals, exporting
<1> HIDE DEF r
<1> QED BY <1>1, <1>2, <1>3, EntersPInv

\* It sets the defaults and goes on.
LEMMA SetDefaultsPInv == ASSUME PInv, NEW t \in Thread, SetDefaults(t) PROVE PInv'
<1> DEFINE r == [at[t] EXCEPT !.op = "check"]
<1>1. r \in At /\ r.op = "check" /\ at' = [at EXCEPT ![t] = r]
  BY DEF SetDefaults, Goto, PInv, Shape, At
<1>2. at[t].op = "lazily" /\ t \in Configuring /\ UNCHANGED <<made, provider, global, down, queue, past>>
  BY DEF SetDefaults, exporting, Configuring
<1> HIDE DEF r
<1> QED BY <1>1, <1>2, GoesOnPInv DEF PInv, Shape

\* It gets its tracer and leaves.
LEMMA FetchTracerPInv == ASSUME PInv, NEW t \in Thread, FetchTracer(t) PROVE PInv'
<1> DEFINE r == Thus(IF at[t].lazy THEN "start" ELSE "agent", FALSE, None)
<1>1. r \in At /\ r.op \in {"start", "agent"} /\ at' = [at EXCEPT ![t] = r]
  BY DEF FetchTracer, At, Thus
<1>2. /\ past' \in [asked : SUBSET Config, returned : BOOLEAN, early : BOOLEAN, overlap : BOOLEAN]
      /\ past'.overlap = past.overlap
  BY DEF FetchTracer, PInv, Shape, At
<1>3. at[t].op = "fetch" /\ t \in Configuring /\ UNCHANGED <<made, provider, global, down, queue>>
  BY DEF FetchTracer, exporting, Configuring
<1> HIDE DEF r
<1> QED BY <1>1, <1>2, <1>3, GoesOnPInv

\* Spans that start and end leave the providers alone.
LEMMA SpansPInv ==
  ASSUME PInv, NEW t \in Thread, Start(t) \/ StartDeferred(t) \/ End(t)
  PROVE  PInv'
<1>1. ASSUME at[t].op \in {"agent", "start"}, at' = [at EXCEPT ![t] = Agent],
             UNCHANGED <<globals, down, past>>,
             queue' = queue \/ queue' = <<>> \/ global \notin down
      PROVE  PInv'
  <2>1. Agent \in At /\ Agent.op = "agent"
    BY DEF Agent, Thus, At
  <2> QED BY <1>1, <2>1, GoesOnPInv DEF PInv, Shape, globals
<1>2. CASE Start(t)
  BY <1>1, <1>2 DEF Start, MayStart, exporting
<1>3. CASE StartDeferred(t)
  BY <1>1, <1>3 DEF StartDeferred, MayStart, Ends
<1>4. CASE End(t)
  <2> DEFINE r == at[t]
  <2>1. r \in At /\ r.op = "agent" /\ at' = [at EXCEPT ![t] = r]
    BY <1>4 DEF End, PInv, Shape
  <2>2. /\ UNCHANGED <<made, provider, global, down, past>>
        /\ queue' = queue \/ global \notin down
    BY <1>4 DEF End, Ends, globals
  <2>3. at[t].op = "agent"
    BY <1>4 DEF End
  <2> HIDE DEF r
  <2> QED BY <2>1, <2>2, <2>3, GoesOnPInv DEF PInv, Shape
<1> QED BY <1>2, <1>3, <1>4

\* Exporting only empties the queue.
LEMMA FlushPInv == ASSUME PInv, Flush PROVE PInv'
  BY DEF Flush, Export, globals, PInv, Shape, Alone, Owned, Drained, Alive, Configuring, Stopping

\* Nor does a stutter change anything.
LEMMA StutterPInv == ASSUME PInv, UNCHANGED vars PROVE PInv'
  BY DEF vars, globals, exporting, PInv, Shape, Alone, Owned, Drained, Alive, Configuring, Stopping

\* Every step keeps the invariant.
LEMMA NextPInv == PInv /\ [Next]_vars => PInv'
<1> SUFFICES ASSUME PInv, [Next]_vars PROVE PInv'
  OBVIOUS
<1>1. CASE Flush
  BY <1>1, FlushPInv
<1>2. ASSUME NEW t \in Thread, NEW c \in Config, Configure(t, c) PROVE PInv'
  BY <1>2, ConfigurePInv
<1>3. ASSUME NEW t \in Thread, InConfigure(t) PROVE PInv'
  BY <1>3, TracerOrInitPInv, SetDefaultsPInv, NewProviderPInv, InstallPInv, FetchTracerPInv DEF InConfigure
<1>4. ASSUME NEW t \in Thread, Start(t) \/ StartDeferred(t) \/ End(t) PROVE PInv'
  BY <1>4, SpansPInv
<1>5. ASSUME NEW t \in Thread, Shutdown(t) PROVE PInv'
  BY <1>5, ShutdownPInv
<1>6. ASSUME NEW t \in Thread, InShutdown(t) PROVE PInv'
  BY <1>6, DrainPInv, ClearPInv DEF InShutdown
<1>7. CASE UNCHANGED vars
  BY <1>7, StutterPInv
<1> QED BY <1>1, <1>2, <1>3, <1>4, <1>5, <1>6, <1>7 DEF Next

\* However many threads configure the SDK, open spans and shut it down, and how often:
\* unless two of them did so at once, one provider at most is alive, and a shutdown that
\* returns leaves nothing behind (_otel.py:27-85).
THEOREM OneProviderAtATime == Spec => []OneProvider
<1> QED BY InitPInv, NextPInv, PInvImplies, PTL DEF Spec

-----------------------------------------------------------------------------
(* The settings that spans are redacted with. *)

\* A tracer is there once there is a provider, and once a `configure' has returned.
Fetched == /\ redact \in Config \cup {Default} /\ tracer \in 1..made \cup {None}
           /\ tracer # None => tracer = global
           /\ provider # None => global # None
           /\ \A t \in Thread : at[t].op = "fetch" => global # None
           /\ past.returned => tracer # None

\* Unless a span came before a `configure' had returned, nobody sets the defaults, and
\* what is set when spans can start is what a call asked for.
Asked == ~past.early =>
  /\ \A t \in Thread : ~at[t].lazy /\ at[t].op \notin {"lazily", "start"}
  /\ tracer # None \/ Configuring # {} => redact \in past.asked

GInv == Fetched /\ Asked

\* At the start nothing is configured.
LEMMA InitGInv == Init => GInv
  BY SdkAssumption DEF Init, GInv, Fetched, Asked, Agent, Thus, Configuring

\* A step outside `configure' that leaves the globals but _PROVIDER alone, perhaps clearing
\* that, and its thread with the agent or on its way through a shutdown.
LEMMA LeavesGInv ==
  ASSUME PInv, GInv,
         \A t \in Thread : \/ at'[t] = at[t]
                           \/ /\ at'[t].op \in {"agent", "drain", "clear"}
                              /\ at'[t].lazy => at[t].lazy,
         provider' = provider \/ provider' = None,
         past'.asked = past.asked, past'.returned = past.returned, past'.early = past.early,
         UNCHANGED <<redact, tracer, global, made>>
  PROVE  GInv'
<1>1. Configuring' \subseteq Configuring
  BY DEF Configuring
<1>2. Fetched'
  BY DEF GInv, Fetched
<1>3. Asked'
  BY <1>1 DEF GInv, Asked
<1> QED BY <1>2, <1>3 DEF GInv

\* The steps of `configure' keep the tracer and the settings in step.
LEMMA ConfigureGInv ==
  ASSUME PInv, GInv, NEW t \in Thread,
         (\E c \in Config : Configure(t, c)) \/ InConfigure(t)
  PROVE  GInv'
<1>1. ASSUME NEW c \in Config, Configure(t, c) PROVE GInv'
  <2>1. /\ at' = [at EXCEPT ![t].op = "check"] /\ redact' = c
        /\ past' = [past EXCEPT !.asked = @ \cup {c}, !.overlap = Overlapping(Configuring)]
        /\ at[t].op = "agent" /\ UNCHANGED <<tracer, provider, global, made>>
    BY <1>1 DEF Configure, Goto
  <2>2. /\ \A u \in Thread : at'[u].lazy = at[u].lazy
        /\ at'[t].op = "check" /\ \A u \in Thread \ {t} : at'[u].op = at[u].op
    BY <2>1 DEF PInv, Shape, At
  <2>3. /\ past'.asked = past.asked \cup {c} /\ past'.returned = past.returned
        /\ past'.early = past.early
    BY <2>1 DEF PInv, Shape
  <2> QED BY <2>1, <2>2, <2>3 DEF GInv, Fetched, Asked
<1>2. CASE TracerOrInit(t)
  <2>1. /\ at' = [at EXCEPT ![t] = Thus("lazily", TRUE, None)] /\ tracer = None
        /\ past'.early = (past.early \/ ~past.returned) /\ past'.returned = past.returned
        /\ UNCHANGED <<redact, tracer, provider, global, made>>
    BY <1>2 DEF TracerOrInit, globals, PInv, Shape
  <2>2. past'.early
    BY <2>1 DEF GInv, Fetched
  <2>3. at'[t].op = "lazily" /\ \A u \in Thread \ {t} : at'[u] = at[u]
    BY <2>1 DEF PInv, Shape, Thus
  <2> QED BY <2>1, <2>2, <2>3 DEF GInv, Fetched, Asked
<1>3. CASE SetDefaults(t)
  <2>1. /\ at' = [at EXCEPT ![t].op = "check"] /\ at[t].op = "lazily" /\ redact' = Default
        /\ UNCHANGED <<tracer, provider, global, made, past>>
    BY <1>3 DEF SetDefaults, Goto
  <2>2. past.early
    BY <2>1 DEF GInv, Asked
  <2>3. at'[t].op = "check" /\ \A u \in Thread \ {t} : at'[u] = at[u]
    BY <2>1 DEF PInv, Shape, At
  <2> QED BY <2>1, <2>2, <2>3 DEF GInv, Fetched, Asked
<1>4. CASE NewProvider(t)
  <2>1. /\ at[t].op = "check" /\ UNCHANGED <<redact, tracer, provider, global, past>>
        /\ made' \in {made, made + 1}
    BY <1>4 DEF NewProvider
  <2>2. \A u \in Thread \ {t} : at'[u] = at[u]
    BY <1>4 DEF NewProvider, Goto, PInv, Shape
  <2>3. /\ at'[t].lazy = at[t].lazy /\ at'[t].op \in {"install", "fetch"}
        /\ at'[t].op = "fetch" => provider # None
    BY <1>4 DEF NewProvider, Goto, PInv, Shape, At, Thus
  <2>4. Configuring' = Configuring
    BY <2>1, <2>2, <2>3 DEF Configuring
  <2>5. Fetched'
    BY <2>1, <2>2, <2>3 DEF GInv, Fetched, PInv, Shape
  <2> QED BY <2>1, <2>2, <2>3, <2>4, <2>5 DEF GInv, Asked
<1>5. CASE Install(t)
  <2>1. /\ at[t].op = "install" /\ provider' = at[t].mine
        /\ global' = IF global = None THEN at[t].mine ELSE global
        /\ at' = [at EXCEPT ![t].op = "fetch"]
        /\ UNCHANGED <<redact, tracer, made, past>>
    BY <1>5 DEF Install, Goto
  <2>2. /\ at'[t].lazy = at[t].lazy /\ at'[t].op = "fetch"
        /\ \A u \in Thread \ {t} : at'[u] = at[u]
    BY <2>1 DEF PInv, Shape, At
  <2>3. Configuring' = Configuring
    BY <2>1, <2>2 DEF Configuring
  <2>4. at[t].mine \in 1..made /\ at[t].mine # None
    BY <2>1, SdkAssumption DEF PInv, Shape
  <2>5. Fetched'
    BY <2>1, <2>4 DEF GInv, Fetched
  <2> QED BY <2>1, <2>2, <2>3, <2>5 DEF GInv, Asked
<1>6. CASE FetchTracer(t)
  <2>1. /\ at[t].op = "fetch" /\ tracer' = global
        /\ at' = [at EXCEPT ![t] = Thus(IF at[t].lazy THEN "start" ELSE "agent", FALSE, None)]
        /\ past'.returned = (past.returned \/ ~at[t].lazy)
        /\ past'.early = past.early /\ past'.asked = past.asked
        /\ UNCHANGED <<redact, provider, global, made>>
    BY <1>6 DEF FetchTracer, PInv, Shape
  <2>2. /\ ~at'[t].lazy /\ at'[t].op = IF at[t].lazy THEN "start" ELSE "agent"
        /\ \A u \in Thread \ {t} : at'[u] = at[u]
    BY <2>1 DEF PInv, Shape, Thus
  <2>3. t \in Configuring
    BY <2>1 DEF Configuring
  <2>4. Fetched'
    BY <2>1, <2>2 DEF GInv, Fetched, PInv, Shape
  <2>5. Asked'
    <3> SUFFICES ASSUME ~past.early
                 PROVE  /\ \A u \in Thread : ~at'[u].lazy /\ at'[u].op \notin {"lazily", "start"}
                        /\ redact \in past.asked
      BY <2>1 DEF Asked
    <3>1. /\ \A u \in Thread : ~at[u].lazy /\ at[u].op \notin {"lazily", "start"}
          /\ redact \in past.asked
      BY <2>3 DEF GInv, Asked
    <3>2. at'[t].op = "agent" /\ ~at'[t].lazy
      BY <2>2, <3>1
    <3> QED BY <2>2, <3>1, <3>2
  <2> QED BY <2>4, <2>5 DEF GInv
<1> QED BY <1>1, <1>2, <1>3, <1>4, <1>5, <1>6 DEF InConfigure

\* Every step keeps them in step.
LEMMA NextGInv == PInv /\ GInv /\ [Next]_vars => GInv'
<1> SUFFICES ASSUME PInv, GInv, [Next]_vars PROVE GInv'
  OBVIOUS
<1>1. CASE Flush \/ UNCHANGED vars
  BY <1>1, LeavesGInv DEF Flush, vars, globals
<1>2. ASSUME NEW t \in Thread, (\E c \in Config : Configure(t, c)) \/ InConfigure(t) PROVE GInv'
  BY <1>2, ConfigureGInv
<1>3. ASSUME NEW t \in Thread,
             Start(t) \/ StartDeferred(t) \/ End(t) \/ Shutdown(t) \/ InShutdown(t)
      PROVE  GInv'
  <2>1. \A u \in Thread \ {t} : at'[u] = at[u]
    BY <1>3 DEF Start, StartDeferred, End, Shutdown, InShutdown, Drain, Clear, Goto, PInv, Shape
  <2>2. \/ at'[t] = at[t]
        \/ at'[t].op \in {"agent", "drain", "clear"} /\ (at'[t].lazy => at[t].lazy)
    <3>1. CASE End(t)
      BY <3>1 DEF End
    <3>0. CASE Start(t) \/ StartDeferred(t) \/ Shutdown(t) \/ Clear(t)
      <4>1. PICK p \in {Agent, Thus("drain", FALSE, provider)} : at' = [at EXCEPT ![t] = p]
        BY <3>0 DEF Start, StartDeferred, Shutdown, Clear
      <4>2. p.op \in {"agent", "drain"} /\ ~p.lazy
        BY DEF Agent, Thus
      <4> QED BY <4>1, <4>2 DEF PInv, Shape
    <3>2. CASE Drain(t)
      BY <3>2 DEF Drain, Goto, PInv, Shape, At
    <3> QED BY <1>3, <3>0, <3>1, <3>2 DEF InShutdown
  <2>3. /\ provider' = provider \/ provider' = None
        /\ UNCHANGED <<redact, tracer, global, made>>
    BY <1>3 DEF Start, StartDeferred, End, Shutdown, InShutdown, Drain, Clear, globals
  <2>4. /\ past'.asked = past.asked /\ past'.returned = past.returned
        /\ past'.early = past.early
    BY <1>3 DEF Start, StartDeferred, End, Shutdown, InShutdown, Drain, Clear, PInv, Shape
  <2> QED BY <2>1, <2>2, <2>3, <2>4, LeavesGInv
<1> QED BY <1>1, <1>2, <1>3 DEF Next

-----------------------------------------------------------------------------
(* Spans, from their start to the exporter. *)

\* The places of a sequence that grows by one element at its end.
LEMMA Appending ==
  ASSUME NEW S, NEW s \in Seq(S), NEW e \in S
  PROVE  /\ Append(s, e) \in Seq(S) /\ Len(s) + 1 \notin DOMAIN s
         /\ DOMAIN Append(s, e) = DOMAIN s \cup {Len(s) + 1}
         /\ \A p \in DOMAIN s : Append(s, e)[p] = s[p] /\ p < Len(s) + 1
         /\ Append(s, e)[Len(s) + 1] = e
<1>1. Len(s) \in Nat /\ DOMAIN s = 1..Len(s)
  BY LenProperties
<1>2. Append(s, e) \in Seq(S) /\ Len(Append(s, e)) = Len(s) + 1
  BY AppendProperties
<1>3. DOMAIN Append(s, e) = 1..(Len(s) + 1)
  BY <1>2, LenProperties
<1>4. \A p \in 1..Len(s) : Append(s, e)[p] = s[p]
  BY AppendProperties
<1>5. Append(s, e)[Len(s) + 1] = e
  BY AppendProperties
<1> QED BY <1>1, <1>2, <1>3, <1>4, <1>5

\* The places of one sequence after another.
LEMMA Joining ==
  ASSUME NEW S, NEW s \in Seq(S), NEW t \in Seq(S)
  PROVE  /\ s \o t \in Seq(S) /\ Len(s) \in Nat
         /\ \A p \in DOMAIN s : p \in Nat /\ p <= Len(s)
         /\ \A p \in DOMAIN (s \o t) :
              \/ p \in DOMAIN s /\ (s \o t)[p] = s[p]
              \/ /\ p \in Nat /\ p > Len(s) /\ p - Len(s) \in DOMAIN t
                 /\ (s \o t)[p] = t[p - Len(s)]
<1>1. Len(s) \in Nat /\ DOMAIN s = 1..Len(s) /\ Len(t) \in Nat /\ DOMAIN t = 1..Len(t)
  BY LenProperties
<1>2. /\ s \o t \in Seq(S) /\ Len(s \o t) = Len(s) + Len(t)
      /\ \A i \in 1 .. Len(s) + Len(t) :
           (s \o t)[i] = IF i <= Len(s) THEN s[i] ELSE t[i - Len(s)]
  BY ConcatProperties
<1>3. DOMAIN (s \o t) = 1..(Len(s) + Len(t))
  BY <1>2, LenProperties
<1> QED BY <1>1, <1>2, <1>3

\* The places of a sequence without its last element.
LEMMA Fronting ==
  ASSUME NEW S, NEW s \in Seq(S), s # <<>>
  PROVE  /\ Front(s) \in Seq(S) /\ Last(s) \in S /\ Len(s) \in DOMAIN s
         /\ DOMAIN Front(s) = DOMAIN s \ {Len(s)}
         /\ \A p \in DOMAIN Front(s) : Front(s)[p] = s[p] /\ 1 \in DOMAIN Front(s)
         /\ 1 \in DOMAIN s
<1>1. Len(s) \in Nat \ {0} /\ DOMAIN s = 1..Len(s) /\ s \in [1..Len(s) -> S]
  BY LenProperties, EmptySeq
<1>2. Last(s) \in S
  BY <1>1 DEF Last
<1>3. /\ Front(s) \in Seq(S) /\ Len(Front(s)) = Len(s) - 1
      /\ \A i \in 1..Len(s) - 1 : Front(s)[i] = s[i]
  <2>1. \A i \in 1..Len(s) - 1 : s[i] \in S
    BY <1>1
  <2>2. /\ SubSeq(s, 1, Len(s) - 1) \in Seq(S)
        /\ Len(SubSeq(s, 1, Len(s) - 1)) = IF 1 <= Len(s) - 1 THEN (Len(s) - 1) - 1 + 1 ELSE 0
        /\ \A i \in 1..(Len(s) - 1) - 1 + 1 : SubSeq(s, 1, Len(s) - 1)[i] = s[1 + i - 1]
    BY <1>1, <2>1, SubSeqProperties
  <2> QED BY <1>1, <2>2 DEF Front
<1>4. DOMAIN Front(s) = 1..Len(s) - 1
  BY <1>3, LenProperties
<1> QED BY <1>1, <1>2, <1>3, <1>4

SpanTypes == /\ open \in [Thread -> Seq(DOMAIN span)] /\ span \in Seq(Spans)
             /\ queue \in Seq(DOMAIN span) /\ out \in Seq(DOMAIN span)
             /\ \A s \in DOMAIN span : span[s].run \in DOMAIN span

Redacted == ~past.early => \A s \in DOMAIN span : span[s].redact \in past.asked

\* A span is open in one place.
OpenOnce == \A t, u \in Thread : \A i \in DOMAIN open[t], j \in DOMAIN open[u] :
  open[t][i] = open[u][j] => t = u /\ i = j

\* What is open has not ended.
StillOpen == \A t \in Thread : \A i \in DOMAIN open[t] :
  /\ \A p \in DOMAIN queue : queue[p] # open[t][i]
  /\ \A p \in DOMAIN out : out[p] # open[t][i]

\* The root of an open span's run is the outermost span of its thread, unless it ended
\* when the run had just begun.
UnderItsRoot == \A t \in Thread : \A i \in DOMAIN open[t] :
  LET root == span[open[t][i]].run
  IN  root = open[t][1] \/ span[root].deferred

\* Of two spans in the order in which they end.
InOrder(first, second) == span[second].run = first => span[first].deferred

Ordered == /\ \A p, q \in DOMAIN out : p < q => InOrder(out[p], out[q])
           /\ \A p, q \in DOMAIN queue : p < q => InOrder(queue[p], queue[q])
           /\ \A p \in DOMAIN out, q \in DOMAIN queue : InOrder(out[p], queue[q])

Nested == OpenOnce /\ StillOpen /\ UnderItsRoot /\ Ordered

SInv == SpanTypes /\ Redacted /\ Nested

\* At the start there is no span.
LEMMA InitSInv == Init => SInv
<1> SUFFICES ASSUME Init PROVE SInv
  OBVIOUS
<1>1. /\ span = <<>> /\ queue = <<>> /\ out = <<>>
      /\ open = [t \in Thread |-> <<>>]
  BY DEF Init
<1>2. SpanTypes /\ Redacted
  BY <1>1 DEF SpanTypes, Redacted
<1>3. Nested
  BY <1>1 DEF Nested, OpenOnce, StillOpen, UnderItsRoot, Ordered
<1> QED BY <1>2, <1>3 DEF SInv

\* A step that leaves the spans alone and brings no settings that were not asked for.
LEMMA SpansLeftAlone ==
  ASSUME SInv, UNCHANGED <<open, span, queue, out>>,
         past.asked \subseteq past'.asked, past.early => past'.early
  PROVE  SInv'
<1>1. SpanTypes' /\ Redacted'
  BY DEF SInv, SpanTypes, Redacted
<1>2. Nested'
  BY DEF SInv, Nested, OpenOnce, StillOpen, UnderItsRoot, Ordered, InOrder
<1> QED BY <1>1, <1>2 DEF SInv

\* Exporting, or losing, what waits keeps the order.
LEMMA ExportSInv ==
  ASSUME SInv, Export, UNCHANGED <<open, span, past>>
  PROVE  SInv'
<1>1. queue' = <<>> /\ (out' = out \o queue \/ out' = out)
  BY DEF Export
<1>2. SpanTypes'
  <2>1. out' \in Seq(DOMAIN span) /\ queue' \in Seq(DOMAIN span)
    <3>1. out \in Seq(DOMAIN span) /\ queue \in Seq(DOMAIN span)
      BY DEF SInv, SpanTypes
    <3>2. out \o queue \in Seq(DOMAIN span)
      BY <3>1, ConcatProperties
    <3>3. <<>> \in Seq(DOMAIN span)
      BY EmptySeq
    <3> QED BY <1>1, <3>1, <3>2, <3>3
  <2> QED BY <2>1 DEF SInv, SpanTypes
<1>0. /\ Len(out) \in Nat /\ out \in Seq(DOMAIN span) /\ queue \in Seq(DOMAIN span)
      /\ \A p \in DOMAIN out : p \in Nat /\ p <= Len(out)
  BY Joining DEF SInv, SpanTypes
<1>3. ASSUME NEW p \in DOMAIN out'
      PROVE  \/ p \in DOMAIN out /\ out'[p] = out[p]
             \/ /\ p \in Nat /\ p > Len(out) /\ p - Len(out) \in DOMAIN queue
                /\ out'[p] = queue[p - Len(out)]
  BY <1>0, <1>1, <1>3, Joining
<1>4. StillOpen'
  <2>1. ASSUME NEW t \in Thread, NEW i \in DOMAIN open[t], NEW p \in DOMAIN out'
        PROVE  out'[p] # open[t][i]
    BY <1>3 DEF SInv, Nested, StillOpen
  <2> QED BY <1>1, <2>1 DEF StillOpen
<1>5. ASSUME NEW p \in DOMAIN out', NEW q \in DOMAIN out', p < q
      PROVE  InOrder(out'[p], out'[q])
  <2>1. CASE p \in DOMAIN out /\ q \in DOMAIN out
    BY <1>0, <1>3, <1>5, <2>1 DEF SInv, Nested, Ordered
  <2>2. CASE p \in DOMAIN out /\ q \notin DOMAIN out
    BY <1>0, <1>3, <2>2 DEF SInv, Nested, Ordered
  <2>3. CASE p \notin DOMAIN out
    <3>1. /\ p \in Nat /\ p > Len(out) /\ p - Len(out) \in DOMAIN queue
          /\ out'[p] = queue[p - Len(out)]
      BY <1>3, <2>3
    <3>2. q \notin DOMAIN out
      BY <1>0, <1>5, <3>1
    <3>3. /\ q \in Nat /\ q - Len(out) \in DOMAIN queue
          /\ out'[q] = queue[q - Len(out)] /\ p - Len(out) < q - Len(out)
      BY <1>0, <1>3, <1>5, <3>1, <3>2
    <3> QED BY <3>1, <3>3 DEF SInv, Nested, Ordered
  <2> QED BY <2>1, <2>2, <2>3
<1>6. Ordered'
  BY <1>1, <1>5 DEF Ordered, InOrder
<1>7. OpenOnce' /\ UnderItsRoot' /\ Redacted'
  BY DEF SInv, Nested, OpenOnce, UnderItsRoot, Redacted
<1> QED BY <1>2, <1>4, <1>6, <1>7 DEF SInv, Nested

\* A span that begins is redacted as a call asked, and leaves the other spans alone.
LEMMA SpanBegins ==
  ASSUME GInv, SInv, NEW t \in Thread, MayStart(t),
         NEW run \in DOMAIN span \cup {Here}, NEW deferred \in BOOLEAN,
         span' = Append(span, NewSpan(run, deferred)), UNCHANGED past
  PROVE  /\ span' \in Seq(Spans) /\ DOMAIN span' = DOMAIN span \cup {Here}
         /\ Here \notin DOMAIN span /\ \A s \in DOMAIN span : span'[s] = span[s]
         /\ span'[Here].run = run /\ span'[Here].deferred = deferred
         /\ \A s \in DOMAIN span' : span'[s].run \in DOMAIN span'
         /\ Redacted'
<1>1. span \in Seq(Spans) /\ Len(span) \in Nat /\ DOMAIN span = 1..Len(span)
  BY LenProperties DEF SInv, SpanTypes
<1>2. NewSpan(run, deferred) \in Spans
  BY <1>1 DEF NewSpan, Spans, Here, GInv, Fetched
<1>3. /\ span' \in Seq(Spans) /\ Here \notin DOMAIN span
      /\ DOMAIN span' = DOMAIN span \cup {Here}
      /\ \A s \in DOMAIN span : span'[s] = span[s]
      /\ span'[Here] = NewSpan(run, deferred)
  BY <1>1, <1>2, Appending DEF Here
<1>4. \A s \in DOMAIN span' : span'[s].run \in DOMAIN span'
  <2>1. span'[Here].run = run
    BY <1>3 DEF NewSpan
  <2>2. \A s \in DOMAIN span : span[s].run \in DOMAIN span
    BY DEF SInv, SpanTypes
  <2> QED BY <1>3, <2>1, <2>2
<1>5. ~past.early => redact \in past.asked
  BY DEF MayStart, GInv, Asked
<1>6. Redacted'
  BY <1>3, <1>5 DEF NewSpan, SInv, Redacted
<1> QED BY <1>3, <1>4, <1>6 DEF NewSpan

\* The order of the spans that have ended is not disturbed by a new one.
LEMMA OrderOfOldSpans ==
  ASSUME SInv, \A s \in DOMAIN span : span'[s] = span[s],
         NEW first \in DOMAIN span, NEW second \in DOMAIN span
  PROVE  InOrder(first, second) => InOrder(first, second)'
BY DEF InOrder

\* What waits and what was exported are spans.
LEMMA EndedAreSpans ==
  ASSUME SInv
  PROVE  /\ \A p \in DOMAIN queue : queue[p] \in DOMAIN span
         /\ \A p \in DOMAIN out : out[p] \in DOMAIN span
         /\ \A t \in Thread : \A i \in DOMAIN open[t] :
              open[t][i] \in DOMAIN span /\ 1 \in DOMAIN open[t] /\ i \in Nat
<1>1. /\ queue \in Seq(DOMAIN span) /\ out \in Seq(DOMAIN span)
      /\ \A t \in Thread : open[t] \in Seq(DOMAIN span)
  BY DEF SInv, SpanTypes
<1>2. ASSUME NEW s \in Seq(DOMAIN span), NEW i \in DOMAIN s
      PROVE  s[i] \in DOMAIN span /\ 1 \in DOMAIN s /\ i \in Nat
  BY <1>2, LenProperties
<1> QED BY <1>1, <1>2

\* A span that starts is put on its thread's stack, in the run of the span below it.
LEMMA StartSInv ==
  ASSUME GInv, SInv, NEW t \in Thread, Start(t)
  PROVE  SInv'
<1> DEFINE n == Len(open[t]) + 1
<1>1. PICK run \in IF open[t] # <<>> THEN {span[Last(open[t])].run}
                   ELSE {Here} \cup {r \in DOMAIN span : span[r].deferred} :
        span' = Append(span, NewSpan(run, FALSE))
  BY DEF Start
<1>2. /\ MayStart(t) /\ open' = [open EXCEPT ![t] = Append(@, Here)]
      /\ UNCHANGED <<queue, out, past>>
  BY DEF Start, exporting
<1>3. open[t] \in Seq(DOMAIN span) /\ open \in [Thread -> Seq(DOMAIN span)]
  BY DEF SInv, SpanTypes
<1>4. /\ run \in DOMAIN span \cup {Here}
      /\ \/ open[t] = <<>> /\ run = Here
         \/ run \in DOMAIN span /\ span[run].deferred
         \/ open[t] # <<>> /\ run = open[t][1]
  <2>1. CASE open[t] = <<>>
    BY <1>1, <2>1
  <2>2. CASE open[t] # <<>>
    <3>1. Last(open[t]) \in DOMAIN span /\ Len(open[t]) \in DOMAIN open[t]
      BY <1>3, <2>2, Fronting
    <3>2. run = span[open[t][Len(open[t])]].run
      BY <1>1, <2>2 DEF Last
    <3>3. run \in DOMAIN span
      BY <1>1, <2>2, <3>1 DEF SInv, SpanTypes
    <3> QED BY <2>2, <3>1, <3>2, <3>3 DEF SInv, Nested, UnderItsRoot
  <2> QED BY <2>1, <2>2
<1>5. /\ span' \in Seq(Spans) /\ DOMAIN span' = DOMAIN span \cup {Here}
      /\ Here \notin DOMAIN span /\ \A s \in DOMAIN span : span'[s] = span[s]
      /\ span'[Here].run = run
      /\ \A s \in DOMAIN span' : span'[s].run \in DOMAIN span'
      /\ Redacted'
  BY <1>1, <1>2, <1>4, SpanBegins
<1>6. /\ open'[t] = Append(open[t], Here)
      /\ \A u \in Thread \ {t} : open'[u] = open[u]
  BY <1>2, <1>3
<1>7. Seq(DOMAIN span) \subseteq Seq(DOMAIN span')
  BY <1>5, SeqMonotonic
<1>8. /\ open'[t] \in Seq(DOMAIN span') /\ n \notin DOMAIN open[t]
      /\ DOMAIN open'[t] = DOMAIN open[t] \cup {n}
      /\ \A i \in DOMAIN open[t] : open'[t][i] = open[t][i]
      /\ open'[t][n] = Here
  <2>1. open[t] \in Seq(DOMAIN span') /\ Here \in DOMAIN span'
    BY <1>3, <1>5, <1>7
  <2> HIDE DEF n
  <2>2. n = Len(open[t]) + 1
    BY DEF n
  <2> QED BY <1>6, <2>1, <2>2, Appending
<1> HIDE DEF n
<1>9. SpanTypes'
  <2>1. open' \in [Thread -> Seq(DOMAIN span')]
    BY <1>2, <1>3, <1>6, <1>7, <1>8
  <2>2. queue' \in Seq(DOMAIN span') /\ out' \in Seq(DOMAIN span')
    BY <1>2, <1>7 DEF SInv, SpanTypes
  <2> QED BY <1>5, <2>1, <2>2 DEF SpanTypes
<1>10. ASSUME NEW u \in Thread, NEW i \in DOMAIN open'[u]
       PROVE  \/ i \in DOMAIN open[u] /\ open'[u][i] = open[u][i]
              \/ u = t /\ i = n /\ open'[u][i] = Here
  BY <1>6, <1>8, <1>10
<1>11. OpenOnce'
  BY <1>5, <1>10, EndedAreSpans DEF SInv, Nested, OpenOnce
<1>12. StillOpen'
  BY <1>2, <1>5, <1>10, EndedAreSpans DEF SInv, Nested, StillOpen
<1>13. ASSUME NEW u \in Thread, NEW i \in DOMAIN open'[u]
       PROVE  span'[open'[u][i]].run = open'[u][1] \/ span'[span'[open'[u][i]].run].deferred
  <2>1. CASE i \in DOMAIN open[u] /\ open'[u][i] = open[u][i]
    <3>1. open[u][i] \in DOMAIN span /\ 1 \in DOMAIN open[u]
      BY <2>1, EndedAreSpans
    <3>2. open'[u][1] = open[u][1]
      BY <1>6, <1>8, <3>1
    <3>3. /\ span'[open'[u][i]].run = span[open[u][i]].run
          /\ span[open[u][i]].run \in DOMAIN span
      BY <1>5, <2>1, <3>1 DEF SInv, SpanTypes
    <3> QED BY <1>5, <2>1, <3>2, <3>3 DEF SInv, Nested, UnderItsRoot
  <2>2. CASE u = t /\ i = n /\ open'[u][i] = Here
    <3>1. span'[open'[u][i]].run = run
      BY <1>5, <2>2
    <3>2. CASE open[t] = <<>> /\ run = Here
      <4>1. n = 1
        BY <3>2 DEF n
      <4> QED BY <2>2, <3>1, <3>2, <4>1
    <3>3. CASE run \in DOMAIN span /\ span[run].deferred
      BY <1>5, <3>1, <3>3
    <3>4. CASE open[t] # <<>> /\ run = open[t][1]
      <4>1. 1 \in DOMAIN open[t]
        BY <1>3, <3>4, Fronting
      <4> QED BY <1>8, <2>2, <3>1, <3>4, <4>1
    <3> QED BY <1>4, <3>2, <3>3, <3>4
  <2> QED BY <1>10, <2>1, <2>2
<1>14. UnderItsRoot'
  BY <1>13 DEF UnderItsRoot
<1>15. Ordered'
  BY <1>2, <1>5, EndedAreSpans, OrderOfOldSpans DEF SInv, Nested, Ordered
<1> QED BY <1>5, <1>9, <1>11, <1>12, <1>14, <1>15 DEF SInv, Nested

\* A run that was left as it began ends at once: its root is a span that nobody waits for.
LEMMA StartDeferredSInv ==
  ASSUME GInv, SInv, NEW t \in Thread, StartDeferred(t)
  PROVE  SInv'
<1>1. /\ MayStart(t) /\ span' = Append(span, NewSpan(Here, TRUE)) /\ Ends(Here)
      /\ UNCHANGED <<out, open, past>>
  BY DEF StartDeferred
<1>2. /\ span' \in Seq(Spans) /\ DOMAIN span' = DOMAIN span \cup {Here}
      /\ Here \notin DOMAIN span /\ \A s \in DOMAIN span : span'[s] = span[s]
      /\ span'[Here].run = Here
      /\ \A s \in DOMAIN span' : span'[s].run \in DOMAIN span'
      /\ Redacted'
  BY <1>1, SpanBegins
<1>3. Seq(DOMAIN span) \subseteq Seq(DOMAIN span')
  BY <1>2, SeqMonotonic
<1>4. queue \in Seq(DOMAIN span) /\ queue \in Seq(DOMAIN span') /\ Here \in DOMAIN span'
  BY <1>2, <1>3 DEF SInv, SpanTypes
<1>5. queue' = queue \/ queue' = Append(queue, Here)
  BY <1>1 DEF Ends
<1>6. /\ queue' \in Seq(DOMAIN span')
      /\ \A p \in DOMAIN queue' :
           \/ p \in DOMAIN queue /\ queue'[p] = queue[p]
           \/ p = Len(queue) + 1 /\ queue'[p] = Here
      /\ \A p \in DOMAIN queue : p < Len(queue) + 1 /\ p \in Nat
  <2>1. /\ Append(queue, Here) \in Seq(DOMAIN span')
        /\ DOMAIN Append(queue, Here) = DOMAIN queue \cup {Len(queue) + 1}
        /\ \A p \in DOMAIN queue : Append(queue, Here)[p] = queue[p] /\ p < Len(queue) + 1
        /\ Append(queue, Here)[Len(queue) + 1] = Here
    BY <1>4, Appending
  <2>2. \A p \in DOMAIN queue : p \in Nat
    BY <1>4, LenProperties
  <2> QED BY <1>4, <1>5, <2>1, <2>2
<1>7. SpanTypes'
  BY <1>1, <1>2, <1>3, <1>6 DEF SInv, SpanTypes
<1>8. OpenOnce'
  BY <1>1 DEF SInv, Nested, OpenOnce
<1>9. StillOpen'
  BY <1>1, <1>2, <1>6, EndedAreSpans DEF SInv, Nested, StillOpen
<1>10. UnderItsRoot'
  <2>1. ASSUME NEW u \in Thread, NEW i \in DOMAIN open[u]
        PROVE  LET root == span'[open[u][i]].run
               IN  root = open[u][1] \/ span'[root].deferred
    <3>1. open[u][i] \in DOMAIN span
      BY EndedAreSpans
    <3>2. /\ span'[open[u][i]].run = span[open[u][i]].run
          /\ span[open[u][i]].run \in DOMAIN span
      BY <1>2, <3>1 DEF SInv, SpanTypes
    <3>3. span'[span[open[u][i]].run] = span[span[open[u][i]].run]
      BY <1>2, <3>2
    <3>4. span[open[u][i]].run = open[u][1] \/ span[span[open[u][i]].run].deferred
      BY DEF SInv, Nested, UnderItsRoot
    <3> QED BY <3>2, <3>3, <3>4
  <2> QED BY <1>1, <2>1 DEF UnderItsRoot
<1>12. ASSUME NEW p \in DOMAIN queue', NEW q \in DOMAIN queue', p < q
       PROVE  InOrder(queue[p], queue[q])'
  <2>1. p \in DOMAIN queue /\ queue'[p] = queue[p]
    BY <1>4, <1>6, <1>12, LenProperties
  <2>2. queue[p] \in DOMAIN span
    BY <2>1, EndedAreSpans
  <2>3. CASE q \in DOMAIN queue /\ queue'[q] = queue[q]
    <3>1. InOrder(queue[p], queue[q]) /\ queue[q] \in DOMAIN span
      BY <1>12, <2>1, <2>3, EndedAreSpans DEF SInv, Nested, Ordered
    <3> QED BY <1>2, <2>1, <2>2, <2>3, <3>1 DEF InOrder
  <2>4. CASE queue'[q] = Here
    BY <1>2, <2>1, <2>2, <2>4 DEF InOrder
  <2> QED BY <1>6, <2>3, <2>4
<1>13. ASSUME NEW p \in DOMAIN out, NEW q \in DOMAIN queue'
       PROVE  InOrder(out[p], queue[q])'
  <2>1. out[p] \in DOMAIN span
    BY EndedAreSpans
  <2>2. CASE q \in DOMAIN queue /\ queue'[q] = queue[q]
    <3>1. InOrder(out[p], queue[q]) /\ queue[q] \in DOMAIN span
      BY <2>2, EndedAreSpans DEF SInv, Nested, Ordered
    <3> QED BY <1>1, <1>2, <2>1, <2>2, <3>1 DEF InOrder
  <2>3. CASE queue'[q] = Here
    BY <1>1, <1>2, <2>1, <2>3 DEF InOrder
  <2> QED BY <1>6, <2>2, <2>3
<1>14. ASSUME NEW p \in DOMAIN out, NEW q \in DOMAIN out, p < q
       PROVE  InOrder(out[p], out[q])'
  <2>1. InOrder(out[p], out[q]) /\ out[p] \in DOMAIN span /\ out[q] \in DOMAIN span
    BY <1>14, EndedAreSpans DEF SInv, Nested, Ordered
  <2> QED BY <1>1, <1>2, <2>1 DEF InOrder
<1>15. Ordered'
  BY <1>1, <1>12, <1>13, <1>14 DEF Ordered
<1> QED BY <1>2, <1>7, <1>8, <1>9, <1>10, <1>15 DEF SInv, Nested

\* The innermost span ends: the root of its run is still open, so nothing of the run ends
\* after the root.
LEMMA EndSInv ==
  ASSUME SInv, NEW t \in Thread, End(t)
  PROVE  SInv'
<1> DEFINE s == Last(open[t])
<1>1. /\ open[t] # <<>> /\ Ends(s) /\ open' = [open EXCEPT ![t] = Front(@)]
      /\ UNCHANGED <<out, span, past>>
  BY DEF End
<1>2. /\ open[t] \in Seq(DOMAIN span) /\ open \in [Thread -> Seq(DOMAIN span)]
      /\ queue \in Seq(DOMAIN span)
  BY DEF SInv, SpanTypes
<1>3. /\ open'[t] = Front(open[t])
      /\ \A u \in Thread \ {t} : open'[u] = open[u]
  BY <1>1, <1>2
<1>4. /\ Front(open[t]) \in Seq(DOMAIN span) /\ s \in DOMAIN span
      /\ Len(open[t]) \in DOMAIN open[t] /\ s = open[t][Len(open[t])]
      /\ DOMAIN open'[t] = DOMAIN open[t] \ {Len(open[t])}
      /\ \A i \in DOMAIN open'[t] : open'[t][i] = open[t][i] /\ 1 \in DOMAIN open'[t]
  <2>1. /\ Front(open[t]) \in Seq(DOMAIN span) /\ Last(open[t]) \in DOMAIN span
        /\ Len(open[t]) \in DOMAIN open[t] /\ Last(open[t]) = open[t][Len(open[t])]
        /\ DOMAIN Front(open[t]) = DOMAIN open[t] \ {Len(open[t])}
        /\ \A i \in DOMAIN Front(open[t]) : Front(open[t])[i] = open[t][i]
    BY <1>1, <1>2, Fronting DEF Last
  <2>2. \A i \in DOMAIN Front(open[t]) : 1 \in DOMAIN Front(open[t])
    BY <2>1, LenProperties
  <2> QED BY <1>3, <2>1, <2>2
<1> HIDE DEF s
<1>5. \A u \in Thread : \A i \in DOMAIN open'[u] :
        /\ i \in DOMAIN open[u] /\ open'[u][i] = open[u][i] /\ open'[u][1] = open[u][1]
        /\ open[u][i] # s
  BY <1>3, <1>4 DEF SInv, Nested, OpenOnce
<1>6. queue' = queue \/ queue' = Append(queue, s)
  BY <1>1 DEF Ends
<1>7. /\ queue' \in Seq(DOMAIN span)
      /\ \A p \in DOMAIN queue' :
           \/ p \in DOMAIN queue /\ queue'[p] = queue[p]
           \/ p = Len(queue) + 1 /\ queue'[p] = s
      /\ \A p \in DOMAIN queue : p < Len(queue) + 1 /\ p \in Nat
  <2>1. /\ Append(queue, s) \in Seq(DOMAIN span)
        /\ DOMAIN Append(queue, s) = DOMAIN queue \cup {Len(queue) + 1}
        /\ \A p \in DOMAIN queue : Append(queue, s)[p] = queue[p] /\ p < Len(queue) + 1
        /\ Append(queue, s)[Len(queue) + 1] = s
    BY <1>2, <1>4, Appending
  <2>2. \A p \in DOMAIN queue : p \in Nat
    BY <1>2, LenProperties
  <2> QED BY <1>2, <1>6, <2>1, <2>2
<1>8. SpanTypes'
  <2>1. open' \in [Thread -> Seq(DOMAIN span)]
    BY <1>1, <1>2, <1>3, <1>4
  <2> QED BY <1>1, <1>7, <2>1 DEF SInv, SpanTypes
<1>9. OpenOnce'
  BY <1>5 DEF SInv, Nested, OpenOnce
<1>10. StillOpen'
  BY <1>1, <1>5, <1>7 DEF SInv, Nested, StillOpen
<1>11. UnderItsRoot'
  BY <1>1, <1>5 DEF SInv, Nested, UnderItsRoot
<1>12. ASSUME NEW x, (\E p \in DOMAIN queue : x = queue[p]) \/ (\E p \in DOMAIN out : x = out[p])
       PROVE  InOrder(x, s)
  <2>1. span[s].run = open[t][1] \/ span[span[s].run].deferred
    BY <1>4 DEF SInv, Nested, UnderItsRoot
  <2>2. 1 \in DOMAIN open[t]
    BY <1>4, EndedAreSpans
  <2>3. x # open[t][1]
    BY <1>12, <2>2 DEF SInv, Nested, StillOpen
  <2> QED BY <2>1, <2>3 DEF InOrder
<1>13. ASSUME NEW p \in DOMAIN queue', NEW q \in DOMAIN queue', p < q
       PROVE  InOrder(queue'[p], queue'[q])
  <2>1. p \in DOMAIN queue /\ queue'[p] = queue[p]
    BY <1>2, <1>7, <1>13, LenProperties
  <2>2. CASE q \in DOMAIN queue /\ queue'[q] = queue[q]
    BY <1>13, <2>1, <2>2 DEF SInv, Nested, Ordered
  <2>3. CASE queue'[q] = s
    BY <1>12, <2>1, <2>3
  <2> QED BY <1>7, <2>2, <2>3
<1>14. ASSUME NEW p \in DOMAIN out, NEW q \in DOMAIN queue'
       PROVE  InOrder(out[p], queue'[q])
  <2>1. CASE q \in DOMAIN queue /\ queue'[q] = queue[q]
    BY <2>1 DEF SInv, Nested, Ordered
  <2>2. CASE queue'[q] = s
    BY <1>12, <2>2
  <2> QED BY <1>7, <2>1, <2>2
<1>15. Ordered'
  BY <1>1, <1>13, <1>14 DEF SInv, Nested, Ordered, InOrder
<1>16. Redacted'
  BY <1>1 DEF SInv, Redacted
<1> QED BY <1>8, <1>9, <1>10, <1>11, <1>15, <1>16 DEF SInv, Nested

\* Every step keeps the spans and what was exported in order.
LEMMA NextSInv == PInv /\ GInv /\ SInv /\ [Next]_vars => SInv'
<1> SUFFICES ASSUME PInv, GInv, SInv, [Next]_vars PROVE SInv'
  OBVIOUS
<1>1. CASE Flush
  BY <1>1, ExportSInv DEF Flush
<1>2. ASSUME NEW t \in Thread, NEW c \in Config, Configure(t, c) PROVE SInv'
  <2>1. /\ past'.asked = past.asked \cup {c} /\ past'.early = past.early
        /\ UNCHANGED <<open, span, queue, out>>
    BY <1>2 DEF Configure, exporting, PInv, Shape
  <2> QED BY <2>1, SpansLeftAlone
<1>3. ASSUME NEW t \in Thread,
             InConfigure(t) \/ Shutdown(t) \/ Clear(t)
      PROVE  SInv'
  <2>1. UNCHANGED <<open, span, queue, out>>
    BY <1>3 DEF InConfigure, TracerOrInit, SetDefaults, NewProvider, Install, FetchTracer,
                Shutdown, Clear, exporting
  <2>2. past'.asked = past.asked /\ (past.early => past'.early)
    BY <1>3 DEF InConfigure, TracerOrInit, SetDefaults, NewProvider, Install, FetchTracer,
                Shutdown, Clear, PInv, Shape
  <2> QED BY <2>1, <2>2, SpansLeftAlone
<1>4. ASSUME NEW t \in Thread, Drain(t) PROVE SInv'
  <2>1. UNCHANGED <<open, span, past>> /\ (Export \/ UNCHANGED <<queue, out>>)
    BY <1>4 DEF Drain
  <2> QED BY <2>1, ExportSInv, SpansLeftAlone
<1>5. CASE UNCHANGED vars
  BY <1>5, SpansLeftAlone DEF vars, exporting
<1> QED BY <1>1, <1>2, <1>3, <1>4, <1>5, StartSInv, StartDeferredSInv, EndSInv
        DEF Next, InShutdown

\* Every variable stays in its domain, and a tracer is the process's provider's, for any
\* number of threads and calls.
THEOREM TypeCorrect == Spec => []TypeOK
<1>1. PInv /\ GInv /\ SInv => TypeOK
  BY DEF PInv, Shape, GInv, Fetched, SInv, SpanTypes, TypeOK
<1> QED BY <1>1, InitPInv, NextPInv, InitGInv, NextGInv, InitSInv, NextSInv, PTL DEF Spec

\* Once a `configure' has returned before the first span, every span is redacted as some
\* call asked, whatever threads configure, shut down and open spans afterwards
\* (redaction.py:3, _otel.py:27-75).
THEOREM SettingsAreKept == Spec => []RedactsAsConfigured
<1>1. SInv => RedactsAsConfigured
  BY DEF SInv, Redacted, RedactsAsConfigured
<1> QED BY <1>1, InitPInv, NextPInv, InitGInv, NextGInv, InitSInv, NextSInv, PTL DEF Spec

\* The exporter gets a root after all other spans of its run, whatever was flushed, drained
\* or lost in between, unless the wrapper let it end when the run had just begun
\* (instrument.py:46).
THEOREM RootsComeLast == Spec => []RootIsLast
<1>1. SInv => RootIsLast
  BY DEF SInv, Nested, Ordered, InOrder, RootIsLast
<1> QED BY <1>1, InitPInv, NextPInv, InitGInv, NextGInv, InitSInv, NextSInv, PTL DEF Spec

================================================================================
