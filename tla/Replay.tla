--------------------------------- MODULE Replay ---------------------------------
(***************************************************************************)
(* Branch and replay (tools/ref_replay/engine.py).  An agent makes model   *)
(* and tool calls; which call comes next depends on the answers so far.    *)
(* Its spans reach the server in batches, in the order of the calls, with  *)
(* the root span last.  A branch request reads a stored trace under the    *)
(* server's lock, writes a manifest of recorded answers with one edited,   *)
(* and runs the agent again in a process that exports to the same server.  *)
(***************************************************************************)
EXTENDS Naturals, Sequences

CONSTANTS
  Original, Request,  \* runs a user starts; branch requests, which name their runs
  Llm, Tool,          \* structural prompt hashes; tool names
  Value,              \* answers
  Ask(_),             \* the agent: its next call, given the answers so far, or Stop
  Said,               \* the last assistant message in a prompt's own history, or None
  Careless,           \* bound: the requests whose parts may not belong together
  MaxFaults,          \* bound: lost batches, raising models and agents, deaths
  Stop, Raised, None  \* Raised: the call raised, no answer is recorded

Run == Original \cup Request

ASSUME ReplayAssumption ==
  /\ Original \cap Request = {} /\ Llm \cap Tool = {}
  /\ {Raised, None} \cap Value = {} /\ Raised # None
  /\ Stop \notin Llm \cup Tool /\ Said \in [Llm -> Value \cup {None}]
  /\ Careless \subseteq Request /\ MaxFaults \in Nat

VARIABLES
  run,       \* the processes that run the agent
  stored,    \* which calls of each run the server has, and whether its root
  cache,     \* llm_cache
  lock,      \* the server's lock: who holds it
  branch,    \* the branch requests
  lossy,     \* the runs that lost a batch
  faults

vars == <<run, stored, cache, lock, branch, lossy, faults>>

CallMade == [key : Llm \cup Tool, value : Value \cup {Raised}]

TypeOK ==
  /\ run \in [Run ->
       [at : {"none", "running", "flushing", "raised", "exited", "failed", "killed"},
        made : Seq(CallMade), sent : Nat]]
  /\ \A i \in Run : run[i].sent <= Len(run[i].made)
  /\ stored \in [Run -> [calls : SUBSET (Nat \ {0}), root : BOOLEAN]]
  /\ cache \in [Llm -> Value \cup {None}]
  /\ lock \in Request \cup {None}
  /\ branch \in [Request ->
       [at : {"none", "lock", "read", "spawn", "wait", "ok", "failed", "error", "timeout"},
        source : Run \cup {None}, of : Run \cup {None}, edit : Nat, value : Value \cup {None},
        llm : [Llm -> Value \cup {None}], tools : [Tool -> Value \cup {None}]]]
  /\ lossy \subseteq Run /\ faults \in 0..MaxFaults

Unused(X) == [x \in X |-> None]

Init ==
  /\ run = [i \in Run |-> [at |-> "none", made |-> <<>>, sent |-> 0]]
  /\ stored = [i \in Run |-> [calls |-> {}, root |-> FALSE]]
  /\ cache = Unused(Llm)
  /\ lock = None
  /\ branch = [q \in Request |->
       [at |-> "none", source |-> None, of |-> None, edit |-> 0, value |-> None,
        llm |-> Unused(Llm), tools |-> Unused(Tool)]]
  /\ lossy = {} /\ faults = 0

-----------------------------------------------------------------------------
(* The agent *)

Answers(made) == [n \in 1..Len(made) |-> made[n].value]
NextCall(i)   == Ask(Answers(run[i].made))

\* What the manifest pins for a call; a run that is no replay has no manifest.
Pinned(i, key) ==
  IF i \in Original THEN None
  ELSE IF key \in Llm THEN branch[i].llm[key] ELSE branch[i].tools[key]

\* llm and call_tool: the pinned answer, else a real call.
MayAnswer(i, key) ==
  IF Pinned(i, key) # None THEN {Pinned(i, key)}
  ELSE Value \cup {Raised}

Start(i) ==
  /\ i \in Original /\ run[i].at = "none"
  /\ run' = [run EXCEPT ![i].at = "running"]
  /\ UNCHANGED <<stored, cache, lock, branch, lossy, faults>>

Fault == faults < MaxFaults /\ faults' = faults + 1

MakeCall(i) == LET key == NextCall(i) IN
  /\ run[i].at = "running" /\ key \in Llm \cup Tool
  /\ \E v \in MayAnswer(i, key) :
       /\ run' = [run EXCEPT ![i].made = Append(@, [key |-> key, value |-> v])]
       /\ IF v = Raised /\ key \in Llm THEN Fault ELSE UNCHANGED faults
  /\ UNCHANGED <<stored, cache, lock, branch, lossy>>

\* The root span ends; shutdown() flushes what is left before the process exits.
Finish(i) ==
  /\ run[i].at = "running" /\ NextCall(i) = Stop
  /\ run' = [run EXCEPT ![i].at = "flushing"]
  /\ UNCHANGED <<stored, cache, lock, branch, lossy, faults>>

\* The agent raises: the root span ends, and what is left is flushed as Python exits.
Raise(i) ==
  /\ run[i].at = "running" /\ Fault
  /\ run' = [run EXCEPT ![i].at = "raised"]
  /\ UNCHANGED <<stored, cache, lock, branch, lossy>>

\* The process dies with what it has not sent.
Die(i) ==
  /\ run[i].at \in {"running", "flushing", "raised"} /\ Fault
  /\ run' = [run EXCEPT ![i].at = "killed"]
  /\ UNCHANGED <<stored, cache, lock, branch, lossy>>

-----------------------------------------------------------------------------
(* Export: a batch has every call made and not sent yet.  Bound: one batch before *)
(* the last.                                                                      *)

Unsent(i) == (run[i].sent + 1)..Len(run[i].made)
EarlyBatch(i) == run[i].sent = 0 /\ Unsent(i) # {}
LastBatch(i)  == run[i].at \in {"flushing", "raised"}
HasBatch(i)   == (run[i].at = "running" /\ EarlyBatch(i)) \/ LastBatch(i)

\* The process exits when its last batch is sent, with the exit status of its agent.
AfterBatch(at) == IF at = "flushing" THEN "exited" ELSE IF at = "raised" THEN "failed" ELSE at

\* Mutant: counts the root among the calls.
SendBatchAndOne(i) ==
  run' = [run EXCEPT ![i].sent = Len(run[i].made) + 1,
                     ![i].at = AfterBatch(@)]

SendBatch(i) ==
  run' = [run EXCEPT ![i].sent = Len(run[i].made),
                     ![i].at = AfterBatch(@)]

\* The last unsent answer with this prompt hash is what the cache keeps.
Cached(i, h) ==
  LET answers == {n \in Unsent(i) : run[i].made[n].key = h /\ run[i].made[n].value # Raised}
  IN  IF answers = {} THEN cache[h]
      ELSE run[i].made[CHOOSE n \in answers : \A k \in answers : k <= n].value

\* The server stores the batch under its lock, see TraceIngest.
Export(i) ==
  /\ HasBatch(i) /\ lock = None
  /\ SendBatch(i)
  /\ stored' = [stored EXCEPT ![i].calls = @ \cup Unsent(i),
                              ![i].root = @ \/ LastBatch(i)]
  /\ cache' = [h \in Llm |-> Cached(i, h)]
  /\ UNCHANGED <<lock, branch, lossy, faults>>

\* The exporter gives up on a batch.
LoseBatch(i) ==
  /\ HasBatch(i) /\ Fault
  /\ SendBatch(i)
  /\ lossy' = lossy \cup {i}
  /\ UNCHANGED <<stored, cache, lock, branch>>

-----------------------------------------------------------------------------
(* The branch request *)

IsTool(i, n) == n \in stored[i].calls /\ run[i].made[n].key \in Tool

\* A trace, a stored span and a changed answer; None stands for a mutation of another
\* type.  Bounds: the answer differs from the span's, and a mutation of another type
\* is right in all else.
AskBranch(q) == \E i, j \in Run, v \in Value \cup {None} : \E n \in stored[j].calls :
  /\ branch[q].at = "none" /\ v # run[j].made[n].value
  /\ q \in Careless \/ (i = j /\ IsTool(j, n) /\ v # None)
  /\ v = None => i = j /\ IsTool(j, n)
  /\ branch' = [branch EXCEPT ![q].at = "lock", ![q].source = i, ![q].of = j,
                              ![q].edit = n, ![q].value = v]
  /\ UNCHANGED <<run, stored, cache, lock, lossy, faults>>

TakeLock(q) ==
  /\ branch[q].at = "lock" /\ lock = None
  /\ lock' = q
  /\ branch' = [branch EXCEPT ![q].at = "read"]
  /\ UNCHANGED <<run, stored, cache, lossy, faults>>

\* The answers by prompt hash; of a prompt nobody answered, what it said itself.
RecordedLlm(i) ==
  [h \in Llm |->
    IF \A n \in stored[i].calls : run[i].made[n].key # h THEN None
    ELSE IF cache[h] # None THEN cache[h] ELSE Said[h]]
\* The answers by tool name: of two calls of a tool the later.
RecordedTools(i) ==
  [t \in Tool |->
    LET calls == {n \in stored[i].calls :
                    run[i].made[n].key = t /\ run[i].made[n].value # Raised}
    IN  IF calls = {} THEN None
        ELSE run[i].made[CHOOSE n \in calls : \A k \in calls : k <= n].value]

EditedCall(q) == run[branch[q].of].made[branch[q].edit]

\* Mutant: what is recorded goes over the edit.
EditedFirst(q, tools) ==
  LET t == EditedCall(q).key
  IN  [tools EXCEPT ![t] = IF @ = None THEN branch[q].value ELSE @]

\* The edit goes in last, under its tool's name.
Edited(q, tools) ==
  [tools EXCEPT ![EditedCall(q).key] = branch[q].value]

\* Mutant: the entry point is taken from any span.
CanReplaySoon(q) ==
  /\ stored[branch[q].source].calls # {}
  /\ branch[q].value # None /\ IsTool(branch[q].of, branch[q].edit)

\* Only a root span has the entry point; the edit must be of a tool call, of any trace.
CanReplay(q) ==
  /\ stored[branch[q].source].root
  /\ branch[q].value # None /\ IsTool(branch[q].of, branch[q].edit)

\* _build_manifest, which raises if it cannot
ReadTrace(q) ==
  LET i == branch[q].source
  IN  /\ branch[q].at = "read"
      /\ lock' = None
      /\ IF CanReplay(q)
           THEN branch' = [branch EXCEPT ![q].at = "spawn", ![q].llm = RecordedLlm(i),
                                         ![q].tools = Edited(q, RecordedTools(i))]
           ELSE branch' = [branch EXCEPT ![q].at = "error"]
      /\ UNCHANGED <<run, stored, cache, lossy, faults>>

\* subprocess.run, with the lock released
Spawn(q) ==
  /\ branch[q].at = "spawn"
  /\ run' = [run EXCEPT ![q].at = "running"]
  /\ branch' = [branch EXCEPT ![q].at = "wait"]
  /\ UNCHANGED <<stored, cache, lock, lossy, faults>>

\* Mutants: does not wait for the process to exit; waits for the new trace to show up.
ReapAtOnce(q) ==
  /\ branch[q].at = "wait" /\ run[q].at \in {"flushing", "exited"}
  /\ branch' = [branch EXCEPT ![q].at = "ok"]
  /\ UNCHANGED <<run, stored, cache, lock, lossy, faults>>

ReapWhenStored(q) ==
  /\ branch[q].at = "wait" /\ run[q].at = "exited" /\ stored[q].root
  /\ branch' = [branch EXCEPT ![q].at = "ok"]
  /\ UNCHANGED <<run, stored, cache, lock, lossy, faults>>

Over(i) == run[i].at \in {"exited", "failed", "killed"}

\* The process is over: the summary is returned, with ok for an exit status of 0.
Reap(q) ==
  /\ branch[q].at = "wait" /\ Over(q)
  /\ branch' = [branch EXCEPT ![q].at = IF run[q].at = "exited" THEN "ok" ELSE "failed"]
  /\ UNCHANGED <<run, stored, cache, lock, lossy, faults>>

\* timeout=60: the process is killed with what it has not sent.
TimeOut(q) ==
  /\ branch[q].at = "wait" /\ ~ Over(q) /\ Fault
  /\ run' = [run EXCEPT ![q].at = "killed"]
  /\ branch' = [branch EXCEPT ![q].at = "timeout"]
  /\ UNCHANGED <<stored, cache, lock, lossy>>

Answered(q) == branch[q].at \in {"ok", "failed", "error", "timeout"}
Progress(i) == MakeCall(i) \/ Finish(i) \/ Export(i)
Handle(q)   == TakeLock(q) \/ ReadTrace(q) \/ Spawn(q) \/ Reap(q)

\* No agent is under way.
AllQuiet == (\A i \in Run : run[i].at = "none" \/ Over(i)) /\ UNCHANGED vars

Next ==
  \/ \E i \in Run : Start(i) \/ Progress(i) \/ LoseBatch(i) \/ Raise(i) \/ Die(i)
  \/ \E q \in Request : AskBranch(q) \/ Handle(q) \/ TimeOut(q)
  \/ AllQuiet

Spec == Init /\ [][Next]_vars
\* Processes run on, handler threads too, and the lock is given to who waits.
FairSpec == /\ Spec
            /\ \A i \in Run : WF_vars(Progress(i))
            /\ \A q \in Request : WF_vars(Handle(q))

-----------------------------------------------------------------------------
(* Properties *)

Source(q) == run[branch[q].source].made

\* The edit is of a call of the source, which is recorded up to there; its tools so far
\* were called once and did not raise, and its prompts were answered and not otherwise
\* by another run meanwhile.
Reliable(q) ==
  LET s == Source(q)  known == stored[branch[q].source].calls
  IN  /\ branch[q].of = branch[q].source
      /\ \A n \in 1..branch[q].edit :
           /\ n \in known
           /\ s[n].key \in Tool =>
                /\ s[n].value # Raised
                /\ \A k \in known : s[k].key = s[n].key => k = n
           /\ s[n].key \in Llm => branch[q].llm[s[n].key] = s[n].value

\* What a replay does at its source's n-th call.
Expected(q, n) ==
  IF n = branch[q].edit THEN [Source(q)[n] EXCEPT !.value = branch[q].value] ELSE Source(q)[n]

\* A replay of a reliable source takes its road up to the edit, and gets the edited
\* answer there (engine.py:45-71, agent.py:44-58).
FollowsSourceToTheEdit == \A q \in Request :
  branch[q].at \in {"wait", "ok", "failed"} /\ Reliable(q)
    => \A n \in (1..branch[q].edit) \cap (1..Len(run[q].made)) :
         run[q].made[n] = Expected(q, n)

\* No replay runs from a trace that is still arriving: its source is over and, unless
\* a batch of it was given up, every call it made was there for the manifest
\* (engine.py:24-45, _otel.py:78-85).
SourceIsWhole == \A q \in Request : run[q].at # "none" =>
  LET i == branch[q].source
  IN  /\ run[i].at \in {"exited", "failed"}
      /\ i \notin lossy => stored[i].calls = 1..Len(run[i].made)

\* A replay that is reported as done has its whole trace on the server, unless the
\* exporter gave a batch up (engine.py:102-122, _otel.py:78-85).
DoneMeansStored == \A q \in Request :
  branch[q].at = "ok" /\ q \notin lossy
    => stored[q].root /\ stored[q].calls = 1..Len(run[q].made)

\* A request is answered without the 60 seconds running out, though its process
\* needs the lock the handler took: "Holding it across the subprocess would
\* deadlock" (engine.py:3-6).
BranchIsAnswered == \A q \in Request : branch[q].at # "none" ~> Answered(q)

\* "Replayed tools return the recorded response unless the user explicitly mutated
\* it" (docs/replay.md:24-25): as long as the replay is where its source was.
RecordedToolsReplayed == \A q \in Request :
  branch[q].at \in {"wait", "ok"} /\ branch[q].of = branch[q].source =>
    LET s == Source(q)  m == run[q].made
    IN  \A n \in (stored[branch[q].source].calls \cap (1..Len(m))) \ {branch[q].edit} :
          /\ s[n].key \in Tool /\ s[n].value # Raised
          /\ \A k \in 1..(n - 1) : m[k] = s[k]
          => m[n] = s[n]
================================================================================
