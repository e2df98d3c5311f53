------------------------------ MODULE ReplayProofs ------------------------------
(***************************************************************************)
(* Branch and replay, for every agent and any number of runs and requests: *)
(* a replay's source is whole, a replay that is done has its trace on the    *)
(* the server, and it takes its source's road up to the edit.              *)
(***************************************************************************)
EXTENDS Replay, TLAPS, WellFoundedInduction

\* The agent decides by the answers it got.
Taken(made) == \A n \in 1..Len(made) :
  made[n].key = Ask([k \in 1..(n - 1) |-> made[k].value])

Roads == \A i \in Run : Taken(run[i].made) /\ (run[i].at = "none" => run[i].made = <<>>)

\* The process came to its end by itself.
Ended(at) == at \in {"exited", "failed"}

\* What the server has of a run, and that a root comes when all is over.
Exported == \A i \in Run :
  /\ stored[i].calls \subseteq 1..run[i].sent
  /\ i \notin lossy => stored[i].calls = 1..run[i].sent
  /\ Ended(run[i].at) => /\ run[i].sent = Len(run[i].made)
                         /\ i \notin lossy => stored[i].root
  /\ stored[i].root => Ended(run[i].at)

\* The process of a request lives while its handler waits.
Life == \A q \in Request :
  /\ branch[q].at \in {"none", "lock", "read", "spawn", "error"} => run[q].at = "none"
  /\ branch[q].at = "ok" => run[q].at = "exited"
  /\ branch[q].at = "timeout" => run[q].at = "killed"

Asked == \A q \in Request : branch[q].at # "none" =>
  /\ branch[q].source \in Run /\ branch[q].of \in Run
  /\ branch[q].edit \in stored[branch[q].of].calls

\* A manifest was made of a source with its root, edits a call of a tool, and says of
\* tools what is stored.
HasManifest(q) == branch[q].at \in {"spawn", "wait", "ok", "failed", "timeout"}
Manifested == \A q \in Request : HasManifest(q) =>
  /\ stored[branch[q].source].root
  /\ EditedCall(q).key \in Tool /\ branch[q].value \in Value
  /\ branch[q].tools = Edited(q, RecordedTools(branch[q].source))

RInv == TypeOK /\ Roads /\ Exported /\ Life /\ Asked /\ Manifested

-----------------------------------------------------------------------------
\* A set of places in a list has a last one.
LEMMA LastOf ==
  ASSUME NEW m \in Nat, NEW S \in SUBSET (1..m), S # {}
  PROVE  (CHOOSE n \in S : \A k \in S : k <= n) \in S
<1> DEFINE below == OpToRel(<, Nat)
           T == {m - n : n \in S}
<1>1. \A n \in S : n \in 1..m /\ m - n \in Nat
  OBVIOUS
<1>2. T \subseteq Nat /\ T # {}
  BY <1>1
<1>3. PICK x \in T : \A y \in T : ~ (<<y, x>> \in below)
  <2> HIDE DEF T, below
  <2> QED BY <1>2, NatLessThanWellFounded, WFMin DEF below
<1>4. \A y \in T : ~(y < x)
  BY <1>2, <1>3 DEF OpToRel
<1>5. PICK n \in S : x = m - n
  OBVIOUS
<1>6. \A k \in S : m - k \in T /\ k \in Int /\ n \in Int
  OBVIOUS
<1> HIDE DEF T
<1>7. \A k \in S : k <= n
  BY <1>4, <1>5, <1>6
<1> QED BY <1>7

\* The records of a run and of a request.
RunRec == [at : {"none", "running", "flushing", "raised", "exited", "failed", "killed"},
           made : Seq(CallMade), sent : Nat]
BranchRec ==
  [at : {"none", "lock", "read", "spawn", "wait", "ok", "failed", "error", "timeout"},
   source : Run \cup {None}, of : Run \cup {None}, edit : Nat, value : Value \cup {None},
   llm : [Llm -> Value \cup {None}], tools : [Tool -> Value \cup {None}]]

\* The fields of a run and of a request.
LEMMA Fields ==
  ASSUME TypeOK
  PROVE  /\ run \in [Run -> RunRec] /\ branch \in [Request -> BranchRec]
         /\ \A i \in Run : /\ run[i] \in RunRec /\ Len(run[i].made) \in Nat
                           /\ run[i].sent \in Nat /\ run[i].sent <= Len(run[i].made)
         /\ \A q \in Request : branch[q] \in BranchRec /\ q \in Run
BY DEF TypeOK, RunRec, BranchRec, Run

\* Nothing recorded is taken back, and a run with a root is over.
Grows == \A i \in Run :
  /\ stored[i].calls \subseteq stored'[i].calls
  /\ \A n \in 1..Len(run[i].made) :
       n \in 1..Len(run'[i].made) /\ run'[i].made[n] = run[i].made[n]
Frozen == \A i \in Run : stored[i].root =>
  stored'[i] = stored[i] /\ run'[i].made = run[i].made

\* A step of one process that neither sends nor exits.
LEMMA RunStep ==
  ASSUME RInv, NEW i \in Run, NEW x \in RunRec,
         run' = [run EXCEPT ![i] = x], stored' = stored, lossy' = lossy,
         ~ Ended(run[i].at), ~ Ended(x.at), x.at # "none", x.sent = run[i].sent,
         Len(x.made) >= Len(run[i].made), Taken(x.made),
         \A n \in 1..Len(run[i].made) : x.made[n] = run[i].made[n]
  PROVE  /\ run' \in [Run -> RunRec] /\ \A j \in Run : run'[j].sent <= Len(run'[j].made)
         /\ Roads' /\ Exported' /\ Grows /\ Frozen
<1>1. /\ run \in [Run -> RunRec] /\ run[i] \in RunRec
      /\ Len(run[i].made) \in Nat /\ Len(x.made) \in Nat
      /\ \A j \in Run : Len(run[j].made) \in Nat /\ run[j].sent <= Len(run[j].made)
  BY Fields DEF RInv, RunRec
<1>2. run'[i] = x /\ \A j \in Run : j # i => run'[j] = run[j]
  BY <1>1
<1>3. run' \in [Run -> RunRec] /\ \A j \in Run : run'[j].sent <= Len(run'[j].made)
  BY <1>1, <1>2 DEF RunRec
<1>4. Roads'
  BY <1>2 DEF RInv, Roads, Taken
<1>5. Exported'
  BY <1>2 DEF RInv, Exported
<1>6. Grows
  BY <1>1, <1>2 DEF Grows
<1>7. Frozen
  BY <1>2 DEF Frozen, RInv, Exported
<1> QED BY <1>3, <1>4, <1>5, <1>6, <1>7

\* A request that asks and has in its manifest what it did.
SameRequest(q) ==
  /\ branch'[q].source = branch[q].source /\ branch'[q].of = branch[q].of
  /\ branch'[q].edit = branch[q].edit
  /\ branch'[q].value = branch[q].value /\ branch'[q].tools = branch[q].tools
  /\ branch'[q].llm = branch[q].llm
  /\ branch[q].at = "none" => branch'[q].at = "none"
  /\ HasManifest(q)' => HasManifest(q)

\* What is recorded of a run that does not change.
LEMMA SameTools ==
  ASSUME NEW j \in Run, stored'[j] = stored[j], run'[j].made = run[j].made
  PROVE  RecordedTools(j)' = RecordedTools(j)
<1> DEFINE Calls(t) == {n \in stored[j].calls :
                          run[j].made[n].key = t /\ run[j].made[n].value # Raised}
           Pick(S, made) == IF S = {} THEN None
                            ELSE made[CHOOSE n \in S : \A k \in S : k <= n].value
<1>1. \A t \in Tool : Calls(t)' = Calls(t)
  OBVIOUS
<1>2. \A t \in Tool : Pick(Calls(t)', run'[j].made) = Pick(Calls(t), run[j].made)
  <2> HIDE DEF Calls, Pick
  <2> QED BY <1>1
<1>3. RecordedTools(j) = [t \in Tool |-> Pick(Calls(t), run[j].made)]
  BY DEF RecordedTools
<1>4. RecordedTools(j)' = [t \in Tool |-> Pick(Calls(t)', run'[j].made)]
  BY DEF RecordedTools
<1> HIDE DEF Calls, Pick
<1> QED BY <1>2, <1>3, <1>4

\* What a request's step leaves true of it.
Kept(q) ==
  /\ branch'[q].source \in Run /\ branch'[q].of \in Run
  /\ branch'[q].edit \in stored'[branch'[q].of].calls
  /\ HasManifest(q)' =>
       /\ stored'[branch'[q].source].root
       /\ (EditedCall(q)').key \in Tool /\ branch'[q].value \in Value
       /\ branch'[q].tools = Edited(q, RecordedTools(branch[q].source))'

\* What a manifest says of its source stays true of it.
LEMMA RequestKept ==
  ASSUME RInv, Grows, Frozen, NEW q \in Request, SameRequest(q), branch'[q].at # "none"
  PROVE  Kept(q)
<1> DEFINE i == branch[q].source  j == branch[q].of
<1>1. i \in Run /\ j \in Run /\ branch[q].edit \in stored[j].calls
  BY DEF RInv, Asked, SameRequest
<1>2. branch[q].edit \in 1..Len(run[j].made)
  BY <1>1, Fields DEF RInv, Exported
<1>3. run'[j].made[branch[q].edit] = run[j].made[branch[q].edit]
      /\ branch[q].edit \in stored'[j].calls
  BY <1>1, <1>2 DEF Grows
<1>4. ASSUME HasManifest(q)'
      PROVE  /\ stored'[i].root
             /\ (EditedCall(q)').key \in Tool /\ branch'[q].value \in Value
             /\ branch'[q].tools = Edited(q, RecordedTools(branch[q].source))'
  <2>1. /\ stored[i].root /\ branch[q].tools = Edited(q, RecordedTools(i))
        /\ EditedCall(q).key \in Tool /\ branch[q].value \in Value
    BY <1>4 DEF RInv, Manifested, SameRequest
  <2>2. stored'[i] = stored[i] /\ run'[i].made = run[i].made
    BY <1>1, <2>1 DEF Frozen
  <2>3. branch'[q].source = i /\ branch'[q].of = j /\ branch'[q].edit = branch[q].edit
        /\ branch'[q].value = branch[q].value /\ branch'[q].tools = branch[q].tools
    BY DEF SameRequest
  <2>4. RecordedTools(branch[q].source)' = RecordedTools(i)
    BY <1>1, <2>2, <2>3, SameTools
  <2>5. EditedCall(q)' = EditedCall(q)
    BY <1>3, <2>3 DEF EditedCall
  <2>6. Edited(q, RecordedTools(branch[q].source))' = Edited(q, RecordedTools(i))
    BY <2>3, <2>4, <2>5 DEF Edited
  <2> QED BY <2>1, <2>2, <2>3, <2>5, <2>6
<1> QED BY <1>1, <1>3, <1>4 DEF SameRequest, Kept

\* The same for all requests at once.
LEMMA RequestsKept ==
  ASSUME RInv, Grows, Frozen, \A q \in Request : SameRequest(q)
  PROVE  Asked' /\ Manifested'
<1>1. ASSUME NEW q \in Request, branch'[q].at # "none"
      PROVE  Kept(q)
  BY <1>1, RequestKept
<1>2. Asked'
  BY <1>1 DEF Asked, Kept
<1>3. \A q \in Request : HasManifest(q)' => branch'[q].at # "none"
  BY DEF HasManifest
<1>4. Manifested'
  BY <1>1, <1>3 DEF Manifested, Kept
<1> QED BY <1>2, <1>4

-----------------------------------------------------------------------------
\* Before anything runs nothing is recorded or asked.
LEMMA InitRInv == Init => RInv
<1> SUFFICES ASSUME Init PROVE RInv
  OBVIOUS
<1>1. \A i \in Run : run[i] = [at |-> "none", made |-> <<>>, sent |-> 0]
                     /\ stored[i] = [calls |-> {}, root |-> FALSE]
  BY DEF Init
<1>2. <<>> \in Seq(CallMade) /\ Len(<<>>) = 0 /\ Taken(<<>>)
  BY DEF Taken
<1>3. \A q \in Request : branch[q].at = "none" /\ q \in Run
  BY DEF Init, Run
<1>4. TypeOK
  <2>1. run \in [Run ->
          [at : {"none", "running", "flushing", "raised", "exited", "failed", "killed"},
           made : Seq(CallMade), sent : Nat]]
    BY <1>2 DEF Init
  <2>2. \A i \in Run : run[i].sent <= Len(run[i].made)
    BY <1>1, <1>2
  <2>3. branch \in [Request ->
       [at : {"none", "lock", "read", "spawn", "wait", "ok", "failed", "error", "timeout"},
        source : Run \cup {None}, of : Run \cup {None}, edit : Nat, value : Value \cup {None},
        llm : [Llm -> Value \cup {None}], tools : [Tool -> Value \cup {None}]]]
    BY DEF Init, Unused
  <2>4. stored \in [Run -> [calls : SUBSET (Nat \ {0}), root : BOOLEAN]]
    BY DEF Init
  <2>5. /\ cache \in [Llm -> Value \cup {None}] /\ lock \in Request \cup {None}
        /\ lossy \subseteq Run /\ faults \in 0..MaxFaults
    BY ReplayAssumption DEF Init, Unused
  <2> QED BY <2>1, <2>2, <2>3, <2>4, <2>5 DEF TypeOK
<1>5. Roads
  BY <1>1, <1>2 DEF Roads
<1>6. Exported
  <2>1. \A i \in Run : run[i].sent = 0 /\ run[i].at = "none" /\ stored[i].calls = {}
                      /\ ~ stored[i].root
    BY <1>1
  <2>2. 1..0 = {}
    OBVIOUS
  <2> QED BY <2>1, <2>2 DEF Exported, Ended
<1>7. Life /\ Asked /\ Manifested
  BY <1>1, <1>3 DEF Life, Asked, Manifested, HasManifest
<1> QED BY <1>4, <1>5, <1>6, <1>7 DEF RInv

\* A step of an agent leaves the requests as they are.
LEMMA AgentStep ==
  ASSUME RInv, Grows, Frozen, branch' = branch, TypeOK', Roads', Exported', Life'
  PROVE  RInv'
<1>1. \A q \in Request : SameRequest(q)
  BY DEF SameRequest, HasManifest
<1>2. Asked' /\ Manifested'
  BY <1>1, RequestsKept
<1> QED BY <1>2 DEF RInv

\* A run begins with no calls.
LEMMA StartRInv == ASSUME RInv, NEW i \in Run, Start(i)
  PROVE  RInv' /\ Grows /\ Frozen
<1> DEFINE x == [run[i] EXCEPT !.at = "running"]
<1>1. run[i] \in RunRec /\ run \in [Run -> RunRec] /\ run[i].made = <<>>
  BY Fields DEF RInv, Roads, Start
<1>2. x \in RunRec /\ x.at = "running" /\ x.sent = run[i].sent /\ x.made = <<>>
  BY <1>1 DEF RunRec
<1>3. run' = [run EXCEPT ![i] = x]
  BY DEF Start
<1>4. Taken(x.made) /\ Len(x.made) >= Len(run[i].made)
  BY <1>1, <1>2 DEF Taken
<1>5. /\ run' \in [Run -> RunRec] /\ \A j \in Run : run'[j].sent <= Len(run'[j].made)
      /\ Roads' /\ Exported' /\ Grows /\ Frozen
  <2> HIDE DEF x
  <2> QED BY <1>1, <1>2, <1>3, <1>4, RunStep DEF Start, Ended
<1>6. TypeOK'
  BY <1>5 DEF RInv, TypeOK, Start, RunRec
<1>7. Life'
  BY <1>1, <1>3, ReplayAssumption DEF RInv, Life, Start
<1> QED BY <1>5, <1>6, <1>7, AgentStep DEF Start

\* The agent ends: nothing is stored yet.
LEMMA FinishRInv == ASSUME RInv, NEW i \in Run, Finish(i)
  PROVE  RInv' /\ Grows /\ Frozen
<1> DEFINE x == [run[i] EXCEPT !.at = "flushing"]
<1>1. run[i] \in RunRec /\ run \in [Run -> RunRec] /\ Len(run[i].made) \in Nat
  BY Fields DEF RInv
<1>2. x \in RunRec /\ x.at = "flushing" /\ x.sent = run[i].sent /\ x.made = run[i].made
  BY <1>1 DEF RunRec
<1>3. run' = [run EXCEPT ![i] = x]
  BY DEF Finish
<1>4. Taken(x.made) /\ Len(x.made) >= Len(run[i].made)
  BY <1>1, <1>2 DEF RInv, Roads
<1>5. /\ run' \in [Run -> RunRec] /\ \A j \in Run : run'[j].sent <= Len(run'[j].made)
      /\ Roads' /\ Exported' /\ Grows /\ Frozen
  <2> HIDE DEF x
  <2> QED BY <1>1, <1>2, <1>3, <1>4, RunStep DEF Finish, Ended
<1>6. TypeOK'
  BY <1>5 DEF RInv, TypeOK, Finish, RunRec
<1>7. Life'
  BY <1>1, <1>3, <1>2 DEF RInv, Life, Finish
<1> QED BY <1>5, <1>6, <1>7, AgentStep DEF Finish

\* The agent raises, or its process dies: nothing is stored.
LEMMA FaultRInv == ASSUME RInv, NEW i \in Run, Raise(i) \/ Die(i)
  PROVE  RInv' /\ Grows /\ Frozen
<1>1. PICK a \in {"raised", "killed"} : run' = [run EXCEPT ![i].at = a]
  BY DEF Raise, Die
<1> DEFINE x == [run[i] EXCEPT !.at = a]
<1>2. run[i] \in RunRec /\ run \in [Run -> RunRec] /\ Len(run[i].made) \in Nat
  BY Fields DEF RInv
<1>3. x \in RunRec /\ x.at = a /\ x.sent = run[i].sent /\ x.made = run[i].made
  BY <1>2 DEF RunRec
<1>4. run' = [run EXCEPT ![i] = x]
  BY <1>1
<1>5. Taken(x.made) /\ Len(x.made) >= Len(run[i].made)
  BY <1>2, <1>3 DEF RInv, Roads
<1>6. /\ run[i].at \in {"running", "flushing", "raised"} /\ faults' \in 0..MaxFaults
      /\ UNCHANGED <<stored, cache, lock, branch, lossy>>
  BY ReplayAssumption DEF Raise, Die, Fault, RInv, TypeOK
<1> HIDE DEF x
<1>7. /\ run' \in [Run -> RunRec] /\ \A j \in Run : run'[j].sent <= Len(run'[j].made)
      /\ Roads' /\ Exported' /\ Grows /\ Frozen
  BY <1>2, <1>3, <1>4, <1>5, <1>6, RunStep DEF Ended
<1>8. TypeOK'
  BY <1>6, <1>7 DEF RInv, TypeOK, RunRec
<1>9. /\ \A j \in Run : j # i => run'[j] = run[j]
      /\ run'[i].at = a
  BY <1>2, <1>3, <1>4
<1>10. Life'
  <2> SUFFICES ASSUME NEW q \in Request
               PROVE  /\ branch[q].at \in {"none", "lock", "read", "spawn", "error"}
                           => run'[q].at = "none"
                      /\ branch[q].at = "ok" => run'[q].at = "exited"
                      /\ branch[q].at = "timeout" => run'[q].at = "killed"
    BY <1>6 DEF Life
  <2>1. CASE q = i
    BY <1>1, <1>6, <1>9, <2>1 DEF RInv, Life, Raise, Die
  <2>2. CASE q # i
    <3>1. q \in Run
      BY Fields DEF RInv
    <3> QED BY <1>9, <2>2, <3>1 DEF RInv, Life
  <2> QED BY <2>1, <2>2
<1> QED BY <1>6, <1>7, <1>8, <1>10, AgentStep

\* The next call is what the agent asks after the answers so far.
LEMMA MakeCallRInv == ASSUME RInv, NEW i \in Run, MakeCall(i)
  PROVE  RInv' /\ Grows /\ Frozen
<1> DEFINE made == run[i].made  key == NextCall(i)
<1>1. /\ run[i] \in RunRec /\ run \in [Run -> RunRec] /\ Len(made) \in Nat
      /\ made \in Seq(CallMade)
  BY Fields DEF RInv, RunRec
<1>2. PICK v \in MayAnswer(i, key) :
        /\ run' = [run EXCEPT ![i].made = Append(@, [key |-> key, value |-> v])]
        /\ IF v = Raised /\ key \in Llm THEN Fault ELSE UNCHANGED faults
  BY DEF MakeCall
<1>3. v \in Value \cup {Raised} /\ key \in Llm \cup Tool
  <2>1. key \in Llm \cup Tool
    BY DEF MakeCall
  <2>2. CASE i \in Original
    BY <2>1, <2>2 DEF MayAnswer, Pinned
  <2>3. CASE i \in Request
    <3>1. branch[i] \in BranchRec
      BY <2>3, Fields DEF RInv
    <3>2. Pinned(i, key) \in Value \cup {None}
      BY <2>1, <2>3, <3>1, ReplayAssumption DEF Pinned, BranchRec
    <3> QED BY <2>1, <3>2 DEF MayAnswer
  <2> QED BY <2>2, <2>3 DEF Run
<1> DEFINE c == [key |-> key, value |-> v]
           x == [run[i] EXCEPT !.made = Append(made, c)]
<1>4. c \in CallMade /\ c.key = key /\ c.value = v
  BY <1>3 DEF CallMade
<1>5. /\ Append(made, c) \in Seq(CallMade) /\ Len(Append(made, c)) = Len(made) + 1
      /\ \A n \in 1..Len(made) : Append(made, c)[n] = made[n]
      /\ Append(made, c)[Len(made) + 1] = c
  <2> HIDE DEF c, made
  <2> QED BY <1>1, <1>4
<1>6. /\ x \in RunRec /\ x.at = "running" /\ x.sent = run[i].sent
      /\ x.made = Append(made, c) /\ run[i].at = "running"
  BY <1>1, <1>5 DEF RunRec, MakeCall
<1>7. run' = [run EXCEPT ![i] = x]
  BY <1>2
<1>8. Taken(x.made)
  <2>1. ASSUME NEW n \in 1..Len(made)
        PROVE  x.made[n].key = Ask([k \in 1..(n - 1) |-> x.made[k].value])
    <3>1. made[n].key = Ask([k \in 1..(n - 1) |-> made[k].value])
      BY DEF RInv, Roads, Taken
    <3>2. \A k \in 1..(n - 1) : k \in 1..Len(made)
      BY <1>1
    <3>3. [k \in 1..(n - 1) |-> x.made[k].value] = [k \in 1..(n - 1) |-> made[k].value]
      <4> HIDE DEF c, x, made
      <4> QED BY <1>5, <1>6, <3>2
    <3> HIDE DEF x, c, made
    <3> QED BY <1>5, <1>6, <3>1, <3>3
  <2>2. LET n == Len(made) + 1
        IN  x.made[n].key = Ask([k \in 1..(n - 1) |-> x.made[k].value])
    <3>1. (Len(made) + 1) - 1 = Len(made)
      BY <1>1
    <3>2. [k \in 1..Len(made) |-> x.made[k].value] = Answers(made)
      <4> HIDE DEF c, x, made
      <4> QED BY <1>5, <1>6 DEF Answers
    <3>3. key = Ask(Answers(made))
      BY DEF NextCall
    <3>4. x.made[Len(made) + 1] = c
      BY <1>5, <1>6
    <3> HIDE DEF x, c, made, key
    <3> QED BY <1>3, <1>4, <3>1, <3>2, <3>3, <3>4
  <2>3. \A n \in 1..Len(x.made) : n \in 1..Len(made) \/ n = Len(made) + 1
    <3> HIDE DEF x, c, made
    <3> QED BY <1>1, <1>5, <1>6
  <2> HIDE DEF x, c, made
  <2> QED BY <2>1, <2>2, <2>3 DEF Taken
<1>9. Len(x.made) >= Len(made) /\ \A n \in 1..Len(made) : x.made[n] = made[n]
  <2> HIDE DEF c, x, made
  <2> QED BY <1>1, <1>5, <1>6
<1>10. /\ run' \in [Run -> RunRec] /\ \A j \in Run : run'[j].sent <= Len(run'[j].made)
       /\ Roads' /\ Exported' /\ Grows /\ Frozen
  <2> HIDE DEF x
  <2> QED BY <1>6, <1>7, <1>8, <1>9, RunStep DEF MakeCall, Ended
<1>11. TypeOK'
  <2>1. faults' \in 0..MaxFaults
    BY <1>2, ReplayAssumption DEF Fault, RInv, TypeOK
  <2> QED BY <1>10, <2>1 DEF RInv, TypeOK, MakeCall, RunRec
<1>12. Life'
  <2> HIDE DEF x
  <2> QED BY <1>1, <1>6, <1>7 DEF RInv, Life, MakeCall
<1> QED BY <1>10, <1>11, <1>12, AgentStep DEF MakeCall

-----------------------------------------------------------------------------
\* What a batch does to the process that sends it.
LEMMA Sent ==
  ASSUME RInv, NEW i \in Run, HasBatch(i), SendBatch(i)
  PROVE  /\ run' \in [Run -> RunRec]
         /\ \A j \in Run : run'[j].made = run[j].made
         /\ \A j \in Run : j # i => run'[j] = run[j]
         /\ run'[i].sent = Len(run[i].made)
         /\ run[i].at = "running" => run'[i].at = "running"
         /\ LastBatch(i) => Ended(run'[i].at)
         /\ run[i].at = "running" \/ LastBatch(i)
<1>1. run \in [Run -> RunRec] /\ run[i] \in RunRec /\ Len(run[i].made) \in Nat
  BY Fields DEF RInv
<1> DEFINE x == [run[i] EXCEPT !.sent = Len(run[i].made),
                               !.at = AfterBatch(run[i].at)]
<1>2. run' = [run EXCEPT ![i] = x]
  BY <1>1 DEF SendBatch
<1>3. /\ x \in RunRec /\ x.made = run[i].made /\ x.sent = Len(run[i].made)
      /\ x.at = AfterBatch(run[i].at)
  <2>1. AfterBatch(run[i].at) \in
          {"none", "running", "flushing", "raised", "exited", "failed", "killed"}
    BY <1>1 DEF AfterBatch, RunRec
  <2> QED BY <1>1, <2>1 DEF RunRec
<1>4. run[i].at = "running" \/ LastBatch(i)
  BY DEF HasBatch
<1>5. /\ run[i].at = "running" => x.at = "running"
      /\ LastBatch(i) => Ended(x.at)
  BY <1>3 DEF AfterBatch, LastBatch, Ended
<1> HIDE DEF x
<1> QED BY <1>1, <1>2, <1>3, <1>4, <1>5

\* A batch ends no process but one that was flushing.
LEMMA SentLife ==
  ASSUME RInv, NEW i \in Run, HasBatch(i), SendBatch(i), branch' = branch
  PROVE  Life' /\ Roads' /\ \A j \in Run : run'[j].sent <= Len(run'[j].made)
<1>1. \A j \in Run : run[j].sent <= Len(run[j].made) /\ Len(run[j].made) \in Nat
  BY Fields DEF RInv
<1>2. \A j \in Run : run'[j].at = run[j].at \/ (j = i /\ run[j].at \in {"running", "flushing", "raised"}
                                              /\ run'[j].at \in {"running", "exited", "failed"})
  BY Sent DEF LastBatch, Ended
<1>3. Life'
  BY <1>2, Fields DEF RInv, Life
<1>4. Roads'
  BY <1>2, Sent DEF RInv, Roads
<1>5. \A j \in Run : run'[j].sent <= Len(run'[j].made)
  BY <1>1, Sent
<1> QED BY <1>3, <1>4, <1>5

\* A stored batch holds the calls up to the last; the last batch brings the root.
LEMMA ExportRInv == ASSUME RInv, NEW i \in Run, Export(i)
  PROVE  RInv' /\ Grows /\ Frozen
<1>1. HasBatch(i) /\ SendBatch(i) /\ branch' = branch /\ lossy' = lossy
  BY DEF Export
<1>2. /\ run[i] \in RunRec /\ Len(run[i].made) \in Nat /\ run[i].sent \in Nat
      /\ run[i].sent <= Len(run[i].made) /\ run[i].made \in Seq(CallMade)
  BY Fields DEF RInv, RunRec
<1>3. /\ stored'[i].calls = stored[i].calls \cup Unsent(i)
      /\ stored'[i].root = (stored[i].root \/ LastBatch(i))
      /\ \A j \in Run : j # i => stored'[j] = stored[j]
      /\ stored' \in [Run -> [calls : SUBSET (Nat \ {0}), root : BOOLEAN]]
  <2>1. Unsent(i) \subseteq Nat \ {0}
    BY <1>2 DEF Unsent
  <2>2. stored \in [Run -> [calls : SUBSET (Nat \ {0}), root : BOOLEAN]]
    BY DEF RInv, TypeOK
  <2> DEFINE x == [stored[i] EXCEPT !.calls = stored[i].calls \cup Unsent(i),
                                    !.root = stored[i].root \/ LastBatch(i)]
  <2>3. x \in [calls : SUBSET (Nat \ {0}), root : BOOLEAN]
    BY <2>1, <2>2
  <2>4. stored' = [stored EXCEPT ![i] = x]
    BY <2>2 DEF Export
  <2>5. x.calls = stored[i].calls \cup Unsent(i) /\ x.root = (stored[i].root \/ LastBatch(i))
    BY <2>2
  <2> HIDE DEF x
  <2> QED BY <2>2, <2>3, <2>4, <2>5
<1>4. 1..Len(run[i].made) = (1..run[i].sent) \cup Unsent(i)
  BY <1>2 DEF Unsent
<1>5. Exported'
  <2>1. ASSUME NEW j \in Run, j # i
        PROVE  run'[j] = run[j] /\ stored'[j] = stored[j]
    BY <1>1, <1>3, <2>1, Sent
  <2>2. /\ stored'[i].calls \subseteq 1..run'[i].sent
        /\ i \notin lossy' => stored'[i].calls = 1..run'[i].sent
    BY <1>1, <1>3, <1>4, Sent DEF RInv, Exported
  <2>3. run'[i].sent = Len(run'[i].made)
    BY <1>1, Sent
  <2>4. stored'[i].root <=> Ended(run'[i].at)
    BY <1>1, <1>3, Sent DEF RInv, Exported, LastBatch, Ended
  <2> QED BY <1>1, <2>1, <2>2, <2>3, <2>4 DEF RInv, Exported
<1>6. Grows /\ Frozen
  <2>1. ~ stored[i].root
    BY <1>1, Sent DEF RInv, Exported, LastBatch, Ended
  <2>2. \A j \in Run : run'[j].made = run[j].made
    BY <1>1, Sent
  <2> QED BY <1>3, <2>1, <2>2 DEF Grows, Frozen
<1>7. cache' \in [Llm -> Value \cup {None}]
  <2>1. ASSUME NEW h \in Llm PROVE Cached(i, h) \in Value \cup {None}
    <3> DEFINE answers == {n \in Unsent(i) :
                             run[i].made[n].key = h /\ run[i].made[n].value # Raised}
    <3>1. CASE answers = {}
      BY <3>1 DEF Cached, RInv, TypeOK
    <3>2. CASE answers # {}
      <4> DEFINE n == CHOOSE m \in answers : \A k \in answers : k <= m
      <4>1. answers \in SUBSET (1..Len(run[i].made))
        BY <1>4
      <4>2. n \in answers
        <5> HIDE DEF answers
        <5> QED BY <1>2, <3>2, <4>1, LastOf
      <4>3. n \in 1..Len(run[i].made) /\ run[i].made[n].value # Raised
        <5> HIDE DEF n
        <5> QED BY <4>1, <4>2
      <4>4. run[i].made[n] \in CallMade
        <5> HIDE DEF n
        <5> QED BY <1>2, <4>3
      <4>5. Cached(i, h) = run[i].made[n].value
        BY <3>2 DEF Cached
      <4> QED BY <4>3, <4>4, <4>5 DEF CallMade
    <3> QED BY <3>1, <3>2
  <2> QED BY <2>1 DEF Export
<1>8. TypeOK'
  <2>1. run' \in [Run -> RunRec] /\ \A j \in Run : run'[j].sent <= Len(run'[j].made)
    BY <1>1, Sent, SentLife
  <2> QED BY <1>3, <1>7, <2>1 DEF RInv, TypeOK, Export, RunRec
<1> QED BY <1>1, <1>5, <1>6, <1>8, SentLife, AgentStep

\* A lost batch leaves its run without a claim to be whole.
LEMMA LoseBatchRInv == ASSUME RInv, NEW i \in Run, LoseBatch(i)
  PROVE  RInv' /\ Grows /\ Frozen
<1>1. /\ HasBatch(i) /\ SendBatch(i) /\ branch' = branch /\ stored' = stored
      /\ lossy' = lossy \cup {i}
  BY DEF LoseBatch
<1>2. \A j \in Run : /\ run[j].sent \in Nat /\ Len(run[j].made) \in Nat
                     /\ run[j].sent <= Len(run[j].made)
  BY Fields DEF RInv
<1>3. Exported'
  <2>1. ASSUME NEW j \in Run, j # i PROVE run'[j] = run[j]
    BY <1>1, <2>1, Sent
  <2>2. stored[i].calls \subseteq 1..run'[i].sent
    <3>1. stored[i].calls \subseteq 1..run[i].sent
      BY DEF RInv, Exported
    <3>2. run'[i].sent = Len(run[i].made)
      BY <1>1, Sent
    <3> QED BY <1>2, <3>1, <3>2
  <2>3. run'[i].sent = Len(run'[i].made) /\ ~ stored[i].root
    BY <1>1, Sent DEF RInv, Exported, LastBatch, Ended
  <2>4. stored'[i] = stored[i] /\ i \in lossy'
    BY <1>1
  <2>5. ASSUME NEW j \in Run
        PROVE  /\ stored'[j].calls \subseteq 1..run'[j].sent
               /\ j \notin lossy' => stored'[j].calls = 1..run'[j].sent
               /\ Ended(run'[j].at) =>
                    /\ run'[j].sent = Len(run'[j].made)
                    /\ j \notin lossy' => stored'[j].root
               /\ stored'[j].root => Ended(run'[j].at)
    <3>1. CASE j = i
      BY <2>2, <2>3, <2>4, <3>1
    <3>2. CASE j # i
      <4>1. run'[j] = run[j] /\ stored'[j] = stored[j] /\ (j \in lossy' <=> j \in lossy)
        <5>1. lossy' = lossy \cup {i}
          BY <1>1
        <5> QED BY <1>1, <2>1, <3>2, <5>1
      <4>2. /\ stored[j].calls \subseteq 1..run[j].sent
            /\ j \notin lossy => stored[j].calls = 1..run[j].sent
            /\ Ended(run[j].at) => /\ run[j].sent = Len(run[j].made)
                                   /\ j \notin lossy => stored[j].root
            /\ stored[j].root => Ended(run[j].at)
        BY DEF RInv, Exported
      <4>3. stored'[j].calls \subseteq 1..run'[j].sent
            /\ (stored'[j].root => Ended(run'[j].at))
        BY <4>1, <4>2
      <4>4. j \notin lossy' => stored'[j].calls = 1..run'[j].sent
        BY <4>1, <4>2
      <4>5. Ended(run'[j].at) => /\ run'[j].sent = Len(run'[j].made)
                                 /\ j \notin lossy' => stored'[j].root
        BY <4>1, <4>2
      <4> QED BY <4>3, <4>4, <4>5
    <3> QED BY <3>1, <3>2
  <2> QED BY <2>5 DEF Exported
<1>4. Grows /\ Frozen
  BY <1>1, Sent DEF Grows, Frozen
<1>5. TypeOK'
  <2>1. run' \in [Run -> RunRec] /\ \A j \in Run : run'[j].sent <= Len(run'[j].made)
    BY <1>1, Sent, SentLife
  <2>2. faults' \in 0..MaxFaults
    BY ReplayAssumption DEF LoseBatch, Fault, RInv, TypeOK
  <2> QED BY <1>1, <2>1, <2>2 DEF RInv, TypeOK, LoseBatch, RunRec
<1> QED BY <1>1, <1>3, <1>4, <1>5, SentLife, AgentStep

-----------------------------------------------------------------------------
\* A step of a handler that leaves the agents as they are.
LEMMA Still ==
  ASSUME RInv, run' = run, stored' = stored, lossy' = lossy
  PROVE  Roads' /\ Exported' /\ Grows /\ Frozen
BY DEF RInv, Roads, Exported, Grows, Frozen

\* The other requests do not notice a step of one.
LEMMA OneRequest ==
  ASSUME RInv, Grows, Frozen, Roads', Exported', TypeOK', Life', NEW q \in Request,
         \A p \in Request : p # q => branch'[p] = branch[p],
         branch'[q].at # "none" => Kept(q)
  PROVE  RInv'
<1>1. ASSUME NEW p \in Request, branch'[p].at # "none"
      PROVE  Kept(p)
  <2>1. CASE p = q
    BY <1>1, <2>1
  <2>2. CASE p # q
    <3>1. SameRequest(p)
      BY <2>2 DEF SameRequest, HasManifest
    <3> QED BY <1>1, <3>1, RequestKept
  <2> QED BY <2>1, <2>2
<1>2. Asked'
  BY <1>1 DEF Asked, Kept
<1>3. \A p \in Request : HasManifest(p)' => branch'[p].at # "none"
  BY DEF HasManifest
<1>4. Manifested'
  BY <1>1, <1>3 DEF Manifested, Kept
<1> QED BY <1>2, <1>4 DEF RInv

\* A request names a span that is stored.
LEMMA AskBranchRInv == ASSUME RInv, NEW q \in Request, AskBranch(q)
  PROVE  RInv' /\ Grows /\ Frozen
<1> DEFINE Asks(i, j, v, n) ==
      /\ branch[q].at = "none" /\ v # run[j].made[n].value
      /\ q \in Careless \/ (i = j /\ IsTool(j, n) /\ v # None)
      /\ v = None => i = j /\ IsTool(j, n)
      /\ branch' = [branch EXCEPT ![q].at = "lock", ![q].source = i, ![q].of = j,
                                  ![q].edit = n, ![q].value = v]
      /\ UNCHANGED <<run, stored, cache, lock, lossy, faults>>
<1>1. PICK i \in Run, j \in Run, v \in Value \cup {None} :
        \E n \in stored[j].calls : Asks(i, j, v, n)
  BY DEF AskBranch
<1>2. PICK n \in stored[j].calls : Asks(i, j, v, n)
  BY <1>1
<1>3. UNCHANGED <<run, stored, cache, lock, lossy, faults>>
  BY DEF AskBranch
<1>4. branch \in [Request -> BranchRec] /\ branch[q] \in BranchRec /\ q \in Run
  BY Fields DEF RInv
<1>5. n \in Nat
  BY DEF RInv, TypeOK
<1> DEFINE y == [branch[q] EXCEPT !.at = "lock", !.source = i, !.of = j, !.edit = n,
                                  !.value = v]
<1>6. branch' = [branch EXCEPT ![q] = y]
  BY <1>2, <1>4
<1>7. y \in BranchRec /\ y.at = "lock" /\ y.source = i /\ y.of = j /\ y.edit = n
  BY <1>4, <1>5 DEF BranchRec
<1>8. /\ branch' \in [Request -> BranchRec] /\ branch'[q] = y
      /\ \A p \in Request : p # q => branch'[p] = branch[p]
  <2> HIDE DEF y
  <2> QED BY <1>4, <1>6, <1>7
<1> HIDE DEF y
<1>9. Roads' /\ Exported' /\ Grows /\ Frozen
  BY <1>3, Still
<1>10. TypeOK'
  BY <1>3, <1>8 DEF RInv, TypeOK, BranchRec
<1>11. Life'
  BY <1>2, <1>3, <1>7, <1>8 DEF RInv, Life
<1>12. ~ HasManifest(q)'
  BY <1>7, <1>8 DEF HasManifest
<1>13. Kept(q)
  BY <1>2, <1>3, <1>7, <1>8, <1>12 DEF Kept
<1> QED BY <1>8, <1>9, <1>10, <1>11, <1>13, OneRequest

\* A handler's step that moves its request on and no more.
LEMMA Moved ==
  ASSUME RInv, NEW q \in Request, NEW a \in {"read", "wait", "ok", "failed", "error", "timeout"},
         branch' = [branch EXCEPT ![q].at = a], branch[q].at # "none"
  PROVE  /\ branch' \in [Request -> BranchRec] /\ branch'[q].at = a
         /\ \A p \in Request : p # q => branch'[p] = branch[p]
         /\ (a \in {"wait", "ok", "failed", "timeout"} => HasManifest(q)) =>
              \A p \in Request : SameRequest(p)
<1>1. branch \in [Request -> BranchRec] /\ branch[q] \in BranchRec
  BY Fields DEF RInv
<1> DEFINE y == [branch[q] EXCEPT !.at = a]
<1>2. branch' = [branch EXCEPT ![q] = y]
  BY <1>1
<1>3. /\ y \in BranchRec /\ y.at = a /\ y.source = branch[q].source /\ y.of = branch[q].of
      /\ y.edit = branch[q].edit
      /\ y.value = branch[q].value /\ y.llm = branch[q].llm /\ y.tools = branch[q].tools
  BY <1>1 DEF BranchRec
<1> HIDE DEF y
<1>4. /\ branch' \in [Request -> BranchRec] /\ branch'[q] = y
      /\ \A p \in Request : p # q => branch'[p] = branch[p]
  BY <1>1, <1>2, <1>3
<1>5. ASSUME a \in {"wait", "ok", "failed", "timeout"} => HasManifest(q), NEW p \in Request
      PROVE  SameRequest(p)
  <2>1. CASE p = q
    BY <1>3, <1>4, <1>5, <2>1 DEF SameRequest, HasManifest
  <2>2. CASE p # q
    BY <1>4, <2>2 DEF SameRequest, HasManifest
  <2> QED BY <2>1, <2>2
<1> QED BY <1>3, <1>4, <1>5

\* The lock tells nothing of runs and traces.
LEMMA TakeLockRInv == ASSUME RInv, NEW q \in Request, TakeLock(q)
  PROVE  RInv' /\ Grows /\ Frozen
<1>1. /\ branch' = [branch EXCEPT ![q].at = "read"] /\ branch[q].at = "lock"
      /\ UNCHANGED <<run, stored, cache, lossy, faults>> /\ lock' = q
  BY DEF TakeLock
<1>2. Roads' /\ Exported' /\ Grows /\ Frozen
  BY <1>1, Still
<1>3. /\ branch' \in [Request -> BranchRec] /\ branch'[q].at = "read"
      /\ \A p \in Request : p # q => branch'[p] = branch[p]
      /\ \A p \in Request : SameRequest(p)
  BY <1>1, Moved
<1>4. TypeOK'
  BY <1>1, <1>3 DEF RInv, TypeOK, BranchRec
<1>5. Life'
  BY <1>1, <1>3 DEF RInv, Life
<1> QED BY <1>2, <1>3, <1>4, <1>5, RequestsKept DEF RInv

\* A request is done when its process is over.
LEMMA ReapRInv == ASSUME RInv, NEW q \in Request, Reap(q)
  PROVE  RInv' /\ Grows /\ Frozen
<1>1. PICK a \in {"ok", "failed"} :
        branch' = [branch EXCEPT ![q].at = a] /\ (a = "ok" => run[q].at = "exited")
  BY DEF Reap
<1>2. branch[q].at = "wait" /\ UNCHANGED <<run, stored, cache, lock, lossy, faults>>
  BY DEF Reap
<1>3. Roads' /\ Exported' /\ Grows /\ Frozen
  BY <1>2, Still
<1>4. /\ branch' \in [Request -> BranchRec] /\ branch'[q].at = a
      /\ \A p \in Request : p # q => branch'[p] = branch[p]
      /\ \A p \in Request : SameRequest(p)
  BY <1>1, <1>2, Moved DEF HasManifest
<1>5. TypeOK'
  BY <1>2, <1>4 DEF RInv, TypeOK, BranchRec
<1>6. Life'
  BY <1>1, <1>2, <1>4 DEF RInv, Life
<1> QED BY <1>3, <1>4, <1>5, <1>6, RequestsKept DEF RInv

\* The process of a request starts from its manifest, with no calls.
LEMMA SpawnRInv == ASSUME RInv, NEW q \in Request, Spawn(q)
  PROVE  RInv' /\ Grows /\ Frozen
<1>1. /\ branch' = [branch EXCEPT ![q].at = "wait"] /\ branch[q].at = "spawn"
      /\ UNCHANGED <<stored, cache, lock, lossy, faults>>
      /\ run' = [run EXCEPT ![q].at = "running"]
  BY DEF Spawn
<1> DEFINE x == [run[q] EXCEPT !.at = "running"]
<1>2. /\ run[q] \in RunRec /\ run \in [Run -> RunRec] /\ run[q].made = <<>> /\ q \in Run
      /\ run[q].at = "none"
  BY <1>1, Fields DEF RInv, Roads, Life
<1>3. x \in RunRec /\ x.at = "running" /\ x.sent = run[q].sent /\ x.made = <<>>
  BY <1>2 DEF RunRec
<1>4. run' = [run EXCEPT ![q] = x]
  BY <1>1
<1>5. Taken(x.made) /\ Len(x.made) >= Len(run[q].made)
  BY <1>2, <1>3 DEF Taken
<1> HIDE DEF x
<1>6. /\ run' \in [Run -> RunRec] /\ \A j \in Run : run'[j].sent <= Len(run'[j].made)
      /\ Roads' /\ Exported' /\ Grows /\ Frozen
  BY <1>1, <1>2, <1>3, <1>4, <1>5, RunStep DEF Ended
<1>7. /\ branch' \in [Request -> BranchRec] /\ branch'[q].at = "wait"
      /\ \A p \in Request : p # q => branch'[p] = branch[p]
      /\ \A p \in Request : SameRequest(p)
  BY <1>1, Moved DEF HasManifest
<1>8. TypeOK'
  BY <1>1, <1>6, <1>7 DEF RInv, TypeOK, BranchRec, RunRec
<1>9. \A p \in Request : p # q => run'[p] = run[p]
  BY <1>2, <1>4
<1>10. Life'
  BY <1>7, <1>9 DEF RInv, Life
<1> QED BY <1>6, <1>7, <1>8, <1>10, RequestsKept DEF RInv

\* A killed process keeps what it had made and sent.
LEMMA TimeOutRInv == ASSUME RInv, NEW q \in Request, TimeOut(q)
  PROVE  RInv' /\ Grows /\ Frozen
<1>1. /\ branch' = [branch EXCEPT ![q].at = "timeout"] /\ branch[q].at = "wait"
      /\ UNCHANGED <<stored, cache, lock, lossy>> /\ ~ Over(q)
      /\ run' = [run EXCEPT ![q].at = "killed"]
  BY DEF TimeOut
<1> DEFINE x == [run[q] EXCEPT !.at = "killed"]
<1>2. /\ run[q] \in RunRec /\ run \in [Run -> RunRec] /\ q \in Run /\ Len(run[q].made) \in Nat
  BY Fields DEF RInv
<1>3. x \in RunRec /\ x.at = "killed" /\ x.sent = run[q].sent /\ x.made = run[q].made
  BY <1>2 DEF RunRec
<1>4. run' = [run EXCEPT ![q] = x]
  BY <1>1
<1>5. Taken(x.made) /\ Len(x.made) >= Len(run[q].made)
  BY <1>2, <1>3 DEF RInv, Roads
<1> HIDE DEF x
<1>6. /\ run' \in [Run -> RunRec] /\ \A j \in Run : run'[j].sent <= Len(run'[j].made)
      /\ Roads' /\ Exported' /\ Grows /\ Frozen
  BY <1>1, <1>2, <1>3, <1>4, <1>5, RunStep DEF Over, Ended
<1>7. /\ branch' \in [Request -> BranchRec] /\ branch'[q].at = "timeout"
      /\ \A p \in Request : p # q => branch'[p] = branch[p]
      /\ \A p \in Request : SameRequest(p)
  BY <1>1, Moved DEF HasManifest
<1>8. faults' \in 0..MaxFaults
  BY ReplayAssumption DEF TimeOut, Fault, RInv, TypeOK
<1>9. TypeOK'
  BY <1>1, <1>6, <1>7, <1>8 DEF RInv, TypeOK, BranchRec, RunRec
<1>10. run'[q].at = "killed" /\ \A p \in Request : p # q => run'[p] = run[p]
  BY <1>2, <1>3, <1>4
<1>11. Life'
  BY <1>7, <1>10 DEF RInv, Life
<1> QED BY <1>6, <1>7, <1>9, <1>11, RequestsKept DEF RInv

\* A manifest pins values.
LEMMA ToolsRecorded ==
  ASSUME RInv, NEW i \in Run
  PROVE  RecordedTools(i) \in [Tool -> Value \cup {None}]
<1> DEFINE made == run[i].made
           Calls(t) == {n \in stored[i].calls : made[n].key = t /\ made[n].value # Raised}
<1>1. made \in Seq(CallMade) /\ Len(made) \in Nat /\ stored[i].calls \subseteq 1..Len(made)
  <2>1. /\ made \in Seq(CallMade) /\ Len(made) \in Nat /\ run[i].sent \in Nat
        /\ run[i].sent <= Len(made)
    BY Fields DEF RInv, RunRec
  <2>2. stored[i].calls \subseteq 1..run[i].sent
    BY DEF RInv, Exported
  <2> HIDE DEF made
  <2> QED BY <2>1, <2>2
<1>2. ASSUME NEW t \in Tool, Calls(t) # {}
      PROVE  made[CHOOSE n \in Calls(t) : \A k \in Calls(t) : k <= n].value \in Value
  <2> DEFINE n == CHOOSE m \in Calls(t) : \A k \in Calls(t) : k <= m
  <2>1. Calls(t) \in SUBSET (1..Len(made))
    BY <1>1
  <2>2. n \in Calls(t)
    <3> HIDE DEF Calls, made
    <3> QED BY <1>1, <1>2, <2>1, LastOf
  <2>3. n \in 1..Len(made) /\ made[n].value # Raised
    <3> HIDE DEF n
    <3> QED BY <2>1, <2>2
  <2>4. made[n] \in CallMade
    <3> HIDE DEF made, n
    <3> QED BY <1>1, <2>3
  <2> QED BY <2>3, <2>4 DEF CallMade
<1>3. RecordedTools(i) =
        [t \in Tool |-> IF Calls(t) = {} THEN None
                        ELSE made[CHOOSE n \in Calls(t) : \A k \in Calls(t) : k <= n].value]
  BY DEF RecordedTools
<1> HIDE DEF Calls, made
<1> QED BY <1>2, <1>3

\* The manifest is made of a trace with a root, or not at all.
LEMMA ReadTraceRInv == ASSUME RInv, NEW q \in Request, ReadTrace(q)
  PROVE  RInv' /\ Grows /\ Frozen
<1> DEFINE i == branch[q].source
<1>1. /\ branch[q].at = "read" /\ lock' = None
      /\ UNCHANGED <<run, stored, cache, lossy, faults>>
  BY DEF ReadTrace
<1>2. Roads' /\ Exported' /\ Grows /\ Frozen
  BY <1>1, Still
<1>3. /\ branch \in [Request -> BranchRec] /\ branch[q] \in BranchRec
      /\ i \in Run /\ branch[q].of \in Run
      /\ branch[q].edit \in stored[branch[q].of].calls
  BY <1>1, Fields DEF RInv, Asked
<1>4. CASE ~ CanReplay(q)
  <2>1. branch' = [branch EXCEPT ![q].at = "error"]
    BY <1>4 DEF ReadTrace
  <2>2. /\ branch' \in [Request -> BranchRec] /\ branch'[q].at = "error"
        /\ \A p \in Request : p # q => branch'[p] = branch[p]
        /\ \A p \in Request : SameRequest(p)
    BY <1>1, <2>1, Moved
  <2>3. TypeOK'
    BY <1>1, <2>2 DEF RInv, TypeOK, BranchRec
  <2>4. Life'
    BY <1>1, <2>2 DEF RInv, Life
  <2> QED BY <1>2, <2>2, <2>3, <2>4, RequestsKept DEF RInv
<1>5. CASE CanReplay(q)
  <2> DEFINE l == RecordedLlm(i)  e == Edited(q, RecordedTools(i))
             y == [branch[q] EXCEPT !.at = "spawn", !.llm = l, !.tools = e]
  <2>1. l \in [Llm -> Value \cup {None}]
    BY ReplayAssumption DEF RecordedLlm, RInv, TypeOK
  <2>10. EditedCall(q).key \in Tool /\ branch[q].value \in Value /\ stored[i].root
    BY <1>3, <1>5 DEF CanReplay, IsTool, EditedCall, BranchRec
  <2>2. e \in [Tool -> Value \cup {None}]
    BY <1>3, <2>10, ToolsRecorded DEF Edited
  <2>3. branch' = [branch EXCEPT ![q] = y]
    <3>1. branch' = [branch EXCEPT ![q].at = "spawn", ![q].llm = l, ![q].tools = e]
      BY <1>5 DEF ReadTrace
    <3> HIDE DEF l, e
    <3> QED BY <1>3, <3>1
  <2>4. /\ y \in BranchRec /\ y.at = "spawn" /\ y.tools = e
        /\ y.source = i /\ y.of = branch[q].of /\ y.edit = branch[q].edit
        /\ y.value = branch[q].value
    <3> HIDE DEF l, e
    <3> QED BY <1>3, <2>1, <2>2 DEF BranchRec
  <2> HIDE DEF y
  <2>5. /\ branch' \in [Request -> BranchRec] /\ branch'[q] = y
        /\ \A p \in Request : p # q => branch'[p] = branch[p]
    BY <1>3, <2>3, <2>4
  <2>6. Edited(q, RecordedTools(branch[q].source))' = e
    <3>1. branch'[q].source = i /\ branch'[q].of = branch[q].of
          /\ branch'[q].edit = branch[q].edit /\ branch'[q].value = branch[q].value
      BY <2>4, <2>5
    <3>2. RecordedTools(branch[q].source)' = RecordedTools(i)
      BY <1>1, <1>3, <3>1, SameTools
    <3>3. EditedCall(q)' = EditedCall(q)
      BY <1>1, <3>1 DEF EditedCall
    <3> QED BY <3>1, <3>2, <3>3 DEF Edited
  <2>7. TypeOK'
    BY <1>1, <2>5 DEF RInv, TypeOK, BranchRec
  <2>8. Life'
    BY <1>1, <2>4, <2>5 DEF RInv, Life
  <2>9. Kept(q)
    <3>1. EditedCall(q)' = EditedCall(q)
      BY <1>1, <2>4, <2>5 DEF EditedCall
    <3> HIDE DEF e
    <3> QED BY <1>1, <1>3, <2>4, <2>5, <2>6, <2>10, <3>1 DEF Kept
  <2> HIDE DEF e
  <2> QED BY <1>2, <2>5, <2>7, <2>8, <2>9, OneRequest
<1> QED BY <1>4, <1>5

\* Every step keeps the invariant, and what is recorded.
LEMMA NextRInv ==
  ASSUME RInv, [Next]_vars PROVE RInv' /\ Grows /\ Frozen
<1>1. ASSUME NEW i \in Run, Start(i) \/ Progress(i) \/ LoseBatch(i) \/ Raise(i) \/ Die(i)
      PROVE  RInv' /\ Grows /\ Frozen
  BY <1>1, StartRInv, MakeCallRInv, FinishRInv, ExportRInv, LoseBatchRInv, FaultRInv
  DEF Progress
<1>2. ASSUME NEW q \in Request, AskBranch(q) \/ Handle(q) \/ TimeOut(q) PROVE RInv' /\ Grows /\ Frozen
  BY <1>2, AskBranchRInv, TakeLockRInv, ReadTraceRInv, SpawnRInv, ReapRInv, TimeOutRInv
  DEF Handle
<1>3. CASE UNCHANGED vars
  <2>1. UNCHANGED <<run, stored, cache, lock, branch, lossy, faults>>
    BY <1>3 DEF vars
  <2>2. Roads' /\ Exported' /\ Grows /\ Frozen
    BY <2>1, Still
  <2>3. TypeOK' /\ Life'
    BY <2>1 DEF RInv, TypeOK, Life
  <2> QED BY <2>1, <2>2, <2>3, AgentStep
<1> QED BY <1>1, <1>2, <1>3 DEF Next, AllQuiet

\* The invariant holds throughout.
THEOREM RInvAlways == Spec => []RInv
<1>1. RInv /\ [Next]_vars => RInv'
  BY NextRInv
<1> QED BY <1>1, InitRInv, PTL DEF Spec

\* Every variable keeps its type; a run never claims to have sent more than it made.
THEOREM TypeCorrect == Spec => []TypeOK
<1>1. RInv => TypeOK
  BY DEF RInv
<1> QED BY <1>1, RInvAlways, PTL

\* No replay runs from a trace that is still arriving: its source is over, and every call
\* it made was there for the manifest unless a batch of it was given up (engine.py:24-45,
\* _otel.py:78-85).
THEOREM SourceWhole == Spec => []SourceIsWhole
<1>1. RInv => SourceIsWhole
  <2> SUFFICES ASSUME RInv, NEW q \in Request, run[q].at # "none"
               PROVE  LET i == branch[q].source
                      IN  /\ run[i].at \in {"exited", "failed"}
                          /\ i \notin lossy => stored[i].calls = 1..Len(run[i].made)
    BY DEF SourceIsWhole
  <2>1. HasManifest(q)
    BY Fields DEF RInv, Life, BranchRec, HasManifest
  <2>2. branch[q].source \in Run /\ stored[branch[q].source].root
    BY <2>1 DEF RInv, Asked, Manifested, HasManifest
  <2>3. /\ Ended(run[branch[q].source].at)
        /\ run[branch[q].source].sent = Len(run[branch[q].source].made)
    BY <2>2 DEF RInv, Exported
  <2> QED BY <2>2, <2>3 DEF RInv, Exported, Ended
<1> QED BY <1>1, RInvAlways, PTL

\* A replay that is reported done has its whole trace on the server, unless a batch of
\* its own was given up (engine.py:102-122, _otel.py:78-85).
THEOREM DoneIsStored == Spec => []DoneMeansStored
<1>1. RInv => DoneMeansStored
  <2> SUFFICES ASSUME RInv, NEW q \in Request, branch[q].at = "ok", q \notin lossy
               PROVE  stored[q].root /\ stored[q].calls = 1..Len(run[q].made)
    BY DEF DoneMeansStored
  <2>1. q \in Run /\ Ended(run[q].at)
    BY DEF RInv, Life, Run, Ended
  <2>2. run[q].sent = Len(run[q].made) /\ stored[q].root
    BY <2>1 DEF RInv, Exported
  <2> QED BY <2>1, <2>2 DEF RInv, Exported
<1> QED BY <1>1, RInvAlways, PTL

-----------------------------------------------------------------------------
\* A replay under way or done, and its manifest.
Replaying(q) == branch[q].at \in {"wait", "ok", "failed"}
SameManifest(q) ==
  /\ branch'[q].source = branch[q].source /\ branch'[q].of = branch[q].of
  /\ branch'[q].edit = branch[q].edit
  /\ branch'[q].value = branch[q].value
  /\ branch'[q].llm = branch[q].llm /\ branch'[q].tools = branch[q].tools

\* What can happen to a replay under way or done: nothing, its next call, its start.
LEMMA StepOfReplay ==
  ASSUME RInv, [Next]_vars, NEW q \in Request, Replaying(q)'
  PROVE  \/ Replaying(q) /\ SameManifest(q) /\ run'[q].made = run[q].made
         \/ Replaying(q) /\ SameManifest(q) /\ MakeCall(q)
         \/ run'[q].made = <<>>
<1>1. /\ run \in [Run -> RunRec] /\ q \in Run /\ run[q] \in RunRec
      /\ branch \in [Request -> BranchRec] /\ branch[q] \in BranchRec
  BY Fields DEF RInv
<1>2. ASSUME branch' = branch
      PROVE  Replaying(q) /\ SameManifest(q)
  BY <1>2 DEF Replaying, SameManifest
<1>3. ASSUME NEW i \in Run, Start(i) \/ Progress(i) \/ LoseBatch(i) \/ Raise(i) \/ Die(i)
      PROVE  branch' = branch /\ (MakeCall(q) \/ run'[q].made = run[q].made)
  <2>1. CASE MakeCall(i)
    BY <1>1, <2>1 DEF MakeCall
  <2>2. CASE Start(i)
    BY <1>1, <2>2 DEF Start
  <2>3. CASE Finish(i)
    BY <1>1, <2>3 DEF Finish
  <2>4. CASE Export(i)
    BY <2>4, <1>1, Sent DEF Export
  <2>5. CASE LoseBatch(i)
    BY <2>5, <1>1, Sent DEF LoseBatch
  <2>6. CASE Raise(i) \/ Die(i)
    <3>1. PICK a \in {"raised", "killed"} : run' = [run EXCEPT ![i].at = a]
      BY <2>6 DEF Raise, Die
    <3>2. branch' = branch
      BY <2>6 DEF Raise, Die
    <3> QED BY <1>1, <3>1, <3>2
  <2> QED BY <1>3, <2>1, <2>2, <2>3, <2>4, <2>5, <2>6 DEF Progress
<1>4. ASSUME NEW p \in Request, AskBranch(p) \/ Handle(p) \/ TimeOut(p)
      PROVE  \/ Replaying(q) /\ SameManifest(q) /\ run'[q].made = run[q].made
             \/ run'[q].made = <<>>
  <2>1. CASE AskBranch(p)
    BY <1>1, <2>1 DEF AskBranch, Replaying, SameManifest
  <2>2. CASE TakeLock(p)
    BY <1>1, <2>2 DEF TakeLock, Replaying, SameManifest
  <2>3. CASE ReadTrace(p)
    <3>1. CASE CanReplay(p)
      <4>1. branch' = [branch EXCEPT ![p].at = "spawn", ![p].llm = RecordedLlm(branch[p].source),
                         ![p].tools = Edited(p, RecordedTools(branch[p].source))]
        BY <2>3, <3>1 DEF ReadTrace
      <4>2. branch'[p].at = "spawn"
        BY <1>1, <4>1, Fields DEF RInv
      <4>3. p # q
        BY <4>2 DEF Replaying
      <4>4. branch'[q] = branch[q]
        BY <1>1, <4>1, <4>3
      <4> QED BY <2>3, <4>4 DEF ReadTrace, Replaying, SameManifest
    <3>2. CASE ~ CanReplay(p)
      <4>1. run' = run /\ branch' = [branch EXCEPT ![p].at = "error"]
        BY <2>3, <3>2 DEF ReadTrace
      <4> QED BY <1>1, <4>1 DEF Replaying, SameManifest
    <3> QED BY <3>1, <3>2
  <2>4. CASE Spawn(p)
    <3>1. run'[q].made = run[q].made
      BY <1>1, <2>4 DEF Spawn
    <3>2. CASE p = q
      BY <3>1, <3>2, <2>4, <1>1 DEF Spawn, RInv, Life, Roads
    <3>3. CASE p # q
      BY <3>1, <3>3, <2>4, <1>1 DEF Spawn, Replaying, SameManifest
    <3> QED BY <3>2, <3>3
  <2>5. CASE Reap(p)
    BY <1>1, <2>5 DEF Reap, Replaying, SameManifest
  <2>6. CASE TimeOut(p)
    BY <1>1, <2>6 DEF TimeOut, Replaying, SameManifest
  <2> QED BY <1>4, <2>1, <2>2, <2>3, <2>4, <2>5, <2>6 DEF Handle
<1>5. CASE UNCHANGED vars
  BY <1>5 DEF vars, Replaying, SameManifest
<1> QED BY <1>2, <1>3, <1>4, <1>5 DEF Next, AllQuiet

\* A replay's source is another run, and over.
LEMMA SourceOver ==
  ASSUME RInv, Frozen, NEW q \in Request, Replaying(q), SameManifest(q)
  PROVE  /\ branch[q].source \in Run
         /\ branch[q].of = branch[q].source =>
              /\ branch[q].edit \in stored[branch[q].source].calls
              /\ branch[q].edit \in 1..Len(Source(q))
              /\ Source(q)[branch[q].edit].key \in Tool
              /\ Source(q)[branch[q].edit] = EditedCall(q)
         /\ Source(q) \in Seq(CallMade) /\ Taken(Source(q))
         /\ stored'[branch[q].source].calls = stored[branch[q].source].calls
         /\ Source(q)' = Source(q)
<1>1. /\ branch[q].source \in Run /\ branch[q].edit \in stored[branch[q].of].calls
      /\ EditedCall(q).key \in Tool /\ stored[branch[q].source].root
  BY DEF RInv, Asked, Manifested, HasManifest, Replaying
<1>2. Source(q) \in Seq(CallMade) /\ Taken(Source(q))
  BY <1>1, Fields DEF RInv, Roads, Source, RunRec
<1>3. ASSUME branch[q].of = branch[q].source
      PROVE  /\ branch[q].edit \in 1..Len(Source(q))
             /\ Source(q)[branch[q].edit] = EditedCall(q)
  <2>1. /\ stored[branch[q].source].calls \subseteq 1..run[branch[q].source].sent
        /\ run[branch[q].source].sent = Len(Source(q))
    BY <1>1 DEF RInv, Exported, Source
  <2> QED BY <1>1, <1>3, <2>1 DEF Source, EditedCall
<1>4. /\ stored'[branch[q].source] = stored[branch[q].source]
      /\ run'[branch[q].source].made = run[branch[q].source].made
  BY <1>1 DEF Frozen
<1>5. Source(q)' = Source(q)
  BY <1>4 DEF Source, SameManifest
<1> QED BY <1>1, <1>2, <1>3, <1>4, <1>5

\* The answer a replay gets for its n-th call, when all is as its source up to there.
LEMMA PinnedAsExpected ==
  ASSUME RInv, Frozen, NEW q \in Request, Replaying(q), SameManifest(q), Reliable(q),
         NEW n \in 1..branch[q].edit
  PROVE  LET s == Source(q)
         IN  /\ Pinned(q, s[n].key) # None
             /\ Expected(q, n) = [key |-> s[n].key, value |-> Pinned(q, s[n].key)]
<1> DEFINE i == branch[q].source  s == Source(q)  e == branch[q].edit  v == branch[q].value
           known == stored[i].calls
<1>1. /\ i \in Run /\ e \in known /\ e \in 1..Len(s) /\ s[e].key \in Tool
      /\ s \in Seq(CallMade) /\ Taken(s) /\ s[e] = EditedCall(q)
  BY SourceOver DEF Reliable
<1>2. n \in 1..Len(s)
  <2>1. Len(s) \in Nat /\ e \in 1..Len(s)
    BY <1>1
  <2> QED BY <2>1
<1>3. s[n] \in CallMade
  <2> HIDE DEF s
  <2> QED BY <1>1, <1>2
<1> s[n] = [key |-> s[n].key, value |-> s[n].value]
  BY <1>3 DEF CallMade
<1>4. /\ n \in known
      /\ s[n].key \in Tool => /\ s[n].value # Raised
                              /\ \A k \in known : s[k].key = s[n].key => k = n
      /\ s[n].key \in Llm => branch[q].llm[s[n].key] = s[n].value
  BY DEF Reliable
<1>5. /\ q \notin Original /\ branch[q].tools = Edited(q, RecordedTools(i)) /\ v \in Value
      /\ branch[q].llm \in [Llm -> Value \cup {None}]
  BY ReplayAssumption, Fields DEF RInv, Manifested, HasManifest, Replaying, BranchRec
<1>6. CASE s[n].key \in Llm
  <2>1. s[n].key \notin Tool /\ n # e
    BY <1>1, <1>6, ReplayAssumption
  <2>2. s[n].value \in Value /\ s[n].value # None
    BY <1>3, <1>4, <1>5, <1>6, ReplayAssumption DEF CallMade
  <2>3. Pinned(q, s[n].key) = s[n].value
    BY <1>4, <1>5, <1>6 DEF Pinned
  <2>4. Expected(q, n) = s[n]
    BY <2>1 DEF Expected
  <2> QED BY <2>2, <2>3, <2>4
<1>7. CASE s[n].key \in Tool /\ n = e
  <2>1. RecordedTools(i) \in [Tool -> Value \cup {None}]
    BY <1>1, ToolsRecorded
  <2>2. branch[q].tools[s[n].key] = v
    BY <1>1, <1>5, <1>7, <2>1 DEF Edited
  <2>3. Pinned(q, s[n].key) = v /\ v # None
    BY <1>5, <1>7, <2>2, ReplayAssumption DEF Pinned
  <2>4. Expected(q, n) = [s[n] EXCEPT !.value = v]
    BY <1>7 DEF Expected
  <2> QED BY <1>3, <2>3, <2>4 DEF CallMade
<1>8. CASE s[n].key \in Tool /\ n # e
  <2>1. s[n].key # s[e].key
    BY <1>1, <1>4, <1>8
  <2>2. RecordedTools(i) \in [Tool -> Value \cup {None}]
    BY <1>1, ToolsRecorded
  <2>3. branch[q].tools[s[n].key] = RecordedTools(i)[s[n].key]
    BY <1>1, <1>5, <1>8, <2>1, <2>2 DEF Edited
  <2>4. RecordedTools(i)[s[n].key] = s[n].value
    <3> DEFINE calls == {k \in known : s[k].key = s[n].key /\ s[k].value # Raised}
    <3>1. calls = {n}
      BY <1>4, <1>8
    <3>2. RecordedTools(i)[s[n].key] =
            IF calls = {} THEN None
            ELSE s[CHOOSE k \in calls : \A m \in calls : m <= k].value
      BY <1>8 DEF RecordedTools, Source
    <3>3. (CHOOSE k \in calls : \A m \in calls : m <= k) = n
      <4> HIDE DEF calls
      <4> QED BY <1>2, <3>1
    <3> HIDE DEF calls
    <3> QED BY <3>1, <3>2, <3>3
  <2>5. s[n].value \in Value /\ s[n].value # None
    BY <1>3, <1>4, <1>8, ReplayAssumption DEF CallMade
  <2>6. Pinned(q, s[n].key) = s[n].value
    BY <1>5, <1>8, <2>3, <2>4, ReplayAssumption DEF Pinned
  <2>7. Expected(q, n) = s[n]
    BY <1>8 DEF Expected
  <2> QED BY <2>5, <2>6, <2>7
<1> QED BY <1>3, <1>6, <1>7, <1>8 DEF CallMade

\* The reliability of a replay does not change while it runs, nor what it should do.
LEMMA SameRoad ==
  ASSUME RInv, Frozen, NEW q \in Request, Replaying(q), SameManifest(q)
  PROVE  /\ Reliable(q)' => Reliable(q)
         /\ \A n \in Nat : Expected(q, n)' = Expected(q, n)
<1>1. /\ stored'[branch[q].source].calls = stored[branch[q].source].calls
      /\ Source(q)' = Source(q)
  BY SourceOver
<1>2. /\ branch'[q].source = branch[q].source /\ branch'[q].of = branch[q].of
      /\ branch'[q].edit = branch[q].edit /\ branch'[q].value = branch[q].value /\ branch'[q].llm = branch[q].llm
  BY DEF SameManifest
<1>3. Reliable(q)' => Reliable(q)
  BY <1>1, <1>2 DEF Reliable
<1>4. \A n \in Nat : Expected(q, n)' = Expected(q, n)
  BY <1>1, <1>2 DEF Expected
<1> QED BY <1>3, <1>4

\* The call a replay makes next is its source's, with the answer expected there.
LEMMA NextOnTheRoad ==
  ASSUME RInv, Frozen, NEW q \in Request, Replaying(q), SameManifest(q), Reliable(q),
         MakeCall(q), Len(run[q].made) + 1 <= branch[q].edit,
         \A n \in 1..Len(run[q].made) : run[q].made[n] = Expected(q, n)
  PROVE  run'[q].made = Append(run[q].made, Expected(q, Len(run[q].made) + 1))
<1> DEFINE made == run[q].made  s == Source(q)  n == Len(run[q].made) + 1
<1>1. Len(made) \in Nat /\ made \in Seq(CallMade) /\ q \in Run /\ run \in [Run -> RunRec]
  BY Fields DEF RInv, RunRec
<1>2. /\ branch[q].edit \in 1..Len(s) /\ s \in Seq(CallMade) /\ Taken(s)
  BY SourceOver DEF Reliable
<1>3. Len(s) \in Nat
  BY <1>2
<1>4. n \in 1..branch[q].edit /\ n \in 1..Len(s) /\ n - 1 = Len(made)
  BY <1>1, <1>2, <1>3
<1>5. \A k \in 1..(n - 1) : made[k] = s[k]
  <2> SUFFICES ASSUME NEW k \in 1..(n - 1) PROVE made[k] = s[k]
    OBVIOUS
  <2>1. k \in 1..Len(made) /\ k # branch[q].edit
    BY <1>1, <1>2, <1>3, <1>4
  <2> QED BY <2>1 DEF Expected
<1>6. Answers(made) = [k \in 1..(n - 1) |-> s[k].value]
  <2> HIDE DEF n, s, made
  <2> QED BY <1>4, <1>5 DEF Answers
<1>7. NextCall(q) = s[n].key
  <2>1. s[n].key = Ask([k \in 1..(n - 1) |-> s[k].value])
    BY <1>2, <1>4 DEF Taken
  <2> HIDE DEF n, s
  <2> QED BY <1>6, <2>1 DEF NextCall
<1>8. /\ Pinned(q, s[n].key) # None
      /\ Expected(q, n) = [key |-> s[n].key, value |-> Pinned(q, s[n].key)]
  BY <1>4, PinnedAsExpected
<1>9. MayAnswer(q, NextCall(q)) = {Pinned(q, s[n].key)}
  <2> HIDE DEF n, s
  <2> QED BY <1>7, <1>8 DEF MayAnswer
<1>10. run' = [run EXCEPT ![q].made = Append(@, Expected(q, n))]
  <2>1. PICK v \in MayAnswer(q, NextCall(q)) :
          run' = [run EXCEPT ![q].made = Append(@, [key |-> NextCall(q), value |-> v])]
    BY DEF MakeCall
  <2> HIDE DEF n, s
  <2>2. v = Pinned(q, s[n].key)
    BY <1>9, <2>1
  <2> QED BY <1>7, <1>8, <2>1, <2>2
<1> HIDE DEF n
<1> QED BY <1>1, <1>10 DEF n

\* A step keeps every replay on its road.
LEMMA NextFollows ==
  ASSUME RInv, FollowsSourceToTheEdit, [Next]_vars PROVE FollowsSourceToTheEdit'
<1> SUFFICES ASSUME NEW q \in Request, Replaying(q)', Reliable(q)',
                    NEW n \in (1..branch'[q].edit) \cap (1..Len(run'[q].made))
             PROVE  run'[q].made[n] = Expected(q, n)'
  BY DEF FollowsSourceToTheEdit, Replaying
<1>1. Grows /\ Frozen
  BY NextRInv
<1>2. n \in Nat
  OBVIOUS
<1>3. CASE Replaying(q) /\ SameManifest(q) /\ run'[q].made = run[q].made
  <2>1. Reliable(q) /\ Expected(q, n)' = Expected(q, n)
    BY <1>1, <1>2, <1>3, SameRoad
  <2>2. run[q].made[n] = Expected(q, n)
    BY <1>3, <2>1 DEF FollowsSourceToTheEdit, Replaying, SameManifest
  <2> QED BY <1>3, <2>1, <2>2
<1>4. CASE Replaying(q) /\ SameManifest(q) /\ MakeCall(q)
  <2> DEFINE made == run[q].made  k == Len(made) + 1
  <2>1. Reliable(q) /\ \A m \in Nat : Expected(q, m)' = Expected(q, m)
    BY <1>1, <1>4, SameRoad
  <2>2. /\ Len(made) \in Nat /\ made \in Seq(CallMade) /\ q \in Run /\ run \in [Run -> RunRec]
        /\ branch[q].edit \in Nat
    BY Fields DEF RInv, RunRec, BranchRec
  <2>3. \A m \in 1..Len(made) : m <= branch[q].edit => made[m] = Expected(q, m)
    BY <1>4, <2>1, <2>2 DEF FollowsSourceToTheEdit, Replaying
  <2>4. PICK c : run'[q].made = Append(made, c)
    <3>1. PICK v \in MayAnswer(q, NextCall(q)) :
            run' = [run EXCEPT ![q].made = Append(@, [key |-> NextCall(q), value |-> v])]
      BY <1>4 DEF MakeCall
    <3> QED BY <2>2, <3>1
  <2>5. n <= branch[q].edit
    BY <1>4, <2>2 DEF SameManifest
  <2>6. CASE n \in 1..Len(made)
    <3>1. run'[q].made[n] = made[n]
      <4> HIDE DEF made
      <4> QED BY <2>2, <2>4, <2>6
    <3> QED BY <1>2, <2>1, <2>3, <2>5, <2>6, <3>1
  <2>7. CASE n \notin 1..Len(made)
    <3>1. n = k
      <4>1. Len(run'[q].made) = Len(made) + 1
        <5> HIDE DEF made
        <5> QED BY <2>2, <2>4
      <4> QED BY <2>2, <2>7, <4>1
    <3>2. \A m \in 1..Len(made) : made[m] = Expected(q, m)
      BY <2>2, <2>3, <2>5, <3>1
    <3>3. run'[q].made = Append(made, Expected(q, k))
      BY <1>1, <1>4, <2>1, <2>5, <3>1, <3>2, NextOnTheRoad
    <3>4. run'[q].made[k] = Expected(q, k)
      <4> HIDE DEF made
      <4> QED BY <2>2, <3>3
    <3> QED BY <1>2, <2>1, <3>1, <3>4
  <2> QED BY <2>6, <2>7
<1>5. CASE run'[q].made = <<>>
  BY <1>5
<1> QED BY <1>3, <1>4, <1>5, StepOfReplay

\* A replay of a reliable source takes the source's road, call by call and answer by
\* answer, up to the edit, where it gets the edited answer (engine.py:45-71,
\* agent.py:44-58): whatever the agent does with its answers.
THEOREM RoadFollowed == Spec => []FollowsSourceToTheEdit
<1>1. Init => FollowsSourceToTheEdit
  BY DEF Init, FollowsSourceToTheEdit
<1>2. RInv /\ FollowsSourceToTheEdit /\ [Next]_vars => FollowsSourceToTheEdit'
  BY NextFollows
<1>3. RInv /\ [Next]_vars => RInv'
  BY NextRInv
<1> QED BY <1>1, <1>2, <1>3, InitRInv, PTL DEF Spec
=============================================================================
