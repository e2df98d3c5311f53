-------------------------------- MODULE MCParts --------------------------------
(* Six parts that share no state, one of them at work: the trace diff and its pane, the *)
(* breakpoint conditions, the navigation, the payload store and the sessions.  The      *)
(* others stay as they begin.                                                           *)
EXTENDS TraceDiff, DiffPane, Predicate, Navigation, PayloadStore, Sessions, TLC

VARIABLE part

-----------------------------------------------------------------------------
(* Fields are null, numbers and strings; `inf' is a number to Rust and Python, `0x10' *)
(* to TypeScript.                                                                     *)
Str(n) == [t |-> "str", v |-> n]

NumberWords == [rust |-> {"inf"}, python |-> {"inf"}, ts |-> {"0x10"}]
Literals    == {Num(1), Str(1), [t |-> "bool", v |-> 1]}
FieldValues == {Null, Num(0), Num(1), Num(2), Str(1), Str(2)}

\* Two requests: of the same or of two spans, of a tool or of calls with the same hash.
Exports == [span : {"tool"}, size : [{"arguments", "result"} -> {"none", "small", "large"}]]
             \cup [span : {"llm1", "llm2"}, size : [content : {"large"}, response : {"small", "large", "uri"}]]

\* A trace of one span and two without.
TracesKept == 1..3
SpansKept  == [t \in TracesKept |-> IF t = 1 THEN 1 ELSE 0]

\* Only a root is `branched'.
DiffInit ==
  LET RootFirst == {t \in Traces : \A n \in 2..Len(t) : ~t[n].branched}
  IN  a \in RootFirst /\ b \in RootFirst /\ Init

Fresh(d) == export[d].span = "tool" /\ \A f \in {"arguments", "result"} : Sent(d, f) = None

MCInit ==
  /\ part \in {"diff", "pane", "conditions", "navigation", "payloads", "sessions"}
  /\ SourceInit
  /\ PaneInit /\ inOrder  \* the orders in which LastDiffShown says something
  /\ SessionInit /\ (part # "sessions" => env.secret /\ ~env.cognito)
  /\ PayloadInit /\ (part # "payloads" => \A d \in Delivery : Fresh(d))
  /\ IF part = "navigation" THEN WalkInit /\ Cardinality(untimed) <= 1
     ELSE parent = <<>> /\ WalkInit
  /\ IF part = "diff" THEN DiffInit ELSE a = <<>> /\ b = <<>> /\ i = 1 /\ j = 1 /\ out = <<>>

MCNext ==
  /\ UNCHANGED part
  /\ \/ part = "diff" /\ Next
        /\ UNCHANGED <<source, walkVars, payloadVars, paneVars, sessionVars>>
     \/ part = "pane" /\ PaneNext
        /\ UNCHANGED <<vars, source, walkVars, payloadVars, sessionVars>>
     \/ part = "conditions" /\ SourceNext
        /\ UNCHANGED <<vars, walkVars, payloadVars, paneVars, sessionVars>>
     \/ part = "navigation" /\ WalkNext
        /\ UNCHANGED <<vars, source, payloadVars, paneVars, sessionVars>>
     \/ part = "payloads" /\ PayloadNext
        /\ UNCHANGED <<vars, source, walkVars, paneVars, sessionVars>>
     \/ part = "sessions" /\ SessionNext
        /\ UNCHANGED <<vars, source, walkVars, payloadVars, paneVars>>

MCSpec == MCInit /\ [][MCNext]_<<part, vars, source, walkVars, payloadVars, paneVars, sessionVars>>

================================================================================
