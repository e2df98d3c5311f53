-------------------------------- MODULE SpanLog --------------------------------
(***************************************************************************)
(* What an instrumented program may rely on: a durable log of spans.  Spans *)
(* are recorded one at a time, in any order and any number of times; a     *)
(* batch is promised only once all of it is recorded; nothing recorded or  *)
(* promised is ever taken back.  TraceIngest implements it, whatever       *)
(* statement fails and whenever the process is killed.                     *)
(***************************************************************************)
CONSTANTS Span, Batch, SpansOf(_)

VARIABLES stored, promised

logVars == <<stored, promised>>

Init == stored = {} /\ promised = {}

Record(s) == /\ stored' = stored \cup {s}
             /\ UNCHANGED promised

Promise(b) == /\ SpansOf(b) \subseteq stored
              /\ promised' = promised \cup {b}
              /\ UNCHANGED stored

Next == \/ \E s \in Span : Record(s)
        \/ \E b \in Batch : Promise(b)

Spec == Init /\ [][Next]_logVars
================================================================================
