------------------------------ MODULE MCWorkbench ------------------------------
(* Two traces; t1 has a tool call and a plain span, t2 a tool call. *)
EXTENDS Workbench, TLC

CONSTANTS s1, s2, s3, t1, t2, k1, k2

MCSpan  == {s1, s2, s3}
MCTrace == {t1, t2}
MCTraceOf == [s \in MCSpan |-> IF s = s3 THEN t2 ELSE t1]
MCToolSpan == {s1, s3}

\* A breakpoint for each trace; one that any span satisfies.
MCMatches    == (k1 :> {s1}) @@ (k2 :> {s3})
MCMatchesAny == [b \in Breakpoint |-> Span]

\* One of the two breakpoints is there from the start.
MCInit     == Init /\ hits[k2] = NoHit
MCLiveSpec == MCInit /\ [][Next]_vars /\ Fairness
================================================================================
