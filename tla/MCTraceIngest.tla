----------------------------- MODULE MCTraceIngest -----------------------------
(***************************************************************************)
(* A small store for TLC.  Trace t1 is split over two batches, as the SDK's *)
(* periodic export splits a long run: the failing tool call s1 and an LLM   *)
(* call s2 leave before the root s3.  b2 also carries a whole second trace. *)
(***************************************************************************)
EXTENDS TraceIngest

CONSTANTS s1, s2, s3, s4, s5, t1, t2, h1, p1, p2, k1, b1, b2

MCSpan  == {s1, s2, s3, s4, s5}
MCTrace == {t1, t2}
MCHash  == {h1}
MCProject == {p1, p2}
MCBreakpoint == {k1}

Plain(t) == [trace |-> t, error |-> FALSE, started |-> TRUE,
             messages |-> 0, tool |-> FALSE, pins |-> NoHash,
             model |-> FALSE, breaks |-> {}]

MCInfo == [s \in MCSpan |->
  CASE s = s1 -> [Plain(t1) EXCEPT !.error = TRUE, !.tool = TRUE, !.breaks = {k1}]
    [] s = s2 -> [Plain(t1) EXCEPT !.messages = 1, !.pins = h1, !.model = TRUE]
    [] s = s3 -> Plain(t1)
    [] s \in {s4, s5} -> Plain(t2)]

Of(t, ss) == [trace |-> t, spans |-> ss]

MCBatch == {b1, b2}
MCRequest == [b \in MCBatch |->
  IF b = b1 THEN [project |-> p1, groups |-> <<Of(t1, <<s1, s2>>)>>]
            ELSE [project |-> p1, groups |-> <<Of(t1, <<s3>>), Of(t2, <<s4, s5>>)>>]]
================================================================================
