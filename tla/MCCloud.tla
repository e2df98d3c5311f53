-------------------------------- MODULE MCCloud --------------------------------
(* Up to three requests at a time: rivals for one address and a login; a signup   *)
(* and a read; a signup and two batches for whatever tenant the client has a key  *)
(* for; a batch and a replay job, with a message of unknown origin in the queue.  *)
EXTENDS Cloud

CONSTANTS r1, r2, r3, r4, e1, e2

MCRequest == {r1, r2, r3, r4}
MCEmailOf == [r \in MCRequest |-> IF r = r3 THEN e2 ELSE e1]
MCTraffic ==
  LET mix(a, b, c, d) == [r \in MCRequest |-> CASE r = r1 -> a [] r = r2 -> b
                                                [] r = r3 -> c [] r = r4 -> d]
  IN  {mix("signup", "signup", "none", "login"),
       mix("none", "none", "signup", "read"),
       mix("signup", "ingest", "none", "ingest"),
       mix("none", "ingest", "branch", "none")}

\* The job of r3 has been sent to the queue.
MCWithQueue == {mix \in MCTraffic : mix[r3] = "branch"}
================================================================================
