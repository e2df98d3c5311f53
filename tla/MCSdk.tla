--------------------------------- MODULE MCSdk ---------------------------------
(* Two threads of an agent that may configure the SDK without patterns or with. *)
EXTENDS Sdk

CONSTANTS t1, t2, plain, strict
================================================================================
