-------------------------------- MODULE MCReplay --------------------------------
(* Two agents that ask their model once and then look something up.  One then     *)
(* orders if the answer was `good'; the other looks up again.  The first answer   *)
(* may be `said' in the prompt's own history.                                     *)
EXTENDS Replay

CONSTANTS plan, lookup, order, good, bad

\* Like examples/replayable_agent: every tool once.
MCOrderBot(answers) ==
  CASE Len(answers) = 0 -> plan
    [] Len(answers) = 1 -> lookup
    [] Len(answers) = 2 -> IF answers[2] = good THEN order ELSE Stop
    [] Len(answers) > 2 -> Stop

MCLookTwice(answers) ==
  CASE Len(answers) = 0 -> plan
    [] Len(answers) \in {1, 2} -> lookup
    [] Len(answers) > 2 -> Stop

MCSaid == [h \in Llm |-> good]
================================================================================
