--------------------------- MODULE MCStreamWorker ---------------------------
(* Instances of StreamWorker for TLC. *)
EXTENDS StreamWorker, TLC

CONSTANTS session, subagent, traces

\* A session, its subagents, and the trace file its agent shares with all.
TraceOfSession == [f \in Files |-> IF f = session THEN SharedFiles ELSE {}]
SubagentOfSession ==
  [f \in Files |-> IF f = session THEN Files \ {session, traces} ELSE {}]

OneEach == [f \in Files |-> 1]
=============================================================================
