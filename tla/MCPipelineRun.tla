---------------------------- MODULE MCPipelineRun ----------------------------
(* Constants of PipelineRun for TLC: small pipelines. *)
EXTENDS PipelineRun, TLC

CONSTANT r1

(* A tool, then an agent behind a `when:` beside an ask, then a tool after the agent. *)
Fork4 == [s \in Steps |-> CASE s = 1 -> {} [] s \in {2, 3} -> {1} [] OTHER -> {2}]
Mixed == [s \in Steps |-> CASE s \in {1, 4} -> "tool" [] s = 2 -> "agent" [] OTHER -> "ask"]
AnyOf == SelectSeq(<<4, 3>>, LAMBDA s : s \in Steps)
=============================================================================
