--------------------------- MODULE MCPipelineEngine ---------------------------
(***************************************************************************)
(* An instance of PipelineEngine: stage 1 stands for code_understanding,   *)
(* stage 2 for a stage that needs its row and pulls it in when enabled.    *)
(***************************************************************************)
EXTENDS PipelineEngine

SecondNeedsFirst == [s \in 1..2 |-> IF s = 2 THEN {1} ELSE {}]
=============================================================================
