------------------------------ MODULE MCLLMCalls ------------------------------
(* An instance of LLMCalls: every use of a model has a record of its own.  *)
EXTENDS LLMCalls

MCRecords == Calls \X (1..MaxBackups + 1)
=============================================================================
