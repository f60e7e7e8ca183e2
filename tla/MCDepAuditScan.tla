---------------------------- MODULE MCDepAuditScan ----------------------------
(* An instance of DepAuditScan with two handlers.                          *)
EXTENDS DepAuditScan, TLC

CONSTANTS o1, o2

Handlers == Permutations({o1, o2})
=============================================================================
