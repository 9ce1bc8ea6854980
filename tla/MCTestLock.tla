----------------------------- MODULE MCTestLock -----------------------------
(* Instances of TestLock for TLC: two test files, one TestPlan, two        *)
(* processes.                                                              *)
EXTENDS TestLock

CONSTANTS unit, system, plan, ann, bob

MCTestFile == {unit, system}
MCPlan     == {plan}
MCProc     == {ann, bob}
=============================================================================
