-------------------------- MODULE MCArtifactStore --------------------------
(* Instances of ArtifactStore for TLC: a test plan and, where artifacts    *)
(* meet in the approvals file, another artifact; CLI processes and one web *)
(* worker.                                                                 *)
EXTENDS ArtifactStore, TLC

CONSTANTS plan, design, cli, web

MCArtifact == {plan, design}
MCTestPlan == {plan}
MCProc     == {cli, web}
MCResident == {web}
CLIOnly    == {cli}
WebOnly    == {web}
Nobody     == {}

ASSUME OneWorkerAssumption == OneWorker
=============================================================================
