---------------------------- MODULE MCPhaseGate ----------------------------
(* The two wirings of PhaseGate: the one the commands have, and the one    *)
(* that test_phase_service.py gives the service.                           *)
EXTENDS PhaseGate

Everyone == Command
AsBuilt  == {"validate", "resume", "refactor check", "refactor dry-run",
             "refactor apply"}
=============================================================================
