----------------------------- MODULE MCWorkflows -----------------------------
(* Instances of the components that must make progress: the executor of    *)
(* parallel tasks, the connections of the web server, the orchestrator of  *)
(* models and the phases of a batch run.  They share no state, so each is  *)
(* explored by itself: `part` says which.                                  *)
EXTENDS ParallelExecutor, ConnectionManager, UnifiedOrchestrator,
        LifecycleOrchestrator, TLC

VARIABLE part

MCProviders == <<"claude", "ollama">>
MCByCost == <<"ollama", "claude">>
MCAgents == <<"aider", "codex">>

(* What may be any value at first is fixed where the part is not explored. *)
MCInit ==
    /\ part \in {"executor", "connections", "orchestrator", "lifecycle"}
    /\ ExecutorInit /\ (part # "executor" => failFast)
    /\ ConnectionInit
    /\ OrchestratorInit
    /\ LifecycleInit
    /\ part # "orchestrator" => fallback = {} /\ selector /\ strategy = "priority"

allVars == <<part, executorVars, connectionVars, orchestratorVars, lifecycleVars>>

MCExecutor ==
    /\ part = "executor"
    /\ ExecutorNext
    /\ UNCHANGED <<part, connectionVars, orchestratorVars, lifecycleVars>>
MCConnections ==
    /\ part = "connections"
    /\ ConnectionNext
    /\ UNCHANGED <<part, executorVars, orchestratorVars, lifecycleVars>>
MCOrchestrator ==
    /\ part = "orchestrator"
    /\ OrchestratorNext
    /\ UNCHANGED <<part, executorVars, connectionVars, lifecycleVars>>

(* A run begun anew after its state was lost is not followed any further:  *)
(* it is a run like the first, of which nothing saved before is claimed.   *)
MCLifecycle ==
    /\ part = "lifecycle"
    /\ ~(lost /\ place = "idle" /\ runState # Nothing)
    /\ LifecycleNext
    /\ UNCHANGED <<part, executorVars, connectionVars, orchestratorVars>>

MCNext == MCExecutor \/ MCConnections \/ MCOrchestrator \/ MCLifecycle

MCSpec ==
    /\ MCInit /\ [][MCNext]_allVars
    /\ ExecutorFairness /\ ConnectionFairness /\ OrchestratorFairness

(* The type invariants of all parts.                                       *)
TypeOK ==
    /\ ExecutorTypeOK
    /\ ConnectionTypeOK
    /\ OrchestratorTypeOK
    /\ LifecycleTypeOK
=============================================================================
