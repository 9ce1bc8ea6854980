------------------------ MODULE UnifiedOrchestrator ------------------------
(***************************************************************************)
(* Tasks for a language model, by an API provider or by an agent on the    *)
(* command line (UnifiedOrchestrator), with the selector of providers they *)
(* share (ProviderSelector).  A pass over the providers, in the order of   *)
(* the strategy, or over the agents that are available, by priority, ends  *)
(* with the first success; a pass that fails may fall back to the other    *)
(* kind.  Tasks are coroutines: they interleave at every await.            *)
(***************************************************************************)
EXTENDS Lists, SequencesExt

CONSTANTS
    Request,       \* the tasks that are asked for
    ByPriority,    \* the providers, as a sequence
    ByCost,        \* the same providers, the cheapest first
    AgentList,     \* the agents on the command line, by priority
    MaxRetries,    \* _max_retries: providers tried in one pass
    Turns          \* a common multiple of all numbers of providers

Provider == ToSet(ByPriority)
Agent == ToSet(AgentList)

ASSUME OrchestratorAssumption ==
    /\ IsInjective(ByPriority) /\ IsInjective(ByCost) /\ IsInjective(AgentList)
    /\ {ByPriority, ByCost} \subseteq Seq(Provider) /\ AgentList \in Seq(Agent)
    /\ ToSet(ByCost) = Provider
    /\ MaxRetries \in Nat
    /\ Turns \in Nat \ {0} /\ \A n \in 1 .. Len(ByPriority) : Turns % n = 0

VARIABLES
    fallback,   \* "cli" with fallback_to_cli, "api" with fallback_to_api
    selector,   \* there is an API selector
    request,    \* request[r]: where it stands
    compiler,   \* requests with pass_type, context and schema
    inDir,      \* requests whose working_dir is known
    left,       \* left[r]: providers or agents this pass has still to try
    enabled,    \* enabled providers
    strategy,   \* _strategy
    turn        \* _current_index, modulo Turns

orchestratorVars == <<fallback, selector, request, compiler, inDir, left,
                      enabled, strategy, turn>>

chain == <<enabled, strategy, turn>>

OrchestratorTypeOK ==
    /\ fallback \subseteq {"api", "cli"}
    /\ selector \in BOOLEAN
    /\ request \in [Request -> {"new", "api", "cli", "providers", "agents", "succeeded", "failed"}]
    /\ compiler \subseteq Request /\ inDir \subseteq Request
    /\ left \in [Request -> Seq(Provider \cup Agent)]
    /\ enabled \subseteq Provider
    /\ strategy \in {"priority", "round_robin", "cost_based"}
    /\ turn \in 0 .. Turns - 1

-----------------------------------------------------------------------------
OrchestratorInit ==
    /\ fallback \in SUBSET {"api", "cli"}
    /\ selector \in BOOLEAN
    /\ request = [r \in Request |-> "new"]
    /\ compiler = {} /\ inDir = {}
    /\ left = [r \in Request |-> <<>>]
    /\ enabled = Provider
    /\ strategy \in {"priority", "round_robin", "cost_based"}
    /\ turn = 0

Enabled(list) == Without(list, Provider \ enabled)

(* _get_fallback_order from _select_provider.                              *)
FallbackOrder ==
    LET list == Enabled(ByPriority) IN
    CASE strategy = "priority"    -> list
      [] strategy = "cost_based"  -> Enabled(ByCost)
      [] strategy = "round_robin" ->
           [i \in 1 .. Len(list) |-> list[((turn + i - 1) % Len(list)) + 1]]

FirstOf(list, n) == SubSeq(list, 1, IF n < Len(list) THEN n ELSE Len(list))

Step(r, to, rest) ==
    /\ request' = [request EXCEPT ![r] = to]
    /\ left' = [left EXCEPT ![r] = rest]
    /\ UNCHANGED <<fallback, selector>>

(* execute: the mode is given, or follows from the task type; perhaps with *)
(* what a compiler pass needs, perhaps with a working directory.           *)
ExecuteRequest(r, mode, forCompiler, withDir) ==
    /\ request[r] = "new"
    /\ Step(r, mode, <<>>)
    /\ compiler' = IF forCompiler THEN compiler \cup {r} ELSE compiler
    /\ inDir' = IF withDir THEN inDir \cup {r} ELSE inDir
    /\ UNCHANGED chain

AfterApi(r) == IF "cli" \in fallback THEN "cli" ELSE "failed"

(* No selector, or nothing for a compiler: no provider can be asked.       *)
NoApi(r) ==
    /\ request[r] = "api"
    /\ ~selector \/ r \notin compiler
    /\ Step(r, AfterApi(r), <<>>)
    /\ UNCHANGED <<compiler, inDir, chain>>

(* The providers are fixed for the pass now.                               *)
BeginApi(r) ==
    /\ request[r] = "api"
    /\ selector /\ r \in compiler
    /\ Step(r, "providers", FirstOf(FallbackOrder, MaxRetries))
    /\ UNCHANGED <<compiler, inDir, chain>>

(* A success moves the rotation on.                                        *)
ProviderAnswers(r) ==
    /\ request[r] = "providers" /\ left[r] # <<>>
    /\ Step(r, "succeeded", <<>>)
    /\ turn' = IF strategy = "round_robin" THEN (turn + 1) % Turns ELSE turn
    /\ UNCHANGED <<compiler, inDir, enabled, strategy>>

(* An error, or no answer in time.                                         *)
ProviderFails(r) ==
    /\ request[r] = "providers" /\ left[r] # <<>>
    /\ Step(r, "providers", Tail(left[r]))
    /\ UNCHANGED <<compiler, inDir, chain>>

(* All failed, or none is enabled: an exception.                           *)
ApiFails(r) ==
    /\ request[r] = "providers" /\ left[r] = <<>>
    /\ Step(r, IF r \in inDir THEN AfterApi(r) ELSE "failed", <<>>)
    /\ UNCHANGED <<compiler, inDir, chain>>

(* The agents that are available now, and have the capability the task     *)
(* needs, are tried in order.  From here on the directory is known.        *)
BeginCli(r, ready) ==
    /\ request[r] = "cli"
    /\ Step(r, "agents", Without(AgentList, Agent \ ready))
    /\ inDir' = inDir \cup {r}
    /\ UNCHANGED <<compiler, chain>>

AgentSucceeds(r) ==
    /\ request[r] = "agents" /\ left[r] # <<>>
    /\ Step(r, "succeeded", <<>>)
    /\ UNCHANGED <<compiler, inDir, chain>>

AgentFails(r) ==
    /\ request[r] = "agents" /\ left[r] # <<>>
    /\ Step(r, "agents", Tail(left[r]))
    /\ UNCHANGED <<compiler, inDir, chain>>

(* A fallback that does not ask whether it is configured.                  *)
CliFailsOver(r) ==
    /\ request[r] = "agents" /\ left[r] = <<>>
    /\ Step(r, "api", <<>>)
    /\ UNCHANGED <<compiler, inDir, chain>>

CliFails(r) ==
    /\ request[r] = "agents" /\ left[r] = <<>>
    /\ Step(r, IF "api" \in fallback THEN "api" ELSE "failed", <<>>)
    /\ UNCHANGED <<compiler, inDir, chain>>

(* enable_provider and disable_provider; a pass under way keeps its list.  *)
SetEnabled(set) ==
    /\ enabled' = set
    /\ UNCHANGED <<fallback, selector, request, compiler, inDir, left, strategy, turn>>

SetStrategy(s) ==
    /\ strategy' = s
    /\ turn' = 0
    /\ UNCHANGED <<fallback, selector, request, compiler, inDir, left, enabled>>

GoOn(r) ==
    \/ NoApi(r) \/ BeginApi(r) \/ ProviderAnswers(r) \/ ProviderFails(r) \/ ApiFails(r)
    \/ \E ready \in SUBSET Agent : BeginCli(r, ready)
    \/ AgentSucceeds(r) \/ AgentFails(r) \/ CliFails(r)

OrchestratorNext ==
    \/ \E r \in Request, mode \in {"api", "cli"}, forCompiler, withDir \in BOOLEAN :
        ExecuteRequest(r, mode, forCompiler, withDir)
    \/ \E r \in Request : GoOn(r)
    \/ \E p \in Provider : SetEnabled(enabled \cup {p}) \/ SetEnabled(enabled \ {p})
    \/ \E s \in {"priority", "round_robin", "cost_based"} : SetStrategy(s)

OrchestratorSpec == OrchestratorInit /\ [][OrchestratorNext]_orchestratorVars

(* Providers are given a timeout, agents too; the loop runs what is ready. *)
OrchestratorFairness == \A r \in Request : WF_orchestratorVars(GoOn(r))

-----------------------------------------------------------------------------
(* Properties *)

(* Every task ends, whatever fails: again and again, and so for good in    *)
(* the end, none of those that were asked for is under way.  Not so with   *)
(* both fallbacks, as they are by default: a task that everybody fails at  *)
(* goes from one to the other until Python's stack is full.                *)
EveryTaskEnds ==
    fallback # {"api", "cli"} =>
        []<>(\A r \in Request : request[r] \in {"new", "succeeded", "failed"})
=============================================================================
