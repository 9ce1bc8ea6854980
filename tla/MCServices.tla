----------------------------- MODULE MCServices -----------------------------
(* Instances of the services that guard resources (the rate limiter, the   *)
(* cost tracker, the two caches, the client of a language server) and of   *)
(* those that keep files (transactions over files, the two override logs,  *)
(* the migrator of artifacts, the validator's hashes).  They share no      *)
(* state, so each is explored by itself: `part` says which.                *)
EXTENDS RateLimiter, CostTracker, MemoryCache, RedisCache, LanguageServer,
        CrossFileRefactorer, OverrideService, OverrideScopeManager,
        ArtifactMigrator, IncrementalValidator, TLC

VARIABLE part

MCThreshold == {[period |-> "daily", amount |-> 1],
                [period |-> "daily", amount |-> 2],
                [period |-> "monthly", amount |-> 2]}

MCCap == [daily |-> 2, monthly |-> 2]

MCScopeMax == [s \in LimitedScope |-> 1]

(* Two files of different text, one or both with foreign newlines.         *)
MCFiles ==
    LET left == CHOOSE p \in Path : TRUE
    IN  \A p \in Path : file[p] # (IF p = left THEN "other" ELSE "theirs")

(* What may be any value at first is fixed where the part is not explored. *)
MCInit ==
    /\ part \in {"limiter", "cost", "memory", "redis", "server", "refactor",
                "overrides", "scopes", "migrator", "validators"}
    /\ LimiterInit /\ (part # "limiter" => limit = 1)
    /\ CostInit
    /\ MemoryCacheInit /\ value = [k \in CacheKey |-> CHOOSE v \in CacheValue : TRUE]
    /\ RedisInit
    /\ ServerInit
    /\ RefactorInit /\ (IF part = "refactor" THEN MCFiles ELSE file = [p \in Path |-> "absent"])
    /\ OverrideInit
    /\ ScopeInit
    /\ ValidatorInit
    /\ MigratorInit /\ disk = [a \in Artifact |-> "old"]

MCLimiter ==
    /\ part = "limiter"
    /\ LimiterNext
    /\ UNCHANGED <<part, costVars, memoryVars, redisVars, serverVars,
                   refactorVars, overrideVars, scopeVars, migratorVars, validatorVars>>
MCCost ==
    /\ part = "cost"
    /\ CostNext
    /\ UNCHANGED <<part, limiterVars, memoryVars, redisVars, serverVars,
                   refactorVars, overrideVars, scopeVars, migratorVars, validatorVars>>
MCMemory ==
    /\ part = "memory"
    /\ MemoryCacheNext
    /\ UNCHANGED <<part, limiterVars, costVars, redisVars, serverVars,
                   refactorVars, overrideVars, scopeVars, migratorVars, validatorVars>>
MCRedis ==
    /\ part = "redis"
    /\ RedisNext
    /\ UNCHANGED <<part, limiterVars, costVars, memoryVars, serverVars,
                   refactorVars, overrideVars, scopeVars, migratorVars, validatorVars>>
MCServer ==
    /\ part = "server"
    /\ ServerNext
    /\ UNCHANGED <<part, limiterVars, costVars, memoryVars, redisVars,
                   refactorVars, overrideVars, scopeVars, migratorVars, validatorVars>>
MCRefactor ==
    /\ part = "refactor"
    /\ RefactorNext
    /\ UNCHANGED <<part, limiterVars, costVars, memoryVars, redisVars,
                   serverVars, overrideVars, scopeVars, migratorVars, validatorVars>>
MCOverrides ==
    /\ part = "overrides"
    /\ OverrideNext
    /\ UNCHANGED <<part, limiterVars, costVars, memoryVars, redisVars,
                   serverVars, refactorVars, scopeVars, migratorVars, validatorVars>>
(* Where managers have shared the files, or forgotten what was in one,     *)
(* nothing is claimed, and the run is not followed any further.            *)
MCScopes ==
    /\ part = "scopes" /\ ~shared /\ ~forgotten
    /\ ScopeNext
    /\ UNCHANGED <<part, limiterVars, costVars, memoryVars, redisVars,
                   serverVars, refactorVars, overrideVars, migratorVars, validatorVars>>
MCMigrator ==
    /\ part = "migrator"
    /\ MigratorNext
    /\ UNCHANGED <<part, limiterVars, costVars, memoryVars, redisVars,
                   serverVars, refactorVars, overrideVars, scopeVars, validatorVars>>
MCValidators ==
    /\ part = "validators"
    /\ ValidatorNext
    /\ UNCHANGED <<part, limiterVars, costVars, memoryVars, redisVars,
                   serverVars, refactorVars, overrideVars, scopeVars, migratorVars>>

MCNext ==
    \/ MCLimiter \/ MCCost \/ MCMemory \/ MCRedis \/ MCServer
    \/ MCRefactor \/ MCOverrides \/ MCScopes \/ MCMigrator \/ MCValidators

MCSpec ==
    MCInit /\ [][MCNext]_<<part, limiterVars, costVars, memoryVars, redisVars,
                          serverVars, refactorVars, overrideVars, scopeVars,
                          migratorVars, validatorVars>>

(* The type invariants of all parts.                                       *)
TypeOK ==
    /\ LimiterTypeOK
    /\ CostTypeOK
    /\ MemoryCacheTypeOK
    /\ RedisTypeOK
    /\ ServerTypeOK
    /\ RefactorTypeOK
    /\ OverrideTypeOK
    /\ ScopeTypeOK
    /\ MigratorTypeOK
    /\ ValidatorTypeOK
=============================================================================
