-------------------------- MODULE ParallelExecutor --------------------------
(***************************************************************************)
(* One ParallelExecutor and the calls of execute_sync and execute_async on *)
(* it, which may overlap (an async call awaits, threads may share the      *)
(* object).  Each call lets MaxWorkers of its tasks begin, a sync call     *)
(* with a pool of its own, an async one with a semaphore of its own.  An   *)
(* async task runs on a thread of the event loop's pool, which all async   *)
(* calls share: "running" includes its wait for one, which ends when the   *)
(* handlers ahead of it do.  All calls share the flag _cancelled, which a  *)
(* call clears when it begins.  A sync call reads it as results come in,   *)
(* in the order of completion; an async call when a task gets its turn,    *)
(* and sets it (fail_fast) only when all tasks are over.                   *)
(***************************************************************************)
EXTENDS Naturals, FiniteSets

CONSTANTS
    Call,           \* the calls that are made
    Task,           \* the tasks of each
    MaxWorkers      \* config.max_workers

ASSUME ExecutorAssumption ==
    /\ IsFiniteSet(Task)
    /\ MaxWorkers \in Nat \ {0}

VARIABLES
    mode,        \* mode[c]: how c was called; "returned" when it is over
    byAsync,     \* the calls that were made with execute_async
    task,        \* task[c][t]: what became of the task
    report,      \* report[c][t]: its ExecutionStatus in the result
    cancelled,   \* _cancelled
    failFast     \* config.fail_fast

executorVars == <<mode, byAsync, task, report, cancelled, failFast>>

TaskState == {"queued", "running", "done", "failed", "skipped"}
Verdict   == {"none", "completed", "failed", "cancelled"}

ExecutorTypeOK ==
    /\ mode \in [Call -> {"idle", "sync", "async", "returned"}]
    /\ byAsync \subseteq Call
    /\ task \in [Call -> [Task -> TaskState]]
    /\ report \in [Call -> [Task -> Verdict]]
    /\ cancelled \in BOOLEAN
    /\ failFast \in BOOLEAN

Running(c) == {t \in Task : task[c][t] = "running"}

Over(c, t) == task[c][t] \in {"done", "failed", "skipped"}

SetTask(c, t, s) == task' = [task EXCEPT ![c] = [@ EXCEPT ![t] = s]]

-----------------------------------------------------------------------------
ExecutorInit ==
    /\ mode = [c \in Call |-> "idle"]
    /\ byAsync = {}
    /\ task = [c \in Call |-> [t \in Task |-> "queued"]]
    /\ report = [c \in Call |-> [t \in Task |-> "none"]]
    /\ cancelled = FALSE
    /\ failFast \in BOOLEAN

Execute(c, how) ==
    /\ mode[c] = "idle"
    /\ mode' = [mode EXCEPT ![c] = how]
    /\ byAsync' = IF how = "async" THEN byAsync \cup {c} ELSE byAsync
    /\ cancelled' = FALSE
    /\ UNCHANGED <<task, report, failFast>>

(* A skipped task keeps the worker it was given.                           *)
StartTaskHolding(c, t) ==
    /\ mode[c] \in {"sync", "async"}
    /\ task[c][t] = "queued"
    /\ Cardinality({x \in Task : task[c][x] \in {"running", "skipped"}}) < MaxWorkers
    /\ SetTask(c, t, IF mode[c] = "async" /\ cancelled THEN "skipped" ELSE "running")
    /\ UNCHANGED <<mode, byAsync, report, cancelled, failFast>>

(* A thread of the call's pool takes the task; a coroutine that gets the   *)
(* semaphore looks at the flag, then hands the task to the shared pool,    *)
(* where it may still have to wait.                                        *)
StartTask(c, t) ==
    /\ mode[c] \in {"sync", "async"}
    /\ task[c][t] = "queued"
    /\ Cardinality(Running(c)) < MaxWorkers
    /\ SetTask(c, t, IF mode[c] = "async" /\ cancelled THEN "skipped" ELSE "running")
    /\ UNCHANGED <<mode, byAsync, report, cancelled, failFast>>

(* The handler returns or raises.                                          *)
FinishTask(c, t, outcome) ==
    /\ task[c][t] = "running"
    /\ SetTask(c, t, outcome)
    /\ UNCHANGED <<mode, byAsync, report, cancelled, failFast>>

(* A report that has no status for a task that was skipped.                *)
OutcomeUnset(c, t) ==
    CASE task[c][t] = "done"    -> "completed"
      [] task[c][t] = "failed"  -> "failed"
      [] task[c][t] = "skipped" -> "pending"

(* What a finished task is reported as when its own result is looked at.   *)
Outcome(c, t) ==
    CASE task[c][t] = "done"    -> "completed"
      [] task[c][t] = "failed"  -> "failed"
      [] task[c][t] = "skipped" -> "cancelled"

(* A sync call takes the next finished task: cancelled, if the flag is     *)
(* set, whatever the task has done.                                        *)
Collect(c, t) ==
    /\ mode[c] = "sync"
    /\ Over(c, t) /\ report[c][t] = "none"
    /\ report' = [report EXCEPT ![c][t] = IF cancelled THEN "cancelled" ELSE Outcome(c, t)]
    /\ cancelled' = (cancelled \/ (failFast /\ task[c][t] = "failed"))
    /\ UNCHANGED <<mode, byAsync, task, failFast>>

(* A sync call that does not wait for what is left once it is cancelled:   *)
(* the intent of the code after its loop.                                  *)
ReturnSyncEarly(c) ==
    /\ mode[c] = "sync"
    /\ cancelled \/ \A t \in Task : report[c][t] # "none"
    /\ mode' = [mode EXCEPT ![c] = "returned"]
    /\ report' = [report EXCEPT ![c] =
                    [t \in Task |-> IF @[t] = "none" THEN "cancelled" ELSE @[t]]]
    /\ UNCHANGED <<byAsync, task, cancelled, failFast>>

(* It returns when all are collected; leaving the pool waits for all, so   *)
(* that nothing is left to be cancelled after the loop.                    *)
ReturnSync(c) ==
    /\ mode[c] = "sync"
    /\ \A t \in Task : report[c][t] # "none"
    /\ mode' = [mode EXCEPT ![c] = "returned"]
    /\ UNCHANGED <<byAsync, task, report, cancelled, failFast>>

(* An async call gathers all its tasks, then reads their results.          *)
ReturnAsync(c) ==
    /\ mode[c] = "async"
    /\ \A t \in Task : Over(c, t)
    /\ mode' = [mode EXCEPT ![c] = "returned"]
    /\ report' = [report EXCEPT ![c] = [t \in Task |-> Outcome(c, t)]]
    /\ cancelled' = (cancelled \/ (failFast /\ \E t \in Task : task[c][t] = "failed"))
    /\ UNCHANGED <<byAsync, task, failFast>>

Cancel ==
    /\ cancelled' = TRUE
    /\ UNCHANGED <<mode, byAsync, task, report, failFast>>

Proceed(c) ==
    \/ \E t \in Task :
        \/ StartTask(c, t)
        \/ \E outcome \in {"done", "failed"} : FinishTask(c, t, outcome)
        \/ Collect(c, t)
    \/ ReturnSync(c)
    \/ ReturnAsync(c)

ExecutorNext ==
    \/ \E c \in Call, how \in {"sync", "async"} : Execute(c, how)
    \/ \E c \in Call : Proceed(c)
    \/ Cancel

ExecutorSpec == ExecutorInit /\ [][ExecutorNext]_executorVars

(* Threads and coroutines are scheduled, and handlers come to an end.      *)
ExecutorFairness == \A c \in Call : WF_executorVars(Proceed(c))

-----------------------------------------------------------------------------
(* Properties *)

(* What a call that has returned says of its tasks is true, whoever        *)
(* cancels, and whoever clears the flag: every task is reported, none is   *)
(* still under way, and completed and failed ones are what the handler     *)
(* made them.  Cancelled by an async call was never started; by a sync     *)
(* call it has run all the same.                                           *)
ReportsAreTrue ==
    \A c \in Call, t \in Task :
        mode[c] = "returned" =>
            /\ Over(c, t)
            /\ report[c][t] # "none"
            /\ report[c][t] = "completed" => task[c][t] = "done"
            /\ report[c][t] = "failed" => task[c][t] = "failed"
            /\ report[c][t] = "cancelled" /\ c \in byAsync => task[c][t] = "skipped"

(* A call returns, if handlers do, however often the executor is cancelled *)
(* or used again meanwhile: again and again, and so for good in the end,   *)
(* none of the calls that were made is under way.                          *)
EveryCallReturns == []<>(\A c \in Call : mode[c] \in {"idle", "returned"})
=============================================================================
