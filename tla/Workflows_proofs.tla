-------------------------- MODULE Workflows_proofs --------------------------
(***************************************************************************)
(* Proofs about the components that run workflows, ParallelExecutor,       *)
(* LifecycleOrchestrator, ConnectionManager and UnifiedOrchestrator, for   *)
(* any number of calls, tasks, workers, phases, clients, broadcasts,       *)
(* requests and providers.                                                 *)
(***************************************************************************)
EXTENDS MCWorkflows, Lists_proofs, SequenceTheorems, TLAPS

-----------------------------------------------------------------------------
(* The executor of parallel tasks.  What a report says of a task is true   *)
(* as soon as it says it, ...                                              *)
SaidTruly(c, t) ==
    report[c][t] # "none" =>
        /\ Over(c, t)
        /\ report[c][t] = "completed" => task[c][t] = "done"
        /\ report[c][t] = "failed" => task[c][t] = "failed"
        /\ report[c][t] = "cancelled" /\ c \in byAsync => task[c][t] = "skipped"

(* ... a call that has returned has said it of every task, and a sync call *)
(* was not made with execute_async.                                        *)
ReportInv ==
    /\ ExecutorTypeOK
    /\ \A c \in Call :
        /\ mode[c] \in {"idle", "sync"} => c \notin byAsync
        /\ mode[c] = "idle" => \A t \in Task : report[c][t] = "none"
        /\ \A t \in Task : SaidTruly(c, t)
        /\ mode[c] = "returned" => \A t \in Task : report[c][t] # "none"

LEMMA ReportInitInv == ExecutorInit => ReportInv
<1> SUFFICES ASSUME ExecutorInit PROVE ReportInv
  OBVIOUS
<1>1. failFast \in BOOLEAN /\ cancelled \in BOOLEAN
  BY Zenon DEF ExecutorInit
<1>2. ExecutorTypeOK
  BY <1>1 DEF ExecutorInit, ExecutorTypeOK, TaskState, Verdict
<1>3. \A c \in Call : mode[c] = "idle" /\ c \notin byAsync /\ \A t \in Task : report[c][t] = "none"
  BY DEF ExecutorInit
<1> QED
  BY <1>2, <1>3 DEF ReportInv, SaidTruly

(* A step that changes a task which is not over yet.                       *)
LEMMA TaskMoves ==
    ASSUME ReportInv, NEW c \in Call, NEW t \in Task, ~Over(c, t),
           NEW s \in TaskState, SetTask(c, t, s),
           UNCHANGED <<mode, byAsync, report, cancelled, failFast>>
    PROVE  ReportInv'
<1>1. task[c] \in [Task -> TaskState] /\ task \in [Call -> [Task -> TaskState]]
  BY DEF ReportInv, ExecutorTypeOK
<1>2. task' \in [Call -> [Task -> TaskState]]
  BY <1>1 DEF SetTask
<1>3. ExecutorTypeOK'
  BY <1>2 DEF ReportInv, ExecutorTypeOK
<1>4. \A d \in Call, x \in Task : Over(d, x) => task'[d][x] = task[d][x]
  BY <1>1 DEF SetTask, Over
<1>5. \A d \in Call, x \in Task : SaidTruly(d, x)'
  BY <1>4 DEF ReportInv, SaidTruly, Over
<1> QED
  BY <1>3, <1>5 DEF ReportInv

LEMMA ReportStepInv == ReportInv /\ [ExecutorNext]_executorVars => ReportInv'
<1> SUFFICES ASSUME ReportInv, [ExecutorNext]_executorVars PROVE ReportInv'
  OBVIOUS
<1>t. ExecutorTypeOK
  BY DEF ReportInv
<1>1. ASSUME NEW c \in Call, NEW how \in {"sync", "async"}, Execute(c, how)
      PROVE  ReportInv'
  <2>1. ExecutorTypeOK'
    BY <1>1, <1>t DEF Execute, ExecutorTypeOK
  <2>2. \A d \in Call, t \in Task : SaidTruly(d, t)'
    BY <1>1 DEF Execute, ReportInv, SaidTruly, Over
  <2> QED
    BY <1>1, <1>t, <2>1, <2>2 DEF Execute, ReportInv, ExecutorTypeOK
<1>2. ASSUME NEW c \in Call, NEW t \in Task, StartTask(c, t) PROVE ReportInv'
  BY <1>2, TaskMoves DEF StartTask, Over, TaskState
<1>3. ASSUME NEW c \in Call, NEW t \in Task, NEW outcome \in {"done", "failed"},
             FinishTask(c, t, outcome)
      PROVE  ReportInv'
  BY <1>3, TaskMoves DEF FinishTask, Over, TaskState
<1>4. ASSUME NEW c \in Call, NEW t \in Task, Collect(c, t) PROVE ReportInv'
  <2>1. Outcome(c, t) \in Verdict
    BY <1>4 DEF Collect, Over, Outcome, Verdict
  <2>2. cancelled' \in BOOLEAN
    BY <1>4, Zenon DEF Collect
  <2>3. report[c] \in [Task -> Verdict] /\ report \in [Call -> [Task -> Verdict]]
    BY <1>t DEF ExecutorTypeOK
  <2>4. report' \in [Call -> [Task -> Verdict]]
    BY <1>4, <2>1, <2>3 DEF Collect, Verdict
  <2>5. ExecutorTypeOK'
    BY <1>4, <1>t, <2>2, <2>4 DEF Collect, ExecutorTypeOK
  <2>6. SaidTruly(c, t)'
    <3>1. report'[c][t] \in {"cancelled", Outcome(c, t)}
      BY <1>4, <2>3 DEF Collect
    <3>2. c \notin byAsync /\ Over(c, t) /\ UNCHANGED <<task, byAsync>>
      BY <1>4 DEF Collect, ReportInv
    <3> QED
      BY <3>1, <3>2 DEF SaidTruly, Over, Outcome
  <2>7. \A d \in Call, x \in Task : <<d, x>> # <<c, t>> => report'[d][x] = report[d][x]
    BY <1>4, <2>3 DEF Collect
  <2>8. \A d \in Call, x \in Task : SaidTruly(d, x)'
    BY <1>4, <2>6, <2>7 DEF Collect, ReportInv, SaidTruly, Over
  <2> QED
    BY <1>4, <2>5, <2>7, <2>8 DEF Collect, ReportInv
<1>5. ASSUME NEW c \in Call, ReturnSync(c) PROVE ReportInv'
  <2>1. ExecutorTypeOK'
    BY <1>5, <1>t DEF ReturnSync, ExecutorTypeOK
  <2>2. \A d \in Call, t \in Task : SaidTruly(d, t)'
    BY <1>5 DEF ReturnSync, ReportInv, SaidTruly, Over
  <2>3. mode'[c] = "returned" /\ \A d \in Call \ {c} : mode'[d] = mode[d]
    BY <1>5, <1>t DEF ReturnSync, ExecutorTypeOK
  <2> QED
    BY <1>5, <2>1, <2>2, <2>3 DEF ReturnSync, ReportInv
<1>6. ASSUME NEW c \in Call, ReturnAsync(c) PROVE ReportInv'
  <2>1. \A t \in Task : Over(c, t) /\ Outcome(c, t) \in Verdict /\ Outcome(c, t) # "none"
    BY <1>6 DEF ReturnAsync, Over, Outcome, Verdict
  <2>2. cancelled' \in BOOLEAN
    BY <1>6, Zenon DEF ReturnAsync
  <2>3. report' \in [Call -> [Task -> Verdict]]
    BY <1>6, <1>t, <2>1 DEF ReturnAsync, ExecutorTypeOK
  <2>4. ExecutorTypeOK'
    BY <1>6, <1>t, <2>2, <2>3 DEF ReturnAsync, ExecutorTypeOK
  <2>5. \A t \in Task : report'[c][t] = Outcome(c, t)
    BY <1>6, <1>t DEF ReturnAsync, ExecutorTypeOK
  <2>6. \A t \in Task : SaidTruly(c, t)'
    BY <1>6, <2>1, <2>5 DEF ReturnAsync, SaidTruly, Outcome, Over
  <2>7. \A d \in Call \ {c} : report'[d] = report[d] /\ mode'[d] = mode[d]
    BY <1>6, <1>t DEF ReturnAsync, ExecutorTypeOK
  <2>8. \A d \in Call \ {c}, t \in Task : SaidTruly(d, t)'
    BY <1>6, <2>7 DEF ReturnAsync, ReportInv, SaidTruly, Over
  <2>9. mode'[c] = "returned" /\ byAsync' = byAsync
    BY <1>6, <1>t DEF ReturnAsync, ExecutorTypeOK
  <2> QED
    BY <2>1, <2>4, <2>5, <2>6, <2>7, <2>8, <2>9 DEF ReportInv
<1>7. ASSUME Cancel \/ UNCHANGED executorVars PROVE ReportInv'
  <2>1. UNCHANGED <<mode, byAsync, task, report, failFast>>
    BY <1>7 DEF Cancel, executorVars
  <2>2. cancelled' \in BOOLEAN
    BY <1>7, <1>t, Zenon DEF Cancel, executorVars, ExecutorTypeOK
  <2>3. ExecutorTypeOK'
    BY <1>t, <2>1, <2>2 DEF ExecutorTypeOK
  <2> QED
    BY <2>1, <2>3 DEF ReportInv, SaidTruly, Over
<1> QED
  BY <1>1, <1>2, <1>3, <1>4, <1>5, <1>6, <1>7 DEF ExecutorNext, Proceed

LEMMA ReportInvariance == ExecutorSpec => []ReportInv
  BY ReportInitInv, ReportStepInv, PTL DEF ExecutorSpec

(* The executor's tables keep their types.                                 *)
THEOREM ExecutorTyping == ExecutorSpec => []ExecutorTypeOK
  BY ReportInvariance, PTL DEF ReportInv

(* What execute_sync and execute_async return is true of every task,       *)
(* whoever cancels and whoever clears the flag they all share: completed   *)
(* and failed ones are what the handler made them, none is under way, and  *)
(* what an async call reports as cancelled was never started.              *)
THEOREM ReturnedReportsAreTrue == ExecutorSpec => []ReportsAreTrue
<1>1. ReportInv => ReportsAreTrue
  BY DEF ReportInv, SaidTruly, ReportsAreTrue
<1> QED
  BY <1>1, ReportInvariance, PTL
-----------------------------------------------------------------------------
(* The phases of a batch run.  A state, in memory or in the file, says     *)
(* completed only of phases whose handler ended well, and of all of which  *)
(* it was written, as long as every state file could be read; and then     *)
(* there is such a state.                                                  *)
Agrees(s) ==
    s \in Resumable =>
        /\ Completed(s) \subseteq reached
        /\ ~lost => saved \subseteq Completed(s)

Agreement ==
    /\ Agrees(runState) /\ Agrees(stateFile)
    /\ ~lost /\ saved # {} => stateFile # Nothing /\ (place # "none" => runState # Nothing)

Behind(p) ==
    \/ p \in Completed(runState)
    \/ p \in attempted /\ runState.results[p] # "failed"

(* A phase that is executed is the current one; where run_to_phase drives, *)
(* all phases before it are behind, and the next one to execute is found   *)
(* before the target is passed.                                            *)
InOrder ==
    /\ running > 0 <=> place \in {"begin", "handler", "store"}
    /\ place \in Writing \cup {"handler"} => runState \in Resumable
    /\ running > 0 => runState.current = running
    /\ target > 0 =>
        /\ place \notin {"none", "save"} /\ runState \in Resumable
        /\ place = "begin" => running \notin Completed(runState)
        /\ running > 0 => /\ ~lost => running \notin saved
                          /\ \A p \in 1 .. running - 1 : Behind(p)
        /\ running = 0 => /\ \A p \in 1 .. runState.current : Behind(p)
                          /\ Pending(runState, runState.current + 1, target) # {}

PhaseInv == LifecycleTypeOK /\ Agreement /\ InOrder

LEMMA PhasesTyped ==
    /\ LastPhase \in Nat /\ LastPhase >= 1 /\ 0 \in 0 .. LastPhase
    /\ PhaseNo \subseteq Nat /\ 1 \in PhaseNo /\ 0 \notin PhaseNo /\ LastPhase + 1 \notin PhaseNo
    /\ PhaseNo \subseteq 0 .. LastPhase /\ \A p \in PhaseNo : p > 0
  BY LifecycleAssumption DEF LifecycleAssumption, PhaseNo

LEMMA NotResumable == Nothing \notin Resumable /\ TornState \notin Resumable /\ Nothing # TornState
  BY PhasesTyped DEF Nothing, TornState, Resumable

LEMMA FreshResumable == Fresh \in Resumable /\ Completed(Fresh) = {}
  BY PhasesTyped DEF Fresh, Resumable, Completed

LEMMA MinIsLeast ==
    ASSUME NEW S, S \subseteq Nat, S # {}
    PROVE  Min(S) \in S /\ \A n \in S : Min(S) <= n
  BY LeastNumber DEF Min

(* The phase run_to_phase executes next: not completed, and behind all     *)
(* that follow the phase it comes from.                                    *)
LEMMA NextPhase ==
    ASSUME NEW s \in Resumable,
           NEW from \in PhaseNo, NEW to \in PhaseNo, Pending(s, from, to) # {}
    PROVE  LET p == Min(Pending(s, from, to))
           IN  /\ p \in PhaseNo /\ p \notin Completed(s)
               /\ \A q \in from .. p - 1 : q \in Completed(s)
<1> DEFINE P == Pending(s, from, to)
           p == Min(P)
<1>1. P \subseteq PhaseNo /\ P \subseteq Nat
  BY PhasesTyped DEF Pending, PhaseNo
<1>2. p \in P /\ \A n \in P : p <= n
  BY <1>1, MinIsLeast
<1>3. p \notin Completed(s)
  BY <1>1, <1>2 DEF Pending
<1>4. ASSUME NEW q \in from .. p - 1 PROVE q \in Completed(s)
  <2>1. from \in Nat /\ to \in Nat /\ p \in from .. to
    BY <1>2, PhasesTyped DEF Pending
  <2>2. q \in from .. to /\ ~(p <= q)
    BY <1>1, <1>2, <2>1, PhasesTyped DEF PhaseNo
  <2>3. q \notin P
    BY <1>2, <2>2
  <2> QED
    BY <2>2, <2>3 DEF Pending
<1> QED
  BY <1>1, <1>2, <1>3, <1>4

LEMMA PhaseInitInv == LifecycleInit => PhaseInv
<1> SUFFICES ASSUME LifecycleInit PROVE PhaseInv
  OBVIOUS
<1>1. LifecycleTypeOK
  BY PhasesTyped DEF LifecycleInit, LifecycleTypeOK
<1>2. Agreement
  BY NotResumable DEF LifecycleInit, Agreement, Agrees
<1>3. InOrder
  BY DEF LifecycleInit, InOrder, Writing
<1> QED
  BY <1>1, <1>2, <1>3 DEF PhaseInv

(* What an operation makes of a state.                                     *)
LEMMA AtPhase ==
    ASSUME NEW s \in Resumable, NEW p \in PhaseNo
    PROVE  LET t == [s EXCEPT !.current = p]
           IN  /\ t \in Resumable /\ t.current = p /\ t.results = s.results
               /\ Completed(t) = Completed(s)
  BY DEF Resumable, Completed

LEMMA WithResult ==
    ASSUME NEW s \in Resumable, NEW p \in PhaseNo, NEW ending \in Ending
    PROVE  LET t == [s EXCEPT !.results[p] = ending]
           IN  /\ t \in Resumable
               /\ Completed(t) = IF ending = "completed" THEN Completed(s) \cup {p}
                                                         ELSE Completed(s) \ {p}
<1> DEFINE t == [s EXCEPT !.results[p] = ending]
<1>1. /\ t \in Resumable /\ t.current = s.current
      /\ \A q \in PhaseNo : t.results[q] = IF q = p THEN ending ELSE s.results[q]
  BY DEF Resumable
<1> HIDE DEF t
<1>2. Completed(t) = IF ending = "completed" THEN Completed(s) \cup {p} ELSE Completed(s) \ {p}
  BY <1>1 DEF Completed
<1> QED
  BY <1>1, <1>2 DEF t

LEMMA PhaseStepTyped == PhaseInv /\ [LifecycleNext]_lifecycleVars => LifecycleTypeOK'
<1> SUFFICES ASSUME PhaseInv, [LifecycleNext]_lifecycleVars PROVE LifecycleTypeOK'
  OBVIOUS
<1>t. LifecycleTypeOK
  BY DEF PhaseInv
<1>r. runState # Nothing => runState \in Resumable
  BY <1>t DEF LifecycleTypeOK
<1>w. place \in Writing \cup {"handler"} => runState \in Resumable
  BY DEF PhaseInv, InOrder
<1> USE DEF LifecycleTypeOK, Writing
<1>l. ASSUME LoadState PROVE runState' \in Resumable \cup {Nothing} /\ lost' \in BOOLEAN
  <2>1. lost' \in BOOLEAN
    BY <1>l, Zenon DEF LoadState
  <2> QED
    BY <1>l, <1>t, <2>1 DEF LoadState
<1>1. CASE OpenOrchestrator \/ Resume
  BY <1>1, <1>l, <1>t DEF OpenOrchestrator, Resume
<1>2. CASE StartRun \/ StartAnew \/ ResetRun
  BY <1>2, <1>t, FreshResumable DEF StartRun, StartAnew, ResetRun
<1>3. ASSUME NEW p \in PhaseNo, SkipPhase(p) PROVE LifecycleTypeOK'
  <2>1. runState' \in Resumable
    BY <1>3, <1>r, WithResult DEF SkipPhase, Ready, Ending
  <2> QED
    BY <1>3, <1>t, <2>1 DEF SkipPhase
<1>4. ASSUME NEW p \in PhaseNo, BeginPhase(p), runState \in Resumable,
             UNCHANGED <<stateFile, reached, saved, attempted, lost>>,
             target' \in 0 .. LastPhase
      PROVE  LifecycleTypeOK'
  <2>1. runState' \in Resumable /\ running' \in 0 .. LastPhase
    BY <1>4, AtPhase, PhasesTyped DEF BeginPhase
  <2> QED
    BY <1>4, <1>t, <2>1 DEF BeginPhase
<1>5. ASSUME NEW p \in PhaseNo, ExecutePhase(p) PROVE LifecycleTypeOK'
  BY <1>4, <1>5, <1>r, <1>t DEF ExecutePhase, Ready
<1>6. CASE Advance
  <2>1. runState \in Resumable /\ runState.current + 1 \in PhaseNo
    BY <1>6, <1>r, PhasesTyped DEF Advance, Ready, Resumable, PhaseNo
  <2> QED
    BY <1>4, <1>6, <1>t, <2>1 DEF Advance
<1>7. ASSUME NEW to \in PhaseNo, RunToPhase(to) PROVE LifecycleTypeOK'
  <2>1. runState \in Resumable /\ Min(Pending(runState, 1, to)) \in PhaseNo
    BY <1>7, <1>r, NextPhase, PhasesTyped DEF RunToPhase, Ready
  <2>2. target' \in 0 .. LastPhase
    BY <1>7, PhasesTyped DEF RunToPhase
  <2> QED
    BY <1>4, <1>7, <2>1, <2>2 DEF RunToPhase
<1>8. CASE SaveAndCall \/ SaveAndReturn
  BY <1>8, <1>t, <1>w DEF SaveAndCall, SaveAndReturn, Written, Completed
<1>9. ASSUME NEW ending \in Ending, HandlerEnds(ending) PROVE LifecycleTypeOK'
  <2>1. runState \in Resumable /\ running \in PhaseNo
    BY <1>9, <1>t, <1>w, PhasesTyped DEF HandlerEnds, PhaseInv, InOrder, PhaseNo
  <2>2. runState' \in Resumable
    BY <1>9, <2>1, WithResult DEF HandlerEnds
  <2> QED
    BY <1>9, <1>t, <2>1, <2>2 DEF HandlerEnds
<1>10. CASE SaveResult
  <2>1. runState \in Resumable /\ running \in PhaseNo
    BY <1>10, <1>t, <1>w, PhasesTyped DEF SaveResult, PhaseInv, InOrder, PhaseNo
  <2>2. target' \in 0 .. LastPhase /\ running' \in 0 .. LastPhase /\ attempted' \subseteq PhaseNo
    BY <1>10, <1>t, <2>1, PhasesTyped DEF SaveResult
  <2> QED
    BY <1>10, <1>t, <2>1, <2>2 DEF SaveResult, Written, Completed
<1>11. CASE RunOn
  <2>1. /\ runState \in Resumable /\ target \in PhaseNo
        /\ Pending(runState, runState.current + 1, target) # {}
    BY <1>11, <1>t, PhasesTyped DEF RunOn, PhaseInv, InOrder, PhaseNo
  <2>2. runState.current + 1 \in PhaseNo
    BY <2>1, PhasesTyped DEF Pending, PhaseNo, Resumable
  <2>3. Min(Pending(runState, runState.current + 1, target)) \in PhaseNo
    BY <2>1, <2>2, NextPhase
  <2> QED
    BY <1>4, <1>11, <1>t, <2>1, <2>3 DEF RunOn
<1>12. CASE FailToSave \/ EndProcess
  BY <1>12, <1>t, PhasesTyped DEF FailToSave, EndProcess
<1>13. CASE UNCHANGED lifecycleVars
  BY <1>13, <1>t DEF lifecycleVars
<1> QED
  BY <1>1, <1>2, <1>3, <1>5, <1>6, <1>7, <1>8, <1>9, <1>10, <1>11, <1>12, <1>13
     DEF LifecycleNext

(* Both copies agree with the history at every step.                       *)
LEMMA AgreementStep == PhaseInv /\ [LifecycleNext]_lifecycleVars => Agreement'
<1> SUFFICES ASSUME PhaseInv, [LifecycleNext]_lifecycleVars PROVE Agreement'
  OBVIOUS
<1>t. LifecycleTypeOK /\ Agreement /\ InOrder
  BY DEF PhaseInv
<1>r. runState # Nothing <=> runState \in Resumable
  BY <1>t, NotResumable DEF LifecycleTypeOK
<1>w. place \in Writing \cup {"handler"} => runState \in Resumable
  BY <1>t DEF InOrder
<1>l. ASSUME LoadState, stateFile # Nothing, UNCHANGED <<stateFile, reached, saved>>
      PROVE  Agreement'
  <2>1. ~lost' => ~lost /\ runState' # Nothing
    BY <1>l, Zenon DEF LoadState
  <2>2. runState' = Nothing \/ runState' = stateFile
    BY <1>l DEF LoadState
  <2> QED
    BY <1>l, <1>t, <2>1, <2>2, NotResumable DEF Agreement, Agrees
<1>1. CASE OpenOrchestrator \/ Resume
  <2>1. CASE stateFile = Nothing
    <3>1. ~lost => saved = {}
      BY <1>t, <2>1 DEF Agreement
    <3>2. UNCHANGED <<stateFile, runState, reached, saved, lost>>
      BY <1>1, <2>1 DEF OpenOrchestrator, Resume
    <3> QED
      BY <1>t, <3>1, <3>2 DEF Agreement, Agrees
  <2>2. CASE stateFile # Nothing
    BY <1>1, <1>l, <2>2 DEF OpenOrchestrator, Resume
  <2> QED
    BY <2>1, <2>2
<1>2. CASE StartRun
  BY <1>2, <1>t, FreshResumable DEF StartRun, Agreement, Agrees
<1>3. CASE StartAnew
  <2>1. ~lost => saved = {}
    BY <1>3, <1>t DEF StartAnew, Idle, Agreement
  <2> QED
    BY <1>3, <1>t, <2>1, FreshResumable DEF StartAnew, Agreement, Agrees
<1>4. CASE ResetRun
  BY <1>4, <1>t, NotResumable DEF ResetRun, Agreement, Agrees
<1>5. ASSUME NEW p \in PhaseNo, SkipPhase(p) PROVE Agreement'
  <2>1. runState \in Resumable /\ runState' = [runState EXCEPT !.results[p] = "unfinished"]
    BY <1>5, <1>r DEF SkipPhase, Ready
  <2>2. runState' \in Resumable /\ Completed(runState') = Completed(runState) \ {p}
    BY <2>1, WithResult DEF Ending
  <2>3. Completed(runState)' = Completed(runState')
    BY DEF Completed
  <2>4. UNCHANGED <<stateFile, reached, lost>> /\ saved' = saved \ {p}
    BY <1>5 DEF SkipPhase
  <2> QED
    BY <1>t, <2>1, <2>2, <2>4, NotResumable DEF Agreement, Agrees
<1>6. ASSUME NEW p \in PhaseNo, BeginPhase(p), runState \in Resumable,
             UNCHANGED <<stateFile, reached, saved, lost>>
      PROVE  Agreement'
  <2>1. runState' \in Resumable /\ Completed(runState') = Completed(runState)
    BY <1>6, AtPhase DEF BeginPhase
  <2> QED
    BY <1>6, <1>t, <2>1, NotResumable DEF Agreement, Agrees
<1>7. ASSUME NEW p \in PhaseNo, ExecutePhase(p) PROVE Agreement'
  BY <1>6, <1>7, <1>r DEF ExecutePhase, Ready
<1>8. CASE Advance
  <2>1. runState \in Resumable /\ runState.current + 1 \in PhaseNo
    BY <1>8, <1>r, PhasesTyped DEF Advance, Ready, Resumable, PhaseNo
  <2> QED
    BY <1>6, <1>8, <2>1 DEF Advance
<1>9. ASSUME NEW to \in PhaseNo, RunToPhase(to) PROVE Agreement'
  <2>1. runState \in Resumable /\ Min(Pending(runState, 1, to)) \in PhaseNo
    BY <1>9, <1>r, NextPhase, PhasesTyped DEF RunToPhase, Ready
  <2> QED
    BY <1>6, <1>9, <2>1 DEF RunToPhase
<1>10. CASE RunOn
  <2>1. /\ runState \in Resumable /\ target \in PhaseNo
        /\ Pending(runState, runState.current + 1, target) # {}
    BY <1>10, <1>t, PhasesTyped DEF RunOn, LifecycleTypeOK, InOrder, PhaseNo
  <2>2. runState.current + 1 \in PhaseNo
    BY <2>1, PhasesTyped DEF Pending, PhaseNo, Resumable
  <2>3. Min(Pending(runState, runState.current + 1, target)) \in PhaseNo
    BY <2>1, <2>2, NextPhase
  <2> QED
    BY <1>6, <1>10, <2>1, <2>3 DEF RunOn
<1>11. CASE SaveAndCall \/ SaveAndReturn \/ SaveResult
  <2>1. /\ runState \in Resumable /\ UNCHANGED <<runState, lost>> /\ Written
    BY <1>11, <1>w DEF SaveAndCall, SaveAndReturn, SaveResult, Writing
  <2>2. Completed(runState) \subseteq reached /\ (~lost => saved \subseteq Completed(runState))
    BY <1>t, <2>1 DEF Agreement, Agrees
  <2>3. stateFile' = runState /\ reached' = Completed(runState)
        /\ (~lost => saved' = Completed(runState))
    BY <2>1, <2>2 DEF Written
  <2> QED
    BY <2>1, <2>3, NotResumable DEF Agreement, Agrees
<1>12. ASSUME NEW ending \in Ending, HandlerEnds(ending) PROVE Agreement'
  <2>1. /\ runState \in Resumable /\ running \in PhaseNo
        /\ runState' = [runState EXCEPT !.results[running] = ending]
    BY <1>12, <1>t, <1>w, PhasesTyped DEF HandlerEnds, LifecycleTypeOK, InOrder, PhaseNo
  <2>2. /\ runState' \in Resumable
        /\ Completed(runState') = IF ending = "completed" THEN Completed(runState) \cup {running}
                                                          ELSE Completed(runState) \ {running}
    BY <2>1, WithResult
  <2>3. /\ UNCHANGED <<stateFile, lost>>
        /\ reached' = IF ending = "completed" THEN reached \cup {running} ELSE reached
        /\ saved' = IF ending = "completed" THEN saved ELSE saved \ {running}
    BY <1>12 DEF HandlerEnds
  <2> QED
    BY <1>t, <2>1, <2>2, <2>3, NotResumable DEF Agreement, Agrees
<1>13. CASE FailToSave
  BY <1>13, <1>t, <1>w, NotResumable DEF FailToSave, Agreement, Agrees
<1>14. CASE EndProcess
  BY <1>14, <1>t, NotResumable DEF EndProcess, Agreement, Agrees
<1>15. CASE UNCHANGED lifecycleVars
  BY <1>15, <1>t DEF lifecycleVars, Agreement, Agrees
<1> QED
  BY <1>1, <1>2, <1>3, <1>4, <1>5, <1>7, <1>8, <1>9, <1>10, <1>11, <1>12, <1>13, <1>14,
     <1>15 DEF LifecycleNext

(* run_to_phase leaves no phase out, and repeats none.                     *)
LEMMA InOrderStep == PhaseInv /\ [LifecycleNext]_lifecycleVars => InOrder'
<1> SUFFICES ASSUME PhaseInv, [LifecycleNext]_lifecycleVars PROVE InOrder'
  OBVIOUS
<1>t. LifecycleTypeOK /\ Agreement /\ InOrder
  BY DEF PhaseInv
<1>r. runState # Nothing <=> runState \in Resumable
  BY <1>t, NotResumable DEF LifecycleTypeOK
<1>n. running \in Nat /\ target \in Nat
  BY <1>t, PhasesTyped DEF LifecycleTypeOK
<1>0. running = 0 <=> place \notin {"begin", "handler", "store"}
  BY <1>t, <1>n DEF InOrder
<1> USE DEF Writing
<1>1. CASE OpenOrchestrator
  <2>1. target = 0
    BY <1>1, <1>n, <1>t DEF OpenOrchestrator, InOrder
  <2> QED
    BY <1>0, <1>1, <2>1 DEF OpenOrchestrator, InOrder
<1>2. CASE Resume \/ ResetRun
  BY <1>0, <1>2 DEF Resume, ResetRun, Idle, InOrder
<1>3. CASE StartRun \/ StartAnew
  BY <1>0, <1>3, FreshResumable DEF StartRun, StartAnew, Idle, InOrder
<1>4. ASSUME NEW p \in PhaseNo, SkipPhase(p) PROVE InOrder'
  <2>1. runState' \in Resumable
    BY <1>4, <1>r, WithResult DEF SkipPhase, Ready, Ending
  <2> QED
    BY <1>0, <1>4, <2>1 DEF SkipPhase, Ready, Idle, InOrder
<1>5. ASSUME NEW p \in PhaseNo, BeginPhase(p), runState \in Resumable
      PROVE  /\ running' = p /\ place' = "begin" /\ running' > 0
             /\ runState' \in Resumable /\ runState'.current = p
             /\ runState'.results = runState.results /\ Completed(runState') = Completed(runState)
  BY <1>5, AtPhase, PhasesTyped DEF BeginPhase
<1>6. ASSUME NEW p \in PhaseNo, ExecutePhase(p) \/ (Advance /\ p = runState.current + 1)
      PROVE  InOrder'
  <2>1. runState \in Resumable /\ BeginPhase(p) /\ target' = 0
    BY <1>6, <1>r DEF ExecutePhase, Advance, Ready, Idle
  <2> QED
    BY <1>5, <2>1 DEF InOrder
<1>7. CASE Advance
  <2>1. runState \in Resumable /\ runState.current + 1 \in PhaseNo
    BY <1>7, <1>r, PhasesTyped DEF Advance, Ready, Resumable, PhaseNo
  <2> QED
    BY <1>6, <1>7, <2>1
<1>8. ASSUME NEW to \in PhaseNo, RunToPhase(to) PROVE InOrder'
  <2> DEFINE p == Min(Pending(runState, 1, to))
  <2>1. runState \in Resumable /\ BeginPhase(p) /\ UNCHANGED <<saved, lost, attempted>>
    BY <1>8, <1>r DEF RunToPhase, Ready
  <2>2. /\ p \in PhaseNo /\ p \notin Completed(runState)
        /\ \A q \in 1 .. p - 1 : q \in Completed(runState)
    BY <1>8, <2>1, NextPhase, PhasesTyped DEF RunToPhase
  <2> HIDE DEF p
  <2>3. ~lost => p \notin saved
    BY <1>t, <2>1, <2>2 DEF Agreement, Agrees
  <2> QED
    BY <1>5, <2>1, <2>2, <2>3 DEF InOrder, Behind
<1>9. CASE RunOn
  <2> DEFINE from == runState.current + 1
             p == Min(Pending(runState, from, target))
  <2>1. /\ runState \in Resumable /\ Pending(runState, from, target) # {}
        /\ \A q \in 1 .. runState.current : Behind(q)
        /\ BeginPhase(p) /\ UNCHANGED <<target, saved, lost, attempted>>
    BY <1>0, <1>9, <1>t DEF RunOn, InOrder
  <2>2. runState.current \in Nat /\ target \in PhaseNo
    BY <1>9, <1>t, <2>1, PhasesTyped DEF RunOn, LifecycleTypeOK, Resumable, PhaseNo
  <2>3. from \in PhaseNo
    BY <2>1, <2>2, PhasesTyped DEF Pending, PhaseNo
  <2>4. /\ p \in PhaseNo /\ p \notin Completed(runState)
        /\ \A q \in from .. p - 1 : q \in Completed(runState)
    BY <2>1, <2>2, <2>3, NextPhase
  <2>5. p \in Nat
    BY <2>4, PhasesTyped
  <2> HIDE DEF p
  <2>6. ~lost => p \notin saved
    BY <1>t, <2>1, <2>4 DEF Agreement, Agrees
  <2>7. ASSUME NEW q \in 1 .. p - 1 PROVE Behind(q)'
    <3>1. q \in 1 .. runState.current \/ q \in from .. p - 1
      BY <2>2, <2>5
    <3> QED
      BY <1>5, <2>1, <2>4, <3>1 DEF Behind
  <2> QED
    BY <1>5, <1>9, <2>1, <2>4, <2>6, <2>7 DEF RunOn, InOrder
<1>10. CASE SaveAndCall
  <2>1. /\ place = "begin" /\ place' = "handler" /\ runState \in Resumable
        /\ UNCHANGED <<runState, running, target, attempted, lost>>
        /\ saved' = saved \cup Completed(runState)
    BY <1>10, <1>t DEF SaveAndCall, Written, InOrder
  <2>2. target > 0 /\ ~lost => running \notin saved'
    BY <1>0, <1>n, <1>t, <2>1 DEF InOrder
  <2> QED
    BY <1>0, <1>t, <2>1, <2>2 DEF InOrder, Behind
<1>11. CASE SaveAndReturn
  <2>1. /\ place = "save" /\ place' = "idle" /\ target = 0 /\ running = 0
        /\ UNCHANGED <<running, target>>
    BY <1>0, <1>11, <1>n, <1>t DEF SaveAndReturn, InOrder
  <2> QED
    BY <2>1 DEF InOrder
<1>12. ASSUME NEW ending \in Ending, HandlerEnds(ending) PROVE InOrder'
  <2>1. /\ runState \in Resumable /\ running \in PhaseNo /\ place = "handler" /\ place' = "store"
        /\ runState' = [runState EXCEPT !.results[running] = ending]
        /\ UNCHANGED <<running, target, attempted, lost>> /\ saved' \subseteq saved
    BY <1>12, <1>t, PhasesTyped DEF HandlerEnds, LifecycleTypeOK, InOrder, PhaseNo
  <2> DEFINE t == [runState EXCEPT !.results[running] = ending]
  <2>0. runState' = t
    BY <2>1
  <2>a. /\ t \in Resumable /\ t.current = runState.current
        /\ \A q \in PhaseNo : t.results[q] = IF q = running THEN ending ELSE runState.results[q]
    BY <2>1 DEF Resumable
  <2>b. Completed(t) = IF ending = "completed" THEN Completed(runState) \cup {running}
                                                ELSE Completed(runState) \ {running}
    BY <2>1, WithResult
  <2> HIDE DEF t
  <2>2. /\ runState' \in Resumable /\ runState'.current = runState.current
        /\ \A q \in PhaseNo : runState'.results[q] =
                                  IF q = running THEN ending ELSE runState.results[q]
        /\ Completed(runState) \ {running} \subseteq Completed(runState')
    BY <2>0, <2>a, <2>b
  <2>3. ASSUME NEW q \in 1 .. running - 1, Behind(q) PROVE Behind(q)'
    <3>1. q \in PhaseNo /\ q # running
      BY <2>1, PhasesTyped DEF PhaseNo
    <3> QED
      BY <2>1, <2>2, <2>3, <3>1 DEF Behind
  <2> QED
    BY <1>0, <1>t, <2>1, <2>2, <2>3 DEF InOrder
<1>13. CASE SaveResult
  <2>1. /\ place = "store" /\ place' = "idle" /\ runState \in Resumable /\ running \in PhaseNo
        /\ running' = 0 /\ runState.current = running /\ runState' = runState
    BY <1>13, <1>t, PhasesTyped DEF SaveResult, LifecycleTypeOK, InOrder, PhaseNo
  <2>2. ASSUME target' > 0
        PROVE  /\ \A q \in 1 .. running : Behind(q)'
               /\ Pending(runState', running + 1, target') # {}
    <3>1. /\ target' = target /\ runState.results[running] # "failed"
          /\ Pending(runState, running + 1, target) # {}
          /\ attempted' = attempted \cup {running}
      BY <1>13, <2>2 DEF SaveResult
    <3>2. \A q \in 1 .. running - 1 : Behind(q)
      BY <1>t, <2>1, <2>2, <3>1, PhasesTyped DEF InOrder
    <3>3. ASSUME NEW q \in 1 .. running PROVE Behind(q)'
      <4>1. q = running \/ q \in 1 .. running - 1
        BY <2>1, PhasesTyped
      <4> QED
        BY <2>1, <3>1, <3>2, <4>1 DEF Behind
    <3> QED
      BY <2>1, <3>1, <3>3
  <2> QED
    BY <2>1, <2>2 DEF InOrder
<1>14. CASE FailToSave \/ EndProcess
  BY <1>14 DEF FailToSave, EndProcess, InOrder
<1>15. CASE UNCHANGED lifecycleVars
  BY <1>15, <1>t DEF lifecycleVars, InOrder, Behind, Pending
<1> QED
  BY <1>1, <1>2, <1>3, <1>4, <1>6, <1>7, <1>8, <1>9, <1>10, <1>11, <1>12, <1>13, <1>14,
     <1>15 DEF LifecycleNext

LEMMA PhaseStepInv == PhaseInv /\ [LifecycleNext]_lifecycleVars => PhaseInv'
  BY PhaseStepTyped, AgreementStep, InOrderStep DEF PhaseInv

LEMMA PhaseInvariance == LifecycleSpec => []PhaseInv
  BY PhaseInitInv, PhaseStepInv, PTL DEF LifecycleSpec

(* The state of a run, in memory and in the file, keeps its type.          *)
THEOREM LifecycleTyping == LifecycleSpec => []LifecycleTypeOK
  BY PhaseInvariance, PTL DEF PhaseInv

(* A phase that run_to_phase executes comes after phases whose handler     *)
(* ended well in this run, or was called by the same run_to_phase and did  *)
(* not fail, and its own completion was not written, or was undone since,  *)
(* as long as every state file could be read: through any number of        *)
(* processes that ended within a handler, after it or within a write, of   *)
(* writes that failed, and phases executed, skipped or advanced to by hand.*)
THEOREM RunResumesInOrder == LifecycleSpec => []ResumesInOrder
<1>1. ASSUME PhaseInv PROVE ResumesInOrder
  <2>1. runState \in Resumable => Completed(runState) \subseteq reached
    BY <1>1 DEF PhaseInv, Agreement, Agrees
  <2> QED
    BY <1>1, <2>1 DEF PhaseInv, InOrder, Behind, ResumesInOrder
<1> QED
  BY <1>1, PhaseInvariance, PTL

-----------------------------------------------------------------------------
(* The connections of the web server.  The list has a client once, from    *)
(* its connect to its disconnect.                                          *)
ListedOnce ==
    /\ \A c \in ToSet(listed) : endpoint[c] \in {"open", "closing"}
    /\ \A i, j \in 1 .. Len(listed) : i # j => listed[i] # listed[j]

(* A broadcast that has not begun has reached nobody.  One that sends has  *)
(* the lock, so that its audience is listed, and has gone through the list *)
(* up to its place in it.                                                  *)
Progress(b) ==
    /\ next[b] # 0
    /\ sending[b] \in {"idle", "waiting"} =>
           next[b] = 1 /\ \A c \in Client : got[b][c] = 0
    /\ sending[b] = "sending" =>
           /\ holder = b
           /\ audience[b] = ToSet(listed)
           /\ \A i \in 1 .. Len(listed) :
                IF i < next[b] THEN listed[i] \in gone \/ got[b][listed[i]] = 1
                               ELSE got[b][listed[i]] = 0
    /\ sending[b] = "done" => \A c \in audience[b] \ gone : got[b][c] = 1

ConnectionInv ==
    /\ ConnectionTypeOK
    /\ ListedOnce
    /\ \A b \in Broadcast : Progress(b)

LEMMA ListedTyped ==
    ASSUME NEW list \in Seq(Client)
    PROVE  /\ Len(list) \in Nat
           /\ ToSet(list) = {list[i] : i \in 1 .. Len(list)} /\ ToSet(list) \subseteq Client
  BY DEF ToSet

LEMMA ConnectionInitInv == ConnectionInit => ConnectionInv
<1> SUFFICES ASSUME ConnectionInit PROVE ConnectionInv
  OBVIOUS
<1>1. listed = <<>> /\ listed \in Seq(Client) /\ Len(listed) = 0
  BY DEF ConnectionInit
<1>2. ConnectionTypeOK
  BY <1>1 DEF ConnectionInit, ConnectionTypeOK
<1>3. ToSet(listed) = {}
  <2>1. ToSet(listed) = {listed[i] : i \in 1 .. 0}
    BY <1>1, ListedTyped
  <2> QED
    BY <2>1
<1>4. ListedOnce
  BY <1>1, <1>3 DEF ListedOnce
<1> QED
  BY <1>2, <1>4 DEF ConnectionInit, ConnectionInv, Progress

(* A list from which members were removed still has nobody twice.          *)
LEMMA RemovalKeepsListedOnce ==
    ASSUME ListedOnce, listed \in Seq(Client), NEW set
    PROVE  LET others == Without(listed, set)
           IN  \A i, j \in 1 .. Len(others) : i # j => others[i] # others[j]
<1> DEFINE others == Without(listed, set)
<1>1. others \in Seq(Client) /\ Len(others) \in Nat
      /\ \A i, j \in 1 .. Len(others) : i < j =>
             \E p, q \in 1 .. Len(listed) : p < q /\ others[i] = listed[p] /\ others[j] = listed[q]
  BY WithoutProperties
<1> HIDE DEF others
<1>2. ASSUME NEW i \in 1 .. Len(others), NEW j \in 1 .. Len(others), i < j
      PROVE  others[i] # others[j]
  <2>1. PICK p \in 1 .. Len(listed), q \in 1 .. Len(listed) :
               p < q /\ others[i] = listed[p] /\ others[j] = listed[q]
    BY <1>1, <1>2
  <2>2. p # q
    BY <2>1
  <2> QED
    BY <2>1, <2>2 DEF ListedOnce
<1>3. \A i, j \in 1 .. Len(others) : i # j => i < j \/ j < i
  BY <1>1
<1>4. \A i, j \in 1 .. Len(others) : i # j => others[i] # others[j]
  BY <1>2, <1>3
<1> QED
  BY <1>4 DEF others

LEMMA ConnectionStepInv == ConnectionInv /\ [ConnectionNext]_connectionVars => ConnectionInv'
<1> SUFFICES ASSUME ConnectionInv, [ConnectionNext]_connectionVars PROVE ConnectionInv'
  OBVIOUS
<1> USE ConnectionAssumption
<1>t. /\ ConnectionTypeOK /\ ListedOnce /\ listed \in Seq(Client)
      /\ Len(listed) \in Nat /\ ToSet(listed) \subseteq Client
      /\ ToSet(listed) = {listed[i] : i \in 1 .. Len(listed)}
      /\ \A i \in 1 .. Len(listed) : listed[i] \in Client
  BY ListedTyped DEF ConnectionInv, ConnectionTypeOK
(* An endpoint that is not listed, or stays listed, moves on.              *)
<1>1. ASSUME NEW c \in Client, NEW s \in {"new", "connecting", "open", "closing", "ended"},
             endpoint' = [endpoint EXCEPT ![c] = s],
             c \in ToSet(listed) => s \in {"open", "closing"},
             UNCHANGED <<gone, listed, holder, perBroadcast>>
      PROVE  ConnectionInv'
  <2>1. ConnectionTypeOK'
    BY <1>1, <1>t DEF ConnectionTypeOK, perBroadcast
  <2>2. ListedOnce'
    BY <1>1, <1>t DEF ListedOnce, ConnectionTypeOK
  <2>3. \A b \in Broadcast : Progress(b)'
    BY <1>1 DEF ConnectionInv, Progress, perBroadcast
  <2> QED
    BY <2>1, <2>2, <2>3 DEF ConnectionInv
<1>2. ASSUME NEW c \in Client, Accept(c) PROVE ConnectionInv'
  BY <1>1, <1>2, <1>t DEF Accept, ListedOnce
<1>3. ASSUME NEW c \in Client, Notice(c) PROVE ConnectionInv'
  BY <1>1, <1>3 DEF Notice
(* While nobody holds the lock nobody is sending.                          *)
<1>4. ASSUME holder = NoOne PROVE \A b \in Broadcast : sending[b] # "sending"
  BY <1>4 DEF ConnectionInv, Progress
<1>5. ASSUME NEW c \in Client, Connect(c) PROVE ConnectionInv'
  <2>1. /\ endpoint[c] = "connecting" /\ holder = NoOne /\ listed' = Append(listed, c)
        /\ endpoint' = [endpoint EXCEPT ![c] = "open"]
        /\ UNCHANGED <<gone, holder, sending, next, failed, audience, got>>
    BY <1>5 DEF Connect, perBroadcast
  <2>2. /\ listed' \in Seq(Client) /\ Len(listed') = Len(listed) + 1
        /\ listed'[Len(listed) + 1] = c /\ \A i \in 1 .. Len(listed) : listed'[i] = listed[i]
    BY <1>t, <2>1
  <2>3. ConnectionTypeOK'
    BY <1>t, <2>1, <2>2 DEF ConnectionTypeOK
  <2>4. c \notin ToSet(listed)
    BY <1>t, <2>1 DEF ListedOnce
  <2>5. \A i \in 1 .. Len(listed') : i = Len(listed) + 1 \/ i \in 1 .. Len(listed)
    BY <1>t, <2>2
  <2>6. ToSet(listed') = {listed'[i] : i \in 1 .. Len(listed')}
    BY <2>2, ListedTyped
  <2>7. \A d \in ToSet(listed') : endpoint'[d] \in {"open", "closing"}
    <3>1. \A d \in ToSet(listed') : d = c \/ d \in ToSet(listed)
      BY <1>t, <2>2, <2>5, <2>6
    <3>2. \A d \in ToSet(listed) : endpoint[d] \in {"open", "closing"}
      BY <1>t DEF ListedOnce
    <3> QED
      BY <1>t, <2>1, <3>1, <3>2 DEF ConnectionTypeOK
  <2>8. \A i, j \in 1 .. Len(listed') : i # j => listed'[i] # listed'[j]
    <3>1. \A i \in 1 .. Len(listed) : listed[i] # c
      BY <1>t, <2>4
    <3> QED
      BY <1>t, <2>2, <2>5, <3>1 DEF ListedOnce
  <2>9. \A b \in Broadcast : Progress(b)'
    BY <1>4, <2>1 DEF ConnectionInv, Progress
  <2> QED
    BY <2>3, <2>7, <2>8, <2>9 DEF ConnectionInv, ListedOnce
<1>6. ASSUME NEW c \in Client, Break(c) PROVE ConnectionInv'
  <2>1. ConnectionTypeOK'
    BY <1>6, <1>t DEF Break, ConnectionTypeOK, perBroadcast
  <2>2. ListedOnce'
    BY <1>6, <1>t DEF Break, ListedOnce
  <2>3. \A b \in Broadcast : Progress(b)'
    BY <1>6 DEF ConnectionInv, Progress, Break, perBroadcast
  <2> QED
    BY <2>1, <2>2, <2>3 DEF ConnectionInv
(* Some are taken off the list.                                            *)
<1>7. ASSUME NEW set, listed' = Without(listed, set), endpoint' \in [Client -> {"new", "connecting", "open", "closing", "ended"}],
             \A c \in Client \ set : endpoint'[c] = endpoint[c]
      PROVE  listed' \in Seq(Client) /\ ListedOnce'
  <2>1. listed' \in Seq(Client) /\ ToSet(listed') = ToSet(listed) \ set
    BY <1>7, <1>t, WithoutProperties
  <2>2. \A c \in ToSet(listed') : endpoint'[c] \in {"open", "closing"}
    BY <1>7, <1>t, <2>1 DEF ListedOnce
  <2>3. \A i, j \in 1 .. Len(listed') : i # j => listed'[i] # listed'[j]
    BY <1>7, <1>t, RemovalKeepsListedOnce
  <2> QED
    BY <2>1, <2>2, <2>3 DEF ListedOnce
<1>8. ASSUME NEW c \in Client, Disconnect(c) PROVE ConnectionInv'
  <2>1. /\ holder = NoOne /\ listed' = Without(listed, {c})
        /\ endpoint' = [endpoint EXCEPT ![c] = "ended"]
        /\ UNCHANGED <<gone, holder, sending, next, failed, audience, got>>
    BY <1>8 DEF Disconnect, perBroadcast
  <2>2. /\ endpoint' \in [Client -> {"new", "connecting", "open", "closing", "ended"}]
        /\ \A d \in Client \ {c} : endpoint'[d] = endpoint[d]
    BY <1>t, <2>1 DEF ConnectionTypeOK
  <2>3. listed' \in Seq(Client) /\ ListedOnce'
    BY <1>7, <2>1, <2>2
  <2>4. ConnectionTypeOK'
    BY <1>t, <2>1, <2>2, <2>3 DEF ConnectionTypeOK
  <2>5. \A b \in Broadcast : Progress(b)'
    BY <1>4, <2>1 DEF ConnectionInv, Progress
  <2> QED
    BY <2>3, <2>4, <2>5 DEF ConnectionInv
<1>9. ASSUME NEW b \in Broadcast, BeginBroadcast(b) PROVE ConnectionInv'
  <2>1. ConnectionTypeOK'
    BY <1>9, <1>t DEF BeginBroadcast, ConnectionTypeOK
  <2>2. ListedOnce'
    BY <1>9, <1>t DEF BeginBroadcast, ListedOnce
  <2>3. \A d \in Broadcast : Progress(d)'
    BY <1>9, <1>t DEF ConnectionInv, Progress, BeginBroadcast, ConnectionTypeOK
  <2> QED
    BY <2>1, <2>2, <2>3 DEF ConnectionInv
<1>10. ASSUME NEW b \in Broadcast, TakeLock(b) PROVE ConnectionInv'
  <2>1. /\ sending[b] = "waiting" /\ holder = NoOne /\ holder' = b
        /\ sending' = [sending EXCEPT ![b] = "sending"]
        /\ audience' = [audience EXCEPT ![b] = ToSet(listed)]
        /\ UNCHANGED <<endpoint, gone, listed, next, failed, got>>
    BY <1>10 DEF TakeLock
  <2>2. /\ sending' \in [Broadcast -> {"idle", "waiting", "sending", "done"}]
        /\ audience' \in [Broadcast -> SUBSET Client]
        /\ sending'[b] = "sending" /\ audience'[b] = ToSet(listed)
        /\ \A d \in Broadcast \ {b} : sending'[d] = sending[d] /\ audience'[d] = audience[d]
    BY <1>t, <2>1 DEF ConnectionTypeOK
  <2>3. ConnectionTypeOK'
    BY <1>t, <2>1, <2>2 DEF ConnectionTypeOK
  <2>4. ListedOnce'
    BY <1>t, <2>1 DEF ListedOnce
  <2>5. Progress(b)'
    <3>1. next[b] = 1 /\ \A c \in Client : got[b][c] = 0
      BY <2>1 DEF ConnectionInv, Progress
    <3>2. \A i \in 1 .. Len(listed) : ~(i < 1)
      BY <1>t
    <3> QED
      BY <1>t, <2>1, <2>2, <3>1, <3>2 DEF Progress
  <2>6. \A d \in Broadcast \ {b} : Progress(d)'
    BY <1>4, <2>1, <2>2 DEF ConnectionInv, Progress
  <2> QED
    BY <2>3, <2>4, <2>5, <2>6 DEF ConnectionInv
(* A send: to whom is gone, or to somebody it reaches.                     *)
<1>11. ASSUME NEW b \in Broadcast, Send(b) PROVE ConnectionInv'
  <2> DEFINE c == listed[next[b]]
  <2>1. /\ sending[b] = "sending" /\ next[b] <= Len(listed) /\ next[b] \in Nat
        /\ next' = [next EXCEPT ![b] = @ + 1]
        /\ UNCHANGED <<endpoint, gone, listed, holder, sending, audience>>
    BY <1>11, <1>t DEF Send, ConnectionTypeOK
  <2>2. /\ next' \in [Broadcast -> Nat] /\ next'[b] = next[b] + 1
        /\ \A d \in Broadcast \ {b} : next'[d] = next[d]
    BY <1>t, <2>1 DEF ConnectionTypeOK
  <2>3. ListedOnce'
    BY <1>t, <2>1 DEF ListedOnce
  <2>4. /\ holder = b /\ audience[b] = ToSet(listed)
        /\ \A i \in 1 .. Len(listed) :
             IF i < next[b] THEN listed[i] \in gone \/ got[b][listed[i]] = 1
                            ELSE got[b][listed[i]] = 0
    BY <2>1 DEF ConnectionInv, Progress
  <2>5. \A d \in Broadcast \ {b} : sending[d] # "sending"
    BY <2>4 DEF ConnectionInv, Progress
  <2>6. next[b] \in 1 .. Len(listed)
    BY <1>t, <2>1 DEF ConnectionInv, Progress
  <2>7. CASE c \in gone
    <3>1. failed' = [failed EXCEPT ![b] = @ \cup {c}] /\ got' = got
      BY <1>11, <2>6, <2>7 DEF Send
    <3>2. ConnectionTypeOK'
      BY <1>t, <2>1, <2>2, <2>6, <2>7, <3>1 DEF ConnectionTypeOK
    <3>3. \A i \in 1 .. Len(listed) : i < next[b] + 1 <=> i < next[b] \/ i = next[b]
      BY <2>1
    <3>4. Progress(b)'
      BY <2>1, <2>2, <2>4, <2>6, <2>7, <3>1, <3>3 DEF Progress
    <3>5. \A d \in Broadcast \ {b} : Progress(d)'
      BY <2>1, <2>2, <2>5, <3>1 DEF ConnectionInv, Progress
    <3> QED
      BY <2>3, <3>2, <3>4, <3>5 DEF ConnectionInv
  <2>8. CASE c \notin gone
    <3>1. failed' = failed /\ got' = [got EXCEPT ![b][c] = @ + 1] /\ c \in Client
      BY <1>11, <1>t, <2>6, <2>8 DEF Send
    <3>2. /\ got' \in [Broadcast -> [Client -> Nat]] /\ got'[b][c] = got[b][c] + 1
          /\ \A d \in Client \ {c} : got'[b][d] = got[b][d]
          /\ \A d \in Broadcast \ {b} : got'[d] = got[d]
      BY <1>t, <3>1 DEF ConnectionTypeOK
    <3>3. ConnectionTypeOK'
      BY <1>t, <2>1, <2>2, <3>1, <3>2 DEF ConnectionTypeOK
    <3>4. ASSUME NEW i \in 1 .. Len(listed)
          PROVE  IF i < next'[b] THEN listed[i] \in gone \/ got'[b][listed[i]] = 1
                                 ELSE got'[b][listed[i]] = 0
      <4>1. CASE i = next[b]
        <5>1. got[b][c] = 0 /\ i < next'[b]
          BY <2>1, <2>2, <2>4, <2>6, <2>8, <4>1
        <5> QED
          BY <3>2, <4>1, <5>1
      <4>2. CASE i # next[b]
        <5>1. listed[i] # c /\ listed[i] \in Client
          BY <1>t, <2>6, <2>8, <4>2 DEF ListedOnce
        <5>2. i < next'[b] <=> i < next[b]
          BY <2>1, <2>2, <4>2
        <5> QED
          BY <2>4, <3>2, <5>1, <5>2
      <4> QED
        BY <4>1, <4>2
    <3>5. Progress(b)'
      BY <2>1, <2>2, <2>4, <3>4 DEF Progress
    <3>6. ASSUME NEW d \in Broadcast \ {b} PROVE Progress(d)'
      <4>1. /\ got'[d] = got[d] /\ next'[d] = next[d] /\ sending'[d] = sending[d]
            /\ audience'[d] = audience[d] /\ sending[d] # "sending" /\ gone' = gone
        BY <2>1, <2>2, <2>5, <3>2
      <4>2. Progress(d)
        BY DEF ConnectionInv
      <4> QED
        BY <4>1, <4>2 DEF Progress
    <3> QED
      BY <2>3, <3>3, <3>5, <3>6 DEF ConnectionInv
  <2> QED
    BY <2>6, <2>7, <2>8
<1>12. ASSUME NEW b \in Broadcast, EndBroadcast(b) PROVE ConnectionInv'
  <2>1. /\ sending[b] = "sending" /\ next[b] > Len(listed) /\ next[b] \in Nat
        /\ listed' = Without(listed, failed[b]) /\ holder' = NoOne
        /\ sending' = [sending EXCEPT ![b] = "done"]
        /\ UNCHANGED <<endpoint, gone, next, failed, audience, got>>
    BY <1>12, <1>t DEF EndBroadcast, ConnectionTypeOK
  <2>2. listed' \in Seq(Client) /\ ListedOnce'
    BY <1>7, <1>t, <2>1 DEF ConnectionTypeOK
  <2>3. /\ sending' \in [Broadcast -> {"idle", "waiting", "sending", "done"}]
        /\ sending'[b] = "done" /\ \A d \in Broadcast \ {b} : sending'[d] = sending[d]
    BY <1>t, <2>1 DEF ConnectionTypeOK
  <2>4. ConnectionTypeOK'
    BY <1>t, <2>1, <2>2, <2>3 DEF ConnectionTypeOK
  <2>5. /\ holder = b /\ audience[b] = ToSet(listed)
        /\ \A i \in 1 .. Len(listed) : listed[i] \in gone \/ got[b][listed[i]] = 1
    BY <1>t, <2>1 DEF ConnectionInv, Progress
  <2>6. Progress(b)'
    BY <1>t, <2>1, <2>3, <2>5 DEF Progress
  <2>7. \A d \in Broadcast \ {b} : Progress(d)'
    BY <2>1, <2>3, <2>5 DEF ConnectionInv, Progress
  <2> QED
    BY <2>2, <2>4, <2>6, <2>7 DEF ConnectionInv
<1>13. CASE UNCHANGED connectionVars
  BY <1>13
     DEF connectionVars, perBroadcast, ConnectionInv, ConnectionTypeOK, ListedOnce, Progress
<1> QED
  BY <1>2, <1>3, <1>5, <1>6, <1>8, <1>9, <1>10, <1>11, <1>12, <1>13
     DEF ConnectionNext, Endpoint, Sender

LEMMA ConnectionInvariance == ConnectionSpec => []ConnectionInv
  BY ConnectionInitInv, ConnectionStepInv, PTL DEF ConnectionSpec

(* Endpoints, broadcasts and the list keep their types.                    *)
THEOREM ConnectionTyping == ConnectionSpec => []ConnectionTypeOK
  BY ConnectionInvariance, PTL DEF ConnectionInv

(* For any number of clients and broadcasts: a client whose endpoint has   *)
(* ended is not listed, whatever broadcasts did meanwhile.                 *)
THEOREM EndedClientsAreDelisted == ConnectionSpec => []EndedNotListed
<1>1. ConnectionInv => EndedNotListed
  BY DEF ConnectionInv, EndedNotListed, ListedOnce
<1> QED
  BY <1>1, ConnectionInvariance, PTL

(* A broadcast that is done was received once by everybody who was listed  *)
(* when it took the lock and is still there.                               *)
THEOREM BroadcastsReachTheirAudience == ConnectionSpec => []AudienceReached
<1>1. ConnectionInv => AudienceReached
  BY DEF ConnectionInv, AudienceReached, Progress
<1> QED
  BY <1>1, ConnectionInvariance, PTL

-----------------------------------------------------------------------------
(* The orchestrator of models.  A pass over the providers tries no more of *)
(* them than is allowed.                                                   *)
PassesBounded ==
    \A r \in Request : request[r] = "providers" => Len(left[r]) <= MaxRetries

OrchestratorInv == OrchestratorTypeOK /\ PassesBounded

Places == {"new", "api", "cli", "providers", "agents", "succeeded", "failed"}

LEMMA OrchestratorFacts ==
    /\ ByPriority \in Seq(Provider) /\ ByCost \in Seq(Provider)
    /\ AgentList \in Seq(Agent)
    /\ MaxRetries \in Nat /\ Turns \in Nat \ {0}
  BY OrchestratorAssumption DEF OrchestratorAssumption

LEMMA OrderTyped ==
    ASSUME OrchestratorTypeOK PROVE FallbackOrder \in Seq(Provider)
<1> DEFINE list == Enabled(ByPriority)
<1>1. list \in Seq(Provider) /\ Enabled(ByCost) \in Seq(Provider)
  BY OrchestratorFacts, WithoutProperties DEF Enabled
<1>2. [i \in 1 .. Len(list) |-> list[((turn + i - 1) % Len(list)) + 1]] \in Seq(Provider)
  <2> HIDE DEF list
  <2>1. Len(list) \in Nat /\ turn \in Nat
    BY <1>1, OrchestratorFacts DEF OrchestratorTypeOK
  <2>2. ASSUME NEW i \in 1 .. Len(list)
        PROVE  list[((turn + i - 1) % Len(list)) + 1] \in Provider
    <3>1. Len(list) \in Nat \ {0} /\ turn + i - 1 \in Int
      BY <2>1
    <3>2. (turn + i - 1) % Len(list) \in 0 .. Len(list) - 1
      BY <3>1
    <3> DEFINE j == ((turn + i - 1) % Len(list)) + 1
    <3>3. j \in 1 .. Len(list)
      BY <3>1, <3>2
    <3> HIDE DEF j
    <3>4. list[j] \in Provider
      BY <1>1, <3>3
    <3> QED
      BY <3>4 DEF j
  <2> QED
    BY <2>1, <2>2, IsASeq
<1> QED
  BY <1>1, <1>2 DEF FallbackOrder, OrchestratorTypeOK

LEMMA FirstOfTyped ==
    ASSUME NEW S, NEW list \in Seq(S), NEW n \in Nat
    PROVE  FirstOf(list, n) \in Seq(S) /\ Len(FirstOf(list, n)) <= n
<1> DEFINE k == IF n < Len(list) THEN n ELSE Len(list)
<1>1. k \in Nat /\ k <= n /\ k <= Len(list) /\ \A i \in 1 .. k : list[i] \in S
  OBVIOUS
<1> HIDE DEF k
<1>2. /\ SubSeq(list, 1, k) \in Seq(S)
      /\ Len(SubSeq(list, 1, k)) = IF 1 <= k THEN k - 1 + 1 ELSE 0
  BY <1>1, SubSeqProperties
<1> QED
  BY <1>1, <1>2 DEF FirstOf, k

LEMMA OrchestratorStepInv ==
    OrchestratorInv /\ [OrchestratorNext]_orchestratorVars => OrchestratorInv'
<1> SUFFICES ASSUME OrchestratorInv, [OrchestratorNext]_orchestratorVars
             PROVE  OrchestratorInv'
  OBVIOUS
<1> USE DEF chain
<1>t. /\ OrchestratorTypeOK /\ PassesBounded
      /\ fallback \subseteq {"api", "cli"} /\ selector \in BOOLEAN
      /\ request \in [Request -> Places]
      /\ compiler \subseteq Request /\ inDir \subseteq Request
      /\ left \in [Request -> Seq(Provider \cup Agent)]
      /\ enabled \subseteq Provider
      /\ strategy \in {"priority", "round_robin", "cost_based"}
      /\ turn \in 0 .. Turns - 1
  BY DEF OrchestratorInv, OrchestratorTypeOK, Places
<1>s. ASSUME NEW r \in Request, NEW to \in Places, NEW rest \in Seq(Provider \cup Agent),
             Step(r, to, rest), to = "providers" => Len(rest) <= MaxRetries,
             compiler' \subseteq Request, inDir' \subseteq Request, enabled' \subseteq Provider,
             strategy' \in {"priority", "round_robin", "cost_based"},
             turn' \in 0 .. Turns - 1
      PROVE  OrchestratorInv'
  <2>1. /\ request' = [request EXCEPT ![r] = to] /\ left' = [left EXCEPT ![r] = rest]
        /\ fallback' = fallback /\ selector' = selector
    BY <1>s DEF Step
  <2>2. request' \in [Request -> Places] /\ left' \in [Request -> Seq(Provider \cup Agent)]
    BY <1>t, <2>1
  <2>3. OrchestratorTypeOK'
    BY <1>t, <1>s, <2>1, <2>2 DEF OrchestratorTypeOK, Places
  <2>4. PassesBounded'
    BY <1>t, <1>s, <2>1 DEF PassesBounded
  <2> QED
    BY <2>3, <2>4 DEF OrchestratorInv
<1>e. <<>> \in Seq(Provider \cup Agent) /\ Places = Places
  OBVIOUS
<1>1. ASSUME NEW r \in Request, NEW how \in {"api", "cli"}, NEW forCompiler \in BOOLEAN,
             NEW withDir \in BOOLEAN, ExecuteRequest(r, how, forCompiler, withDir)
      PROVE  OrchestratorInv'
  <2>1. how \in Places /\ how # "providers"
    BY DEF Places
  <2>2. compiler' \subseteq Request /\ inDir' \subseteq Request
    BY <1>1, <1>t DEF ExecuteRequest
  <2> QED
    BY <1>1, <1>t, <1>s, <1>e, <2>1, <2>2 DEF ExecuteRequest
<1>2. ASSUME NEW r \in Request, NoApi(r) PROVE OrchestratorInv'
  <2>1. AfterApi(r) \in Places /\ AfterApi(r) # "providers"
    BY DEF AfterApi, Places
  <2> QED
    BY <1>2, <1>t, <1>s, <1>e, <2>1 DEF NoApi
<1>3. ASSUME NEW r \in Request, BeginApi(r) PROVE OrchestratorInv'
  <2> DEFINE rest == FirstOf(FallbackOrder, MaxRetries)
  <2>1. rest \in Seq(Provider) /\ Len(rest) <= MaxRetries
    BY <1>t, OrderTyped, FirstOfTyped, OrchestratorFacts
  <2>2. Step(r, "providers", rest) /\ UNCHANGED <<compiler, inDir, chain>>
    BY <1>3 DEF BeginApi
  <2> HIDE DEF rest
  <2>3. rest \in Seq(Provider \cup Agent) /\ "providers" \in Places
    BY <2>1 DEF Places
  <2> QED
    BY <1>t, <1>s, <2>1, <2>2, <2>3
<1>4. ASSUME NEW r \in Request, ProviderAnswers(r) PROVE OrchestratorInv'
  <2>1. turn' \in 0 .. Turns - 1
    <3>1. (turn + 1) % Turns \in 0 .. Turns - 1
      BY <1>t, OrchestratorFacts
    <3> QED
      BY <1>4, <1>t, <3>1 DEF ProviderAnswers
  <2>2. "succeeded" \in Places
    BY DEF Places
  <2> QED
    BY <1>4, <1>t, <1>s, <1>e, <2>1, <2>2 DEF ProviderAnswers
<1>5. ASSUME NEW r \in Request, ProviderFails(r) \/ AgentFails(r) PROVE OrchestratorInv'
  <2>1. /\ left[r] \in Seq(Provider \cup Agent) /\ left[r] # <<>>
        /\ request[r] \in {"providers", "agents"} /\ Step(r, request[r], Tail(left[r]))
        /\ UNCHANGED <<compiler, inDir, chain>>
    BY <1>5, <1>t DEF ProviderFails, AgentFails
  <2>2. Tail(left[r]) \in Seq(Provider \cup Agent) /\ Len(Tail(left[r])) = Len(left[r]) - 1
        /\ Len(left[r]) \in Nat
    BY <2>1, HeadTailProperties
  <2>3. request[r] = "providers" => Len(Tail(left[r])) <= MaxRetries
    BY <1>t, <2>2, OrchestratorFacts DEF PassesBounded
  <2>4. request[r] \in Places
    BY <1>t
  <2> DEFINE to == request[r]
             rest == Tail(left[r])
  <2>5. /\ to \in Places /\ rest \in Seq(Provider \cup Agent) /\ Step(r, to, rest)
        /\ to = "providers" => Len(rest) <= MaxRetries
    BY <2>1, <2>2, <2>3, <2>4
  <2> HIDE DEF to, rest
  <2> QED
    BY <1>t, <1>s, <2>1, <2>5
<1>6. ASSUME NEW r \in Request, ApiFails(r) PROVE OrchestratorInv'
  <2> DEFINE to == IF r \in inDir THEN AfterApi(r) ELSE "failed"
  <2>1. to \in Places /\ to # "providers"
    BY DEF AfterApi, Places
  <2>2. Step(r, to, <<>>) /\ UNCHANGED <<compiler, inDir, chain>>
    BY <1>6 DEF ApiFails
  <2> HIDE DEF to
  <2> QED
    BY <1>t, <1>s, <1>e, <2>1, <2>2
<1>7. ASSUME NEW r \in Request, NEW ready \in SUBSET Agent, BeginCli(r, ready)
      PROVE  OrchestratorInv'
  <2> DEFINE rest == Without(AgentList, Agent \ ready)
  <2>1. rest \in Seq(Agent)
    BY OrchestratorFacts, WithoutProperties
  <2>2. Step(r, "agents", rest) /\ inDir' = inDir \cup {r} /\ UNCHANGED <<compiler, chain>>
    BY <1>7 DEF BeginCli
  <2> HIDE DEF rest
  <2>3. rest \in Seq(Provider \cup Agent) /\ "agents" \in Places /\ inDir' \subseteq Request
    BY <1>t, <2>1, <2>2 DEF Places
  <2> QED
    BY <1>t, <1>s, <2>2, <2>3
<1>8. ASSUME NEW r \in Request, AgentSucceeds(r) PROVE OrchestratorInv'
  <2>1. "succeeded" \in Places
    BY DEF Places
  <2> QED
    BY <1>8, <1>t, <1>s, <1>e, <2>1 DEF AgentSucceeds
<1>9. ASSUME NEW r \in Request, CliFails(r) PROVE OrchestratorInv'
  <2> DEFINE to == IF "api" \in fallback THEN "api" ELSE "failed"
  <2>1. to \in Places /\ to # "providers"
    BY DEF Places
  <2>2. Step(r, to, <<>>) /\ UNCHANGED <<compiler, inDir, chain>>
    BY <1>9 DEF CliFails
  <2> HIDE DEF to
  <2> QED
    BY <1>t, <1>s, <1>e, <2>1, <2>2
<1>10. ASSUME NEW p \in Provider, SetEnabled(enabled \cup {p}) \/ SetEnabled(enabled \ {p})
       PROVE  OrchestratorInv'
  BY <1>10, <1>t DEF SetEnabled, OrchestratorInv, OrchestratorTypeOK, PassesBounded, Places
<1>11. ASSUME NEW s \in {"priority", "round_robin", "cost_based"}, SetStrategy(s)
       PROVE  OrchestratorInv'
  <2>1. 0 \in 0 .. Turns - 1
    BY OrchestratorFacts
  <2> QED
    BY <1>11, <1>t, <2>1
       DEF SetStrategy, OrchestratorInv, OrchestratorTypeOK, PassesBounded, Places
<1>12. CASE UNCHANGED orchestratorVars
  BY <1>12 DEF orchestratorVars, OrchestratorInv, OrchestratorTypeOK, PassesBounded
<1> QED
  BY <1>1, <1>2, <1>3, <1>4, <1>5, <1>6, <1>7, <1>8, <1>9, <1>10, <1>11, <1>12
     DEF OrchestratorNext, GoOn

LEMMA OrchestratorInitInv == OrchestratorInit => OrchestratorInv
<1> SUFFICES ASSUME OrchestratorInit PROVE OrchestratorInv
  OBVIOUS
<1>1. <<>> \in Seq(Provider \cup Agent) /\ 0 \in 0 .. Turns - 1
  BY OrchestratorFacts
<1>2. selector \in BOOLEAN
  BY Zenon DEF OrchestratorInit
<1>3. PassesBounded
  BY DEF OrchestratorInit, PassesBounded
<1> QED
  BY <1>1, <1>2, <1>3 DEF OrchestratorInit, OrchestratorInv, OrchestratorTypeOK

(* Every task stands somewhere, with a list of providers and agents that   *)
(* exist, whatever is enabled, disabled or reordered while it runs.        *)
THEOREM OrchestratorTyping == OrchestratorSpec => []OrchestratorTypeOK
<1>1. OrchestratorInv => OrchestratorTypeOK
  BY DEF OrchestratorInv
<1> QED
  BY <1>1, OrchestratorInitInv, OrchestratorStepInv, PTL DEF OrchestratorSpec

(* A pass of ProviderSelector.generate has never more providers before it  *)
(* than _max_retries allows, whatever strategy orders them.                *)
THEOREM AttemptsAreBounded == OrchestratorSpec => []PassesBounded
<1>1. OrchestratorInv => PassesBounded
  BY DEF OrchestratorInv
<1> QED
  BY <1>1, OrchestratorInitInv, OrchestratorStepInv, PTL DEF OrchestratorSpec

-----------------------------------------------------------------------------
(* The four components beside each other, as they are checked: a step of   *)
(* one leaves the state of the others alone, and all keep their types.     *)
THEOREM WorkflowsTyping == MCSpec => []TypeOK
<1> DEFINE All == ReportInv /\ ConnectionInv /\ OrchestratorInv /\ PhaseInv
<1>1. MCInit => All
  BY ReportInitInv, ConnectionInitInv, OrchestratorInitInv, PhaseInitInv DEF MCInit
<1>2. All /\ [MCNext]_allVars => All'
  <2>1. [MCNext]_allVars =>
           /\ [ExecutorNext]_executorVars /\ [ConnectionNext]_connectionVars
           /\ [OrchestratorNext]_orchestratorVars /\ [LifecycleNext]_lifecycleVars
    BY DEF MCNext, MCExecutor, MCConnections, MCOrchestrator, MCLifecycle, allVars
  <2> QED
    BY <2>1, ReportStepInv, ConnectionStepInv, OrchestratorStepInv, PhaseStepInv
<1>3. All => TypeOK
  BY DEF TypeOK, ReportInv, ConnectionInv, OrchestratorInv, PhaseInv
<1> QED
  BY <1>1, <1>2, <1>3, PTL DEF MCSpec
=============================================================================
