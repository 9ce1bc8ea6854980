----------------------- MODULE LifecycleOrchestrator -----------------------
(***************************************************************************)
(* The phases of a batch run (LifecycleOrchestrator).  The state, which    *)
(* phase is current and how each phase ended, is kept in memory by the     *)
(* process that drives the run and written whole to a file before and      *)
(* after every handler, so that the next process can resume.  A write may  *)
(* fail, and a process may end at any point: while a handler works, after  *)
(* it and before its result is written, or while it writes, which leaves a *)
(* file that nobody can read.  Processes do not overlap.                   *)
(***************************************************************************)
EXTENDS Naturals, FiniteSetsExt

CONSTANT LastPhase   \* PHASE_ORDER is 1 .. LastPhase

ASSUME LifecycleAssumption == LastPhase \in Nat \ {0}

VARIABLES
    stateFile,   \* orchestrator_state.json
    place,       \* where the process that drives the run stands
    runState,    \* its _state
    running,     \* the phase it executes, 0: none
    target,      \* the phase that run_to_phase is to reach, 0: not asked
    reached,     \* history: phases whose handler ended well in this run
    saved,       \* history: those of which this was written, until undone
    attempted,   \* history: phases the present run_to_phase has executed
    lost         \* history: a state file was there that could not be read

lifecycleVars == <<stateFile, place, runState, running, target, reached, saved, attempted, lost>>

PhaseNo == 1 .. LastPhase

(* How a phase ended.  What is neither completed nor failed (skipped, but  *)
(* also pending or in progress, if a handler says so) makes no difference. *)
Ending == {"completed", "failed", "unfinished"}
Resumable == [current : PhaseNo, results : [PhaseNo -> Ending \cup {"none"}]]
Nothing == [current |-> 0]
TornState == [current |-> LastPhase + 1]

Completed(s) == {p \in PhaseNo : s.results[p] = "completed"}

Writing == {"begin", "store", "save"}

LifecycleTypeOK ==
    /\ stateFile \in Resumable \cup {Nothing, TornState}
    /\ place \in {"none", "idle", "handler"} \cup Writing
    /\ runState \in Resumable \cup {Nothing}
    /\ running \in 0 .. LastPhase /\ target \in 0 .. LastPhase
    /\ reached \subseteq PhaseNo /\ saved \subseteq PhaseNo /\ attempted \subseteq PhaseNo
    /\ lost \in BOOLEAN

-----------------------------------------------------------------------------
LifecycleInit ==
    /\ stateFile = Nothing
    /\ place = "none"
    /\ runState = Nothing
    /\ running = 0 /\ target = 0
    /\ reached = {} /\ saved = {} /\ attempted = {}
    /\ lost = FALSE

(* A caller has an orchestrator that does nothing at the moment, ...       *)
Idle == place = "idle" /\ target = 0

(* ... and orchestrates a run: every operation starts one where none is.   *)
Ready == Idle /\ runState # Nothing

(* _load_state, of a file that is there: one that is torn, or that cannot  *)
(* be read just then, is no state.                                         *)
LoadState ==
    /\ runState' \in (IF stateFile = TornState THEN {} ELSE {stateFile}) \cup {Nothing}
    /\ lost' = (lost \/ runState' = Nothing)

OpenOrchestrator ==
    /\ place = "none"
    /\ place' = "idle"
    /\ IF stateFile = Nothing THEN UNCHANGED <<runState, lost>> ELSE LoadState
    /\ UNCHANGED <<stateFile, running, target, reached, saved, attempted>>

(* resume, without a file, keeps what it has.                              *)
Resume ==
    /\ Idle
    /\ stateFile # Nothing /\ LoadState
    /\ UNCHANGED <<stateFile, place, running, target, reached, saved, attempted>>

Fresh == [current |-> 1, results |-> [p \in PhaseNo |-> "none"]]

(* start: the caller wants a new run, ...                                  *)
StartRun ==
    /\ Idle
    /\ runState' = Fresh
    /\ place' = "save"
    /\ saved' = {} /\ lost' = FALSE
    /\ UNCHANGED <<stateFile, running, target, reached, attempted>>

(* ... or there is no state, and every operation starts a run of its own.  *)
StartAnew ==
    /\ Idle /\ runState = Nothing
    /\ runState' = Fresh
    /\ place' = "save"
    /\ UNCHANGED <<stateFile, running, target, reached, saved, attempted, lost>>

(* reset, which may fail to remove the file.                               *)
ResetRun ==
    /\ Idle
    /\ runState' = Nothing
    /\ stateFile' \in {Nothing, stateFile}
    /\ reached' = IF stateFile' = Nothing THEN {} ELSE reached
    /\ saved' = {} /\ lost' = FALSE
    /\ UNCHANGED <<place, running, target, attempted>>

(* skip_phase: in any order, even of a phase that was completed.           *)
SkipPhase(p) ==
    /\ Ready
    /\ runState' = [runState EXCEPT !.results[p] = "unfinished"]
    /\ place' = "save"
    /\ saved' = saved \ {p}
    /\ UNCHANGED <<stateFile, running, target, reached, attempted, lost>>

(* A result that is stored before the handler is called.                   *)
BeginPhaseAhead(p) ==
    /\ running' = p
    /\ runState' = [runState EXCEPT !.current = p, !.results[p] = "completed"]
    /\ place' = "begin"

(* execute_phase, up to the first write.                                   *)
BeginPhase(p) ==
    /\ running' = p
    /\ runState' = [runState EXCEPT !.current = p]
    /\ place' = "begin"

ExecutePhase(p) ==
    /\ Ready
    /\ BeginPhase(p)
    /\ UNCHANGED <<stateFile, target, reached, saved, attempted, lost>>

(* advance goes by the current phase, however it ended.                    *)
Advance ==
    /\ Ready
    /\ runState.current < LastPhase
    /\ BeginPhase(runState.current + 1)
    /\ UNCHANGED <<stateFile, target, reached, saved, attempted, lost>>

(* The phases run_to_phase still has to execute.                           *)
Pending(s, from, to) == (from .. to) \ Completed(s)

RunToPhase(to) ==
    /\ Ready
    /\ Pending(runState, 1, to) # {}
    /\ target' = to
    /\ BeginPhase(Min(Pending(runState, 1, to)))
    /\ UNCHANGED <<stateFile, reached, saved, attempted, lost>>

(* The state is written, before the handler is called, ...                 *)
Written ==
    /\ stateFile' = runState
    /\ saved' = saved \cup Completed(runState)
    /\ reached' = reached \cap Completed(runState)

SaveAndCall ==
    /\ place = "begin"
    /\ Written
    /\ place' = "handler"
    /\ UNCHANGED <<runState, running, target, attempted, lost>>

(* The handler returns, with whatever it says, or raises, which is a       *)
(* failure.  The result is in memory, ...                                  *)
HandlerEnds(ending) ==
    /\ place = "handler"
    /\ runState' = [runState EXCEPT !.results[running] = ending]
    /\ reached' = IF ending = "completed" THEN reached \cup {running} ELSE reached
    /\ saved' = IF ending = "completed" THEN saved ELSE saved \ {running}
    /\ place' = "store"
    /\ UNCHANGED <<stateFile, running, target, attempted, lost>>

(* ... and then in the file.  run_to_phase ends with a failure, and with   *)
(* no other ending, or behind its target, ...                              *)
SaveResult ==
    /\ place = "store"
    /\ Written
    /\ place' = "idle"
    /\ running' = 0
    /\ target' = IF \/ runState.results[running] = "failed"
                    \/ Pending(runState, running + 1, target) = {}
                 THEN 0 ELSE target
    /\ attempted' = IF target' > 0 THEN attempted \cup {running} ELSE {}
    /\ UNCHANGED <<runState, lost>>

(* ... and goes on with the next phase otherwise.                          *)
RunOn ==
    /\ place = "idle" /\ target > 0
    /\ BeginPhase(Min(Pending(runState, runState.current + 1, target)))
    /\ UNCHANGED <<stateFile, target, reached, saved, attempted, lost>>

(* A run was started, or a phase skipped.                                  *)
SaveAndReturn ==
    /\ place = "save"
    /\ Written
    /\ place' = "idle"
    /\ UNCHANGED <<runState, running, target, attempted, lost>>

(* A write fails, before the file was truncated or after; the exception    *)
(* ends the operation, and what it has done in memory remains.             *)
FailToSave ==
    /\ place \in Writing
    /\ stateFile' \in {stateFile, TornState}
    /\ place' = "idle"
    /\ running' = 0 /\ target' = 0 /\ attempted' = {}
    /\ UNCHANGED <<runState, reached, saved, lost>>

(* The process ends, wanted or not, anywhere, also in the midst of a write *)
(* (the file was truncated first).                                         *)
EndProcess ==
    /\ place # "none"
    /\ place' = "none"
    /\ stateFile' \in {stateFile} \cup (IF place \in Writing THEN {TornState} ELSE {})
    /\ runState' = Nothing
    /\ running' = 0 /\ target' = 0 /\ attempted' = {}
    /\ UNCHANGED <<reached, saved, lost>>

LifecycleNext ==
    \/ OpenOrchestrator \/ Resume \/ StartRun \/ StartAnew \/ ResetRun
    \/ \E p \in PhaseNo : SkipPhase(p) \/ ExecutePhase(p) \/ RunToPhase(p)
    \/ Advance
    \/ \E ending \in Ending : HandlerEnds(ending)
    \/ SaveAndCall \/ SaveResult \/ RunOn \/ SaveAndReturn
    \/ FailToSave \/ EndProcess

LifecycleSpec == LifecycleInit /\ [][LifecycleNext]_lifecycleVars

-----------------------------------------------------------------------------
(* Properties *)

(* run_to_phase resumes where the run was left, through any number of      *)
(* processes that ended within a handler or a write, phases executed,      *)
(* skipped or advanced to by hand, and runs started anew.  A phase it      *)
(* executes comes only after phases whose handler ended well in this run,  *)
(* or was called by the same run_to_phase and did not fail; and is none    *)
(* whose completion was written to the file and not undone since, unless a *)
(* state file could not be read: then all are repeated.  (A handler that   *)
(* ended well, and whose result was not written, is called again.)         *)
ResumesInOrder ==
    target > 0 /\ running > 0 =>
        /\ ~lost => running \notin saved
        /\ \A p \in 1 .. running - 1 :
               \/ p \in reached
               \/ p \in attempted /\ runState.results[p] # "failed"
=============================================================================
