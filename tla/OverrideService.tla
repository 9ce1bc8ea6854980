-------------------------- MODULE OverrideService --------------------------
(***************************************************************************)
(* The log of manual overrides, audit/overrides.json (OverrideService).    *)
(* Every command of the override CLI is a process that reads the whole     *)
(* file, adds an override or marks one reconciled, and writes the whole    *)
(* file back.  A file that cannot be parsed is taken for an empty one.     *)
(***************************************************************************)
EXTENDS Naturals

CONSTANTS
    Command,     \* the commands that are run
    OverrideId   \* the ids uuid4 hands out

VARIABLES
    log,         \* overrides.json
    torn,        \* a write was cut short: the file cannot be parsed
    command,     \* command[c]: where command c stands
    memory,      \* memory[c]: the overrides it has loaded
    recorded,    \* history: overrides whose command has ended
    settled,     \* history: those of which a reconcile command has ended
    disturbed    \* history: commands overlapped, or a write was cut short

overrideVars == <<log, torn, command, memory, recorded, settled, disturbed>>

(* What is said of every override.                                         *)
Book == [OverrideId -> {"none", "pending", "reconciled"}]
EmptyBook == [i \in OverrideId |-> "none"]

OverrideTypeOK ==
    /\ log \in Book
    /\ torn \in BOOLEAN
    /\ command \in [Command -> {"new", "loaded", "saving", "ended"}]
    /\ memory \in [Command -> Book]
    /\ recorded \subseteq OverrideId /\ settled \subseteq OverrideId
    /\ disturbed \in BOOLEAN

-----------------------------------------------------------------------------
OverrideInit ==
    /\ log = EmptyBook
    /\ torn = FALSE
    /\ command = [c \in Command |-> "new"]
    /\ memory = [c \in Command |-> EmptyBook]
    /\ recorded = {} /\ settled = {}
    /\ disturbed = FALSE

Ending(c) == command' = [command EXCEPT ![c] = "ended"]

(* The service is made: _load.  A command that only lists ends with this.  *)
Load(c) ==
    /\ command[c] = "new"
    /\ command' = [command EXCEPT ![c] = "loaded"]
    /\ memory' = [memory EXCEPT ![c] = IF torn THEN EmptyBook ELSE log]
    /\ disturbed' = (disturbed \/ \E d \in Command : command[d] \in {"loaded", "saving"})
    /\ UNCHANGED <<log, torn, recorded, settled>>

(* A service that only knows of its own overrides.                         *)
RecordUnread(c, i) ==
    /\ command[c] = "loaded"
    /\ \A d \in Command : memory[d][i] = "none"
    /\ log[i] = "none" /\ i \notin recorded
    /\ memory' = [memory EXCEPT ![c] = [EmptyBook EXCEPT ![i] = "pending"]]
    /\ command' = [command EXCEPT ![c] = "saving"]
    /\ UNCHANGED <<log, torn, recorded, settled, disturbed>>

(* record_override: with an id nobody has.                                 *)
RecordOverride(c, i) ==
    /\ command[c] = "loaded"
    /\ \A d \in Command : memory[d][i] = "none"
    /\ log[i] = "none" /\ i \notin recorded
    /\ memory' = [memory EXCEPT ![c][i] = "pending"]
    /\ command' = [command EXCEPT ![c] = "saving"]
    /\ UNCHANGED <<log, torn, recorded, settled, disturbed>>

(* mark_reconciled: of a pending one the command has found.                *)
MarkReconciled(c, i) ==
    /\ command[c] = "loaded"
    /\ memory[c][i] = "pending"
    /\ memory' = [memory EXCEPT ![c][i] = "reconciled"]
    /\ command' = [command EXCEPT ![c] = "saving"]
    /\ UNCHANGED <<log, torn, recorded, settled, disturbed>>

(* Nothing is found, or nothing is asked but to see the list.              *)
OnlyList(c) ==
    /\ command[c] = "loaded"
    /\ Ending(c)
    /\ UNCHANGED <<log, torn, memory, recorded, settled, disturbed>>

Save(c) ==
    /\ command[c] = "saving"
    /\ log' = memory[c]
    /\ torn' = FALSE
    /\ Ending(c)
    /\ recorded' = recorded \cup {i \in OverrideId : memory[c][i] # "none"}
    /\ settled' = settled \cup {i \in OverrideId : memory[c][i] = "reconciled"}
    /\ UNCHANGED <<memory, disturbed>>

(* The process ends before it has written, ...                             *)
Crash(c) ==
    /\ command[c] \in {"loaded", "saving"}
    /\ Ending(c)
    /\ UNCHANGED <<log, torn, memory, recorded, settled, disturbed>>

(* ... or while it writes: the file was truncated first.                   *)
Tear(c) ==
    /\ command[c] = "saving"
    /\ log' = EmptyBook
    /\ torn' = TRUE
    /\ disturbed' = TRUE
    /\ Ending(c)
    /\ UNCHANGED <<memory, recorded, settled>>

OverrideNext ==
    \E c \in Command :
        \/ Load(c) \/ OnlyList(c) \/ Save(c) \/ Crash(c) \/ Tear(c)
        \/ \E i \in OverrideId : RecordOverride(c, i) \/ MarkReconciled(c, i)

OverrideSpec == OverrideInit /\ [][OverrideNext]_overrideVars

-----------------------------------------------------------------------------
(* Properties *)

(* "All overrides are recorded in the audit trail and flagged for          *)
(* reconciliation": what a command has recorded stays recorded, pending    *)
(* until it is reconciled and reconciled from then on, although every      *)
(* command rewrites the whole file and may end before it does.  Commands   *)
(* that overlap, or a write cut short, lose it.                            *)
OverridesKept ==
    ~disturbed =>
        /\ \A i \in recorded \ settled : log[i] = "pending"
        /\ \A i \in settled : log[i] = "reconciled"
=============================================================================
