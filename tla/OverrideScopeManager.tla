------------------------ MODULE OverrideScopeManager ------------------------
(***************************************************************************)
(* Overrides with a scope, and their flags for CI (OverrideScopeManager):  *)
(* two files, audit/override_scopes.json and audit/ci_override_flags.json, *)
(* each truncated and written whole, one after the other.  A manager reads *)
(* both when it is made, taking one it cannot read for an empty one, and   *)
(* works on its own copies from then on.  A process may make many calls on *)
(* one manager; a write may fail, or be cut short, and the process may end *)
(* anywhere, or go on with what it has in memory.                          *)
(***************************************************************************)
EXTENDS FiniteSets, Naturals

CONSTANTS
    Manager,
    ScopedId,       \* override ids
    LimitedScope,   \* scopes with a limit: file, directory, project
    FreeScope,      \* scopes without: artifact
    ScopeMax        \* ScopeMax[s]: the limit of scope s

ASSUME ScopeAssumption ==
    /\ LimitedScope \cap FreeScope = {}
    /\ IsFiniteSet(ScopedId)
    /\ ScopeMax \in [LimitedScope -> Nat]

VARIABLES
    records,    \* the first file
    flags,      \* the second: ids that are flagged
    manager,    \* manager[m]: the next write of the call m is in
    known,      \* known[m]: its _records
    flagged,    \* flagged[m]: its _ci_flags
    unsaved,    \* history: the files a failed call has left to be written
    granted,    \* history: the active overrides a call has returned for
    promised,   \* history: ids whose flag_for_ci returned, until reconciled
    shared,     \* history: a manager used what another has changed since
    forgotten   \* history: a process ended that had left a file unsaved

scopeVars == <<records, flags, manager, known, flagged, unsaved, granted, promised,
               shared, forgotten>>

ScopedRecord == [scope : LimitedScope \cup FreeScope, active : BOOLEAN]
NoRecord     == [scope |-> "none", active |-> FALSE]
Records      == [ScopedId -> ScopedRecord \cup {NoRecord}]

(* What is loaded of a file that is not there, or cannot be parsed.        *)
NothingLoaded == [i \in ScopedId |-> NoRecord]

ScopeTypeOK ==
    /\ records \in Records
    /\ flags \subseteq ScopedId
    /\ manager \in [Manager -> {"none", "ready", "register", "reconcile", "flag", "flags"}]
    /\ known \in [Manager -> Records]
    /\ flagged \in [Manager -> SUBSET ScopedId]
    /\ unsaved \subseteq {"records", "flags"}
    /\ granted \in Records
    /\ promised \subseteq ScopedId
    /\ shared \in BOOLEAN /\ forgotten \in BOOLEAN

Active(book, s) == {i \in ScopedId : book[i].active /\ book[i].scope = s}

-----------------------------------------------------------------------------
ScopeInit ==
    /\ records = NothingLoaded
    /\ flags = {}
    /\ manager = [m \in Manager |-> "none"]
    /\ known = [m \in Manager |-> NothingLoaded]
    /\ flagged = [m \in Manager |-> {}]
    /\ unsaved = {}
    /\ granted = NothingLoaded
    /\ promised = {}
    /\ shared = FALSE /\ forgotten = FALSE

Goto(m, place) == manager' = [manager EXCEPT ![m] = place]

(* A manager is made.                                                      *)
Open(m) ==
    /\ manager[m] = "none"
    /\ Goto(m, "ready")
    /\ known' = [known EXCEPT ![m] = records]
    /\ flagged' = [flagged EXCEPT ![m] = flags]
    /\ shared' = (shared \/ \E n \in Manager : manager[n] # "none")
    /\ UNCHANGED <<records, flags, unsaved, granted, promised, forgotten>>

(* Its process ends, perhaps between the two writes, or, after one that is *)
(* cut short (below), in the middle of it.                                 *)
End(m) ==
    /\ manager[m] # "none"
    /\ Goto(m, "none")
    /\ known' = [known EXCEPT ![m] = NothingLoaded]
    /\ flagged' = [flagged EXCEPT ![m] = {}]
    /\ unsaved' = {}
    /\ forgotten' = (forgotten \/ unsaved # {})
    /\ UNCHANGED <<records, flags, granted, promised, shared>>

(* A limit that may be reached once more.                                  *)
WithinLimitLoose(m, s) ==
    s \in LimitedScope => Cardinality(Active(known[m], s)) <= ScopeMax[s]

WithinLimit(m, s) ==
    s \in LimitedScope => Cardinality(Active(known[m], s)) < ScopeMax[s]

(* register_override, of a new id or of one that is there (its record is   *)
(* replaced), within the limit of the scope.                               *)
RegisterOverride(m, i, s) ==
    /\ manager[m] = "ready"
    /\ WithinLimit(m, s)
    /\ known' = [known EXCEPT ![m][i] = [scope |-> s, active |-> TRUE]]
    /\ Goto(m, "register")
    /\ UNCHANGED <<records, flags, flagged, unsaved, granted, promised, shared, forgotten>>

(* reconcile_override, whether or not it was reconciled before.  The flags *)
(* of the override are dropped, but written only after the records.        *)
ReconcileOverride(m, i) ==
    /\ manager[m] = "ready"
    /\ known[m][i] # NoRecord
    /\ known' = [known EXCEPT ![m][i].active = FALSE]
    /\ flagged' = [flagged EXCEPT ![m] = @ \ {i}]
    /\ granted' = [granted EXCEPT ![i] = NoRecord]
    /\ promised' = promised \ {i}
    /\ Goto(m, "reconcile")
    /\ UNCHANGED <<records, flags, unsaved, shared, forgotten>>

(* flag_for_ci, of one that has no flag yet, ...                           *)
FlagForCI(m, i) ==
    /\ manager[m] = "ready"
    /\ known[m][i] # NoRecord /\ i \notin flagged[m]
    /\ flagged' = [flagged EXCEPT ![m] = @ \cup {i}]
    /\ Goto(m, "flag")
    /\ UNCHANGED <<records, flags, known, unsaved, granted, promised, shared, forgotten>>

(* ... and of one that has: its flag is returned and nothing is written,   *)
(* also where the call that made the flag could not write it.              *)
FlagAgain(m, i) ==
    /\ manager[m] = "ready"
    /\ known[m][i].active /\ i \in flagged[m]
    /\ promised' = promised \cup {i}
    /\ UNCHANGED <<records, flags, manager, known, flagged, unsaved, granted, shared, forgotten>>

(* The records are written, whole; then, unless one was only registered,   *)
(* the flags.                                                              *)
SaveRecords(m) ==
    /\ manager[m] \in {"register", "reconcile", "flag"}
    /\ records' = known[m]
    /\ unsaved' = unsaved \ {"records"}
    /\ granted' = [i \in ScopedId |-> IF known[m][i].active THEN known[m][i] ELSE granted[i]]
    /\ Goto(m, IF manager[m] = "register" THEN "ready" ELSE "flags")
    /\ UNCHANGED <<flags, known, flagged, promised, shared, forgotten>>

SaveFlags(m) ==
    /\ manager[m] = "flags"
    /\ flags' = flagged[m]
    /\ unsaved' = unsaved \ {"flags"}
    /\ promised' = promised \cup {i \in flagged[m] : known[m][i].active}
    /\ Goto(m, "ready")
    /\ UNCHANGED <<records, known, flagged, granted, shared, forgotten>>

(* A write fails, before the file was truncated or after.  The call ends   *)
(* with the exception; the manager keeps what it has in memory.            *)
FailRecords(m) ==
    /\ manager[m] \in {"register", "reconcile", "flag"}
    /\ records' \in {records, NothingLoaded}
    /\ unsaved' = unsaved \cup (IF manager[m] = "register" THEN {"records"}
                                ELSE {"records", "flags"})
    /\ Goto(m, "ready")
    /\ UNCHANGED <<flags, known, flagged, granted, promised, shared, forgotten>>

FailFlags(m) ==
    /\ manager[m] = "flags"
    /\ flags' \in {flags, {}}
    /\ unsaved' = unsaved \cup {"flags"}
    /\ Goto(m, "ready")
    /\ UNCHANGED <<records, known, flagged, granted, promised, shared, forgotten>>

ScopeNext ==
    \E m \in Manager :
        \/ Open(m) \/ End(m)
        \/ SaveRecords(m) \/ SaveFlags(m) \/ FailRecords(m) \/ FailFlags(m)
        \/ \E i \in ScopedId :
            \/ ReconcileOverride(m, i) \/ FlagForCI(m, i) \/ FlagAgain(m, i)
            \/ \E s \in LimitedScope \cup FreeScope : RegisterOverride(m, i, s)

ScopeSpec == ScopeInit /\ [][ScopeNext]_scopeVars

-----------------------------------------------------------------------------
(* Properties *)

(* "enforces configurable limits on overrides by scope [...] and           *)
(* integrates with CI to permanently flag overridden files until           *)
(* reconciliation": as long as one manager is used at a time, and no       *)
(* process ends with a file that a failed or cut-short write has left, no  *)
(* scope has more overrides that were registered and not reconciled than   *)
(* its limit, and a flag that was returned is on disk, with its active     *)
(* record, until the override is reconciled, whenever the process ends     *)
(* otherwise.  What a failed write has left is still in memory meanwhile,  *)
(* and only there: also a flag that was returned after the failure.        *)
EnforcedUntilReconciled ==
    ~shared /\ ~forgotten =>
        /\ \A s \in LimitedScope : Cardinality(Active(granted, s)) <= ScopeMax[s]
        /\ \A i \in promised :
              /\ "records" \notin unsaved => records[i].active
              /\ "flags" \notin unsaved => i \in flags
              /\ unsaved # {} => \E m \in Manager : known[m][i].active /\ i \in flagged[m]
=============================================================================
