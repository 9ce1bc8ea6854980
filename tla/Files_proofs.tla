---------------------------- MODULE Files_proofs ----------------------------
(***************************************************************************)
(* Proofs about the components that keep files: the two logs of overrides, *)
(* the validator's hashes, the migrator of artifacts and the transactions  *)
(* over files, for any number of commands, managers, overrides, scopes,    *)
(* files, artifacts, runs and operations, and any limits.                  *)
(***************************************************************************)
EXTENDS MCServices, Services_proofs

-----------------------------------------------------------------------------
(* The log of manual overrides.  At work: the commands that have read the  *)
(* file and not ended.                                                     *)
AtWork(c) == command[c] \in {"loaded", "saving"}

(* One command works at a time, and it works on what the file says.        *)
OneAtWork == \A c, d \in Command : AtWork(c) /\ AtWork(d) => c = d

MemoryCurrent == \A c \in Command : command[c] = "loaded" => memory[c] = log

(* What is about to be written forgets nothing and reopens nothing.        *)
NothingForgotten ==
    \A c \in Command : command[c] = "saving" =>
        \A i \in OverrideId :
            /\ log[i] # "none" => memory[c][i] # "none"
            /\ log[i] = "reconciled" => memory[c][i] = "reconciled"

(* The file says just what the commands that have ended were asked.        *)
LogIsHistory ==
    /\ recorded = {i \in OverrideId : log[i] # "none"}
    /\ settled = {i \in OverrideId : log[i] = "reconciled"}

Undisturbed ==
    torn = FALSE /\ OneAtWork /\ MemoryCurrent /\ NothingForgotten /\ LogIsHistory

LogInv == OverrideTypeOK /\ (~disturbed => Undisturbed)

LEMMA LogInitInv == OverrideInit => LogInv
<1> SUFFICES ASSUME OverrideInit PROVE LogInv
  OBVIOUS
<1>1. EmptyBook \in Book
  BY DEF EmptyBook, Book
<1>2. OverrideTypeOK
  BY <1>1 DEF OverrideInit, OverrideTypeOK
<1>3. Undisturbed
  BY DEF OverrideInit, Undisturbed, OneAtWork, AtWork, MemoryCurrent,
         NothingForgotten, LogIsHistory, EmptyBook
<1> QED
  BY <1>2, <1>3 DEF LogInv

(* A step that only changes where command c stands and what it remembers.  *)
LEMMA LogTyped == OverrideTypeOK /\ [OverrideNext]_overrideVars => OverrideTypeOK'
<1> SUFFICES ASSUME OverrideTypeOK, [OverrideNext]_overrideVars PROVE OverrideTypeOK'
  OBVIOUS
<1> USE DEF OverrideTypeOK
<1>e. EmptyBook \in Book
  BY DEF EmptyBook, Book
<1>1. ASSUME NEW c \in Command, Load(c) PROVE OverrideTypeOK'
  <2>1. memory' \in [Command -> Book]
    BY <1>1, <1>e DEF Load
  <2>2. disturbed' \in BOOLEAN
    BY <1>1, Zenon DEF Load
  <2> QED
    BY <1>1, <2>1, <2>2 DEF Load
<1>2. ASSUME NEW c \in Command, NEW i \in OverrideId,
             RecordOverride(c, i) \/ MarkReconciled(c, i)
      PROVE  OverrideTypeOK'
  <2>1. memory[c] \in Book
    OBVIOUS
  <2>2. [memory[c] EXCEPT ![i] = "pending"] \in Book
    BY <2>1 DEF Book
  <2>3. [memory[c] EXCEPT ![i] = "reconciled"] \in Book
    BY <2>1 DEF Book
  <2>4. memory' \in [Command -> Book]
    BY <1>2, <2>2, <2>3 DEF RecordOverride, MarkReconciled
  <2> QED
    BY <1>2, <2>4 DEF RecordOverride, MarkReconciled
<1>3. ASSUME NEW c \in Command, OnlyList(c) \/ Crash(c) PROVE OverrideTypeOK'
  BY <1>3 DEF OnlyList, Crash, Ending
<1>4. ASSUME NEW c \in Command, Save(c) PROVE OverrideTypeOK'
  BY <1>4 DEF Save, Ending
<1>5. ASSUME NEW c \in Command, Tear(c) PROVE OverrideTypeOK'
  BY <1>5, <1>e DEF Tear, Ending
<1>6. CASE UNCHANGED overrideVars
  BY <1>6 DEF overrideVars
<1> QED
  BY <1>1, <1>2, <1>3, <1>4, <1>5, <1>6 DEF OverrideNext

LEMMA LogStepInv == LogInv /\ [OverrideNext]_overrideVars => LogInv'
<1> SUFFICES ASSUME LogInv, [OverrideNext]_overrideVars, ~disturbed'
             PROVE  Undisturbed'
  BY LogTyped DEF LogInv
<1> USE DEF OverrideTypeOK, AtWork
<1>t. OverrideTypeOK
  BY DEF LogInv
<1>1. ASSUME NEW c \in Command, Load(c) PROVE Undisturbed'
  <2>1. ~disturbed /\ \A d \in Command : ~AtWork(d)
    BY <1>1 DEF Load
  <2>2. Undisturbed
    BY <2>1 DEF LogInv
  <2>3. memory' = [memory EXCEPT ![c] = log]
    BY <1>1, <2>2 DEF Load, Undisturbed
  <2>4. OneAtWork'
    BY <1>1, <1>t, <2>1 DEF Load, OneAtWork
  <2>5. MemoryCurrent'
    BY <1>1, <1>t, <2>1, <2>3 DEF Load, MemoryCurrent
  <2>6. NothingForgotten'
    BY <1>1, <1>t, <2>1 DEF Load, NothingForgotten
  <2> QED
    BY <1>1, <2>2, <2>4, <2>5, <2>6 DEF Load, Undisturbed, LogIsHistory
<1>2. ASSUME NEW c \in Command, NEW i \in OverrideId,
             RecordOverride(c, i) \/ MarkReconciled(c, i)
      PROVE  Undisturbed'
  <2>1. Undisturbed
    BY <1>2 DEF LogInv, RecordOverride, MarkReconciled
  <2>2. \A d \in Command : d # c => ~AtWork(d)
    BY <1>2, <2>1 DEF RecordOverride, MarkReconciled, Undisturbed, OneAtWork
  <2>3. memory[c] = log /\ command' = [command EXCEPT ![c] = "saving"]
    BY <1>2, <2>1 DEF RecordOverride, MarkReconciled, Undisturbed, MemoryCurrent
  <2>4. OneAtWork'
    BY <1>t, <2>2, <2>3 DEF OneAtWork
  <2>5. MemoryCurrent'
    BY <1>t, <2>2, <2>3 DEF MemoryCurrent
  <2>6. NothingForgotten'
    <3> SUFFICES ASSUME NEW j \in OverrideId
                 PROVE  /\ log[j] # "none" => memory'[c][j] # "none"
                        /\ log[j] = "reconciled" => memory'[c][j] = "reconciled"
      BY <1>2, <1>t, <2>2, <2>3 DEF NothingForgotten, RecordOverride, MarkReconciled
    <3>1. memory[c] \in Book
      BY <1>t
    <3> QED
      BY <1>2, <1>t, <2>3, <3>1 DEF RecordOverride, MarkReconciled, Book
  <2> QED
    BY <1>2, <2>1, <2>4, <2>5, <2>6
       DEF RecordOverride, MarkReconciled, Undisturbed, LogIsHistory
<1>3. ASSUME NEW c \in Command, OnlyList(c) \/ Crash(c) PROVE Undisturbed'
  <2>1. Undisturbed
    BY <1>3 DEF LogInv, OnlyList, Crash
  <2> QED
    BY <1>3, <1>t, <2>1 DEF OnlyList, Crash, Ending, Undisturbed, OneAtWork,
         MemoryCurrent, NothingForgotten, LogIsHistory
<1>4. ASSUME NEW c \in Command, Save(c) PROVE Undisturbed'
  <2>1. Undisturbed
    BY <1>4 DEF LogInv, Save
  <2>2. \A d \in Command : ~AtWork(d)'
    BY <1>4, <1>t, <2>1 DEF Save, Ending, Undisturbed, OneAtWork
  <2>3. LogIsHistory'
    BY <1>4, <2>1 DEF Save, Undisturbed, LogIsHistory, NothingForgotten
  <2> QED
    BY <1>4, <2>2, <2>3
       DEF Save, Undisturbed, OneAtWork, MemoryCurrent, NothingForgotten
<1>5. ASSUME NEW c \in Command, Tear(c) PROVE Undisturbed'
  BY <1>5 DEF Tear
<1>6. CASE UNCHANGED overrideVars
  BY <1>6 DEF overrideVars, LogInv, Undisturbed, OneAtWork, MemoryCurrent,
         NothingForgotten, LogIsHistory
<1> QED
  BY <1>1, <1>2, <1>3, <1>4, <1>5, <1>6 DEF OverrideNext

LEMMA LogInvariance == OverrideSpec => []LogInv
  BY LogInitInv, LogStepInv, PTL DEF OverrideSpec

(* The file, the commands' copies of it and the history keep their types.  *)
THEOREM OverrideTyping == OverrideSpec => []OverrideTypeOK
  BY LogInvariance, PTL DEF LogInv

(* What record_override has saved stays in overrides.json, pending until   *)
(* mark_reconciled has saved it and reconciled from then on, although each *)
(* command writes the whole file and may end before it does, as long as    *)
(* commands do not overlap and no write is cut short.                      *)
THEOREM RecordedOverridesStay == OverrideSpec => []OverridesKept
<1>1. LogInv => OverridesKept
  BY DEF LogInv, Undisturbed, LogIsHistory, OverridesKept, OverrideTypeOK, Book
<1> QED
  BY <1>1, LogInvariance, PTL
-----------------------------------------------------------------------------
(* Overrides with a scope.  No book a manager holds, nor the file, has     *)
(* more active overrides in a scope than its limit.                        *)
Limited(book) == \A s \in LimitedScope : Cardinality(Active(book, s)) <= ScopeMax[s]

LimitsHold == Limited(records) /\ \A m \in Manager : Limited(known[m])

OneManager == \A m, n \in Manager : manager[m] # "none" /\ manager[n] # "none" => m = n

(* What was granted and promised is on disk, whatever the manager is about *)
(* to write, except in a file that a failed call has left, ...             *)
Claims == {i \in ScopedId : granted[i].active}

ClaimsOnDisk ==
    /\ "records" \notin unsaved => \A i \in Claims \cup promised : records[i].active
    /\ "flags" \notin unsaved => promised \subseteq flags

(* ... and nothing it is about to write takes it away.                     *)
ClaimsKnown ==
    \A m \in Manager : manager[m] # "none" =>
        /\ \A i \in Claims \cup promised : known[m][i].active
        /\ promised \subseteq flagged[m]

(* How far the manager's copies are from the two files.                    *)
CopiesCurrent ==
    \A m \in Manager :
        /\ manager[m] = "ready" /\ "records" \notin unsaved => known[m] = records
        /\ manager[m] \in {"ready", "register"} /\ "flags" \notin unsaved => flagged[m] = flags
        /\ manager[m] = "flags" => known[m] = records /\ "records" \notin unsaved

(* What a failed call has left, its manager has in memory.                 *)
NothingLeftBehind == (\A m \in Manager : manager[m] = "none") => unsaved = {}

Unshared ==
    /\ OneManager /\ NothingLeftBehind /\ CopiesCurrent
    /\ ClaimsOnDisk /\ ClaimsKnown /\ Limited(granted)

ScopeInv == ScopeTypeOK /\ LimitsHold /\ (~shared /\ ~forgotten => Unshared)

LEMMA ScopesTyped ==
    /\ IsFiniteSet(ScopedId)
    /\ LimitedScope \cap FreeScope = {}
    /\ \A s \in LimitedScope : ScopeMax[s] \in Nat
  BY ScopeAssumption DEF ScopeAssumption

LEMMA ActiveFinite ==
    ASSUME NEW book, NEW s
    PROVE  IsFiniteSet(Active(book, s)) /\ Cardinality(Active(book, s)) \in Nat
<1>1. Active(book, s) \subseteq ScopedId
  BY DEF Active
<1> QED
  BY <1>1, ScopesTyped, FS_Subset, FS_CardinalityType

(* The empty book is within every limit, ...                               *)
LEMMA EmptyLimited == Limited(NothingLoaded)
<1>1. ASSUME NEW s \in LimitedScope
      PROVE  Active(NothingLoaded, s) = {}
  BY DEF Active, NoRecord, NothingLoaded
<1> QED
  BY <1>1, FS_EmptySet, ScopesTyped DEF Limited

(* ... so is a book with fewer active overrides, ...                       *)
LEMMA FewerLimited ==
    ASSUME NEW book, NEW less, Limited(book),
           \A s \in LimitedScope : Active(less, s) \subseteq Active(book, s)
    PROVE  Limited(less)
<1> SUFFICES ASSUME NEW s \in LimitedScope
             PROVE  Cardinality(Active(less, s)) <= ScopeMax[s]
  BY DEF Limited
<1>1. Cardinality(Active(less, s)) <= Cardinality(Active(book, s))
  BY ActiveFinite, FS_Subset
<1>2. Cardinality(Active(book, s)) <= ScopeMax[s]
  BY DEF Limited
<1> QED
  BY <1>1, <1>2, ActiveFinite, ScopesTyped

(* ... and one with another in a scope that was below its limit.           *)
LEMMA OneMoreLimited ==
    ASSUME NEW m \in Manager, known[m] \in Records, Limited(known[m]),
           NEW i \in ScopedId, NEW s \in LimitedScope \cup FreeScope, WithinLimit(m, s)
    PROVE  Limited([known[m] EXCEPT ![i] = [scope |-> s, active |-> TRUE]])
<1> DEFINE more == [known[m] EXCEPT ![i] = [scope |-> s, active |-> TRUE]]
<1>b. more = [j \in ScopedId |-> IF j = i THEN [scope |-> s, active |-> TRUE] ELSE known[m][j]]
  BY DEF Records
<1> SUFFICES ASSUME NEW t \in LimitedScope
             PROVE  Cardinality(Active(more, t)) <= ScopeMax[t]
  BY DEF Limited
<1>1. Cardinality(Active(known[m], t)) <= ScopeMax[t]
  BY DEF Limited
<1> HIDE DEF more
<1>2. CASE t = s
  <2>1. Active(more, t) \subseteq Active(known[m], t) \cup {i}
    BY <1>b DEF Active
  <2>2. IsFiniteSet(Active(known[m], t) \cup {i})
        /\ Cardinality(Active(known[m], t) \cup {i}) <= Cardinality(Active(known[m], t)) + 1
    BY SMTT(30), ActiveFinite, FS_AddElement
  <2>3. Cardinality(Active(more, t)) <= Cardinality(Active(known[m], t) \cup {i})
    BY <2>1, <2>2, FS_Subset
  <2>4. Cardinality(Active(known[m], t)) < ScopeMax[t]
    BY <1>2 DEF WithinLimit
  <2>5. Cardinality(Active(known[m], t) \cup {i}) \in Nat
    BY <2>2, FS_CardinalityType
  <2> QED
    BY <2>2, <2>3, <2>4, <2>5, ActiveFinite, ScopesTyped
<1>3. CASE t # s
  <2>1. Active(more, t) \subseteq Active(known[m], t)
    BY <1>3, <1>b DEF Active
  <2>2. Cardinality(Active(more, t)) <= Cardinality(Active(known[m], t))
    BY <2>1, ActiveFinite, FS_Subset
  <2> QED
    BY <1>1, <2>2, ActiveFinite, ScopesTyped
<1> QED
  BY <1>2, <1>3

LEMMA ScopeInitInv == ScopeInit => ScopeInv
<1> SUFFICES ASSUME ScopeInit PROVE ScopeInv
  OBVIOUS
<1>1. NothingLoaded \in Records
  BY DEF Records, NothingLoaded
<1>2. ScopeTypeOK
  BY <1>1 DEF ScopeInit, ScopeTypeOK
<1>3. LimitsHold
  BY EmptyLimited DEF ScopeInit, LimitsHold
<1>4. Unshared
  <2>1. Claims = {}
    BY DEF ScopeInit, Claims, NothingLoaded, NoRecord
  <2>2. Limited(granted)
    BY EmptyLimited DEF ScopeInit
  <2> QED
    BY <2>1, <2>2 DEF ScopeInit, Unshared, OneManager, NothingLeftBehind, CopiesCurrent,
                      ClaimsOnDisk, ClaimsKnown
<1> QED
  BY <1>2, <1>3, <1>4 DEF ScopeInv

LEMMA ScopeStepTyped == ScopeTypeOK /\ [ScopeNext]_scopeVars => ScopeTypeOK'
<1> SUFFICES ASSUME ScopeTypeOK, [ScopeNext]_scopeVars PROVE ScopeTypeOK'
  OBVIOUS
<1> USE DEF ScopeTypeOK, Goto
<1>e. NothingLoaded \in Records /\ NoRecord \in ScopedRecord \cup {NoRecord}
  BY DEF Records, NothingLoaded
<1>1. ASSUME NEW m \in Manager, Open(m) PROVE ScopeTypeOK'
  <2>1. shared' \in BOOLEAN
    BY <1>1, Zenon DEF Open
  <2> QED
    BY <1>1, <2>1 DEF Open
<1>2. ASSUME NEW m \in Manager, End(m) PROVE ScopeTypeOK'
  <2>1. forgotten' \in BOOLEAN
    BY <1>2, Zenon DEF End
  <2> QED
    BY <1>2, <1>e, <2>1 DEF End
<1>3. ASSUME NEW m \in Manager, NEW i \in ScopedId,
             NEW s \in LimitedScope \cup FreeScope, RegisterOverride(m, i, s)
      PROVE  ScopeTypeOK'
  <2>1. known[m] \in Records
    OBVIOUS
  <2>2. [known[m] EXCEPT ![i] = [scope |-> s, active |-> TRUE]] \in Records
    BY <2>1 DEF Records, ScopedRecord
  <2> QED
    BY <1>3, <2>2 DEF RegisterOverride
<1>4. ASSUME NEW m \in Manager, NEW i \in ScopedId, ReconcileOverride(m, i)
      PROVE  ScopeTypeOK'
  <2>1. known[m] \in Records
    OBVIOUS
  <2>2. known[m][i] \in ScopedRecord
    BY <1>4, <2>1 DEF ReconcileOverride, Records
  <2>3. [known[m][i] EXCEPT !.active = FALSE] \in ScopedRecord
    BY <2>2 DEF ScopedRecord
  <2>4. [known[m] EXCEPT ![i] = [known[m][i] EXCEPT !.active = FALSE]] \in Records
    BY <2>1, <2>3 DEF Records
  <2>5. known' = [known EXCEPT ![m] = [known[m] EXCEPT ![i] = [known[m][i] EXCEPT !.active = FALSE]]]
    BY <1>4 DEF ReconcileOverride
  <2>6. known' \in [Manager -> Records]
    BY <2>4, <2>5
  <2>7. granted' \in Records
    BY <1>4, <1>e DEF ReconcileOverride, Records
  <2> QED
    BY <1>4, <2>6, <2>7 DEF ReconcileOverride
<1>5. ASSUME NEW m \in Manager, NEW i \in ScopedId, FlagForCI(m, i)
      PROVE  ScopeTypeOK'
  BY <1>5 DEF FlagForCI
<1>6. ASSUME NEW m \in Manager, SaveRecords(m) PROVE ScopeTypeOK'
  <2>1. granted' \in Records
    BY <1>6 DEF SaveRecords, Records
  <2> QED
    BY <1>6, <2>1 DEF SaveRecords
<1>7. ASSUME NEW m \in Manager, SaveFlags(m) PROVE ScopeTypeOK'
  BY <1>7 DEF SaveFlags
<1>8. ASSUME NEW m \in Manager, NEW i \in ScopedId, FlagAgain(m, i)
      PROVE  ScopeTypeOK'
  BY <1>8 DEF FlagAgain
<1>9. ASSUME NEW m \in Manager, FailRecords(m) PROVE ScopeTypeOK'
  BY <1>9, <1>e DEF FailRecords
<1>10. ASSUME NEW m \in Manager, FailFlags(m) PROVE ScopeTypeOK'
  BY <1>10 DEF FailFlags
<1>11. CASE UNCHANGED scopeVars
  BY <1>11 DEF scopeVars
<1> QED
  BY <1>1, <1>2, <1>3, <1>4, <1>5, <1>6, <1>7, <1>8, <1>9, <1>10, <1>11 DEF ScopeNext

(* What reconcile_override leaves of its book: the record, inactive.       *)
LEMMA Reconciled ==
    ASSUME ScopeTypeOK, NEW m \in Manager, NEW i \in ScopedId, ReconcileOverride(m, i)
    PROVE  /\ \A s \in LimitedScope : Active(known'[m], s) \subseteq Active(known[m], s)
           /\ \A j \in ScopedId \ {i} : known'[m][j] = known[m][j]
           /\ \A n \in Manager \ {m} : known'[n] = known[n]
<1>1. known[m] \in Records
  BY DEF ScopeTypeOK
<1>2. known[m][i] \in ScopedRecord
  BY <1>1 DEF ReconcileOverride, Records
<1>3. known' = [known EXCEPT ![m] = [known[m] EXCEPT ![i] = [known[m][i] EXCEPT !.active = FALSE]]]
  BY DEF ReconcileOverride
<1>4. known'[m] = [known[m] EXCEPT ![i] = [known[m][i] EXCEPT !.active = FALSE]]
  BY <1>3 DEF ScopeTypeOK
<1>5. [known[m][i] EXCEPT !.active = FALSE].active = FALSE
  BY <1>2 DEF ScopedRecord
<1>6. known'[m][i].active = FALSE /\ \A j \in ScopedId \ {i} : known'[m][j] = known[m][j]
  BY <1>1, <1>4, <1>5 DEF Records
<1>7. \A s \in LimitedScope : Active(known'[m], s) \subseteq Active(known[m], s)
  BY <1>6 DEF Active
<1> QED
  BY <1>3, <1>6, <1>7 DEF ScopeTypeOK

(* The limits hold in every book at every step, even where managers share. *)
LEMMA LimitsStep == ScopeInv /\ [ScopeNext]_scopeVars => LimitsHold'
<1> SUFFICES ASSUME ScopeInv, [ScopeNext]_scopeVars PROVE LimitsHold'
  OBVIOUS
<1>t. ScopeTypeOK /\ LimitsHold
  BY DEF ScopeInv
<1> USE DEF ScopeTypeOK, LimitsHold
<1>1. ASSUME NEW m \in Manager, Open(m) PROVE LimitsHold'
  BY <1>1, <1>t DEF Open, Limited, Active
<1>2. ASSUME NEW m \in Manager, End(m) PROVE LimitsHold'
  <2>1. \A n \in Manager : known'[n] = IF n = m THEN NothingLoaded ELSE known[n]
    BY <1>2, <1>t DEF End
  <2>2. \A n \in Manager : Limited(known'[n])
    BY <1>t, <2>1, EmptyLimited
  <2> QED
    BY <1>2, <1>t, <2>2 DEF End, Limited, Active
<1>3. ASSUME NEW m \in Manager, NEW i \in ScopedId,
             NEW s \in LimitedScope \cup FreeScope, RegisterOverride(m, i, s)
      PROVE  LimitsHold'
  <2> DEFINE more == [known[m] EXCEPT ![i] = [scope |-> s, active |-> TRUE]]
  <2>1. Limited(more)
    BY <1>3, <1>t, OneMoreLimited DEF RegisterOverride
  <2>2. known' = [known EXCEPT ![m] = more]
    BY <1>3 DEF RegisterOverride
  <2> HIDE DEF more
  <2>3. \A n \in Manager : known'[n] = IF n = m THEN more ELSE known[n]
    BY <1>t, <2>2
  <2>4. \A n \in Manager : Limited(known'[n])
    BY <1>t, <2>1, <2>3
  <2> QED
    BY <1>3, <1>t, <2>4 DEF RegisterOverride, Limited, Active
<1>4. ASSUME NEW m \in Manager, NEW i \in ScopedId, ReconcileOverride(m, i)
      PROVE  LimitsHold'
  <2>1. Limited(known'[m])
    BY <1>4, <1>t, Reconciled, FewerLimited
  <2>2. \A n \in Manager : Limited(known'[n])
    BY <1>4, <1>t, <2>1, Reconciled
  <2> QED
    BY <1>4, <1>t, <2>2 DEF ReconcileOverride, Limited, Active
<1>5. ASSUME NEW m \in Manager, SaveRecords(m) PROVE LimitsHold'
  BY <1>5, <1>t DEF SaveRecords, Limited, Active
<1>6. ASSUME UNCHANGED <<records, known>> PROVE LimitsHold'
  BY <1>6, <1>t DEF Limited, Active
<1>7. ASSUME NEW m \in Manager, \/ SaveFlags(m) \/ FailFlags(m)
                                \/ \E i \in ScopedId : FlagForCI(m, i) \/ FlagAgain(m, i)
      PROVE  LimitsHold'
  BY <1>6, <1>7 DEF SaveFlags, FailFlags, FlagForCI, FlagAgain
<1>8. ASSUME NEW m \in Manager, FailRecords(m) PROVE LimitsHold'
  <2>1. Limited(records')
    BY <1>8, <1>t, EmptyLimited DEF FailRecords
  <2> QED
    BY <1>8, <1>t, <2>1 DEF FailRecords, Limited, Active
<1>9. CASE UNCHANGED scopeVars
  BY <1>6, <1>9 DEF scopeVars
<1> QED
  BY <1>1, <1>2, <1>3, <1>4, <1>5, <1>7, <1>8, <1>9 DEF ScopeNext

(* As long as managers do not share the files and forget nothing, one is   *)
(* at work at most, and a step of another cannot be.                       *)
LEMMA UnsharedStep ==
    ASSUME ScopeInv, [ScopeNext]_scopeVars, ~shared', ~forgotten'
    PROVE  Unshared'
<1>t. ScopeTypeOK /\ LimitsHold
  BY DEF ScopeInv
<1>s. ~shared /\ ~forgotten
  <2>1. ASSUME NEW m \in Manager, Open(m) PROVE ~shared /\ ~forgotten
    BY <2>1 DEF Open
  <2>2. ASSUME NEW m \in Manager, End(m) PROVE ~shared /\ ~forgotten
    BY <2>2 DEF End
  <2>3. CASE UNCHANGED <<shared, forgotten>>
    BY <2>3
  <2> QED
    BY <2>1, <2>2, <2>3
       DEF ScopeNext, scopeVars, RegisterOverride, ReconcileOverride, FlagForCI, FlagAgain,
           SaveRecords, SaveFlags, FailRecords, FailFlags
<1>u. Unshared
  BY <1>s DEF ScopeInv
<1>a. ASSUME NEW m \in Manager, manager[m] # "none"
      PROVE  /\ \A n \in Manager \ {m} : manager[n] = "none"
             /\ \A i \in Claims \cup promised : known[m][i].active
             /\ promised \subseteq flagged[m]
  BY <1>u, <1>a DEF Unshared, OneManager, ClaimsKnown
<1> USE DEF ScopeTypeOK, Goto
<1>1. ASSUME NEW m \in Manager, Open(m) PROVE Unshared'
  <2>1. /\ \A n \in Manager : manager[n] = "none"
        /\ unsaved = {} /\ unsaved' = {}
    BY <1>1, <1>u DEF Open, Unshared, NothingLeftBehind
  <2>2. Limited(granted)' /\ Claims' = Claims
    BY <1>1, <1>u DEF Open, Unshared, Limited, Active, Claims
  <2> QED
    BY <1>1, <1>t, <1>u, <2>1, <2>2
       DEF Open, Unshared, OneManager, NothingLeftBehind, CopiesCurrent, ClaimsOnDisk, ClaimsKnown
<1>2. ASSUME NEW m \in Manager, End(m) PROVE Unshared'
  <2>1. unsaved = {} /\ unsaved' = {} /\ \A n \in Manager : manager'[n] = "none"
    BY <1>2, <1>a, <1>t DEF End
  <2>2. Limited(granted)' /\ Claims' = Claims
    BY <1>2, <1>u DEF End, Unshared, Limited, Active, Claims
  <2> QED
    BY <1>2, <1>t, <1>u, <2>1, <2>2
       DEF End, Unshared, OneManager, NothingLeftBehind, CopiesCurrent, ClaimsOnDisk, ClaimsKnown
<1>3. ASSUME NEW m \in Manager, NEW i \in ScopedId,
             NEW s \in LimitedScope \cup FreeScope, RegisterOverride(m, i, s)
      PROVE  Unshared'
  <2>1. manager[m] # "none"
    BY <1>3 DEF RegisterOverride
  <2>2. Limited(granted)' /\ Claims' = Claims
    BY <1>3, <1>u DEF RegisterOverride, Unshared, Limited, Active, Claims
  <2>3. \A j \in ScopedId : known'[m][j] = IF j = i THEN [scope |-> s, active |-> TRUE] ELSE known[m][j]
    BY <1>3, <1>t DEF RegisterOverride, Records
  <2>4. ClaimsKnown'
    BY <1>3, <1>t, <1>a, <2>1, <2>2, <2>3 DEF RegisterOverride, ClaimsKnown, Claims
  <2> QED
    BY <1>3, <1>t, <1>u, <1>a, <2>1, <2>2, <2>4
       DEF RegisterOverride, Unshared, OneManager, NothingLeftBehind, CopiesCurrent, ClaimsOnDisk
<1>4. ASSUME NEW m \in Manager, NEW i \in ScopedId, ReconcileOverride(m, i)
      PROVE  Unshared'
  <2>1. manager[m] # "none"
    BY <1>4 DEF ReconcileOverride
  <2>0. \A j \in ScopedId : granted'[j] = IF j = i THEN NoRecord ELSE granted[j]
    BY <1>4, <1>t DEF ReconcileOverride, Records
  <2>2. Claims' = Claims \ {i} /\ promised' = promised \ {i}
    BY <1>4, <2>0 DEF ReconcileOverride, Claims, NoRecord
  <2>3. \A j \in ScopedId \ {i} : known'[m][j] = known[m][j]
    BY <1>4, <1>t, Reconciled
  <2>4. ClaimsKnown'
    BY <1>4, <1>t, <1>a, <2>1, <2>2, <2>3 DEF ReconcileOverride, ClaimsKnown, Claims
  <2>5. Limited(granted')
    <3>1. \A s \in LimitedScope : Active(granted', s) \subseteq Active(granted, s)
      BY <2>0 DEF Active, NoRecord
    <3> QED
      BY <1>u, <3>1, FewerLimited DEF Unshared
  <2>6. Limited(granted)'
    BY <2>5 DEF Limited, Active
  <2> QED
    BY <1>4, <1>t, <1>u, <1>a, <2>1, <2>2, <2>4, <2>6
       DEF ReconcileOverride, Unshared, OneManager, NothingLeftBehind, CopiesCurrent, ClaimsOnDisk
<1>5. ASSUME NEW m \in Manager, NEW i \in ScopedId, FlagForCI(m, i)
      PROVE  Unshared'
  <2>1. Limited(granted)' /\ Claims' = Claims
    BY <1>5, <1>u DEF FlagForCI, Unshared, Limited, Active, Claims
  <2> QED
    BY <1>5, <1>t, <1>u, <1>a, <2>1
       DEF FlagForCI, Unshared, OneManager, NothingLeftBehind, CopiesCurrent, ClaimsOnDisk,
           ClaimsKnown
<1>6. ASSUME NEW m \in Manager, NEW i \in ScopedId, FlagAgain(m, i)
      PROVE  Unshared'
  <2>1. Limited(granted)' /\ Claims' = Claims
    BY <1>6, <1>u DEF FlagAgain, Unshared, Limited, Active, Claims
  <2>2. "records" \notin unsaved => records[i].active
    BY <1>6, <1>u DEF FlagAgain, Unshared, CopiesCurrent
  <2>3. "flags" \notin unsaved => i \in flags
    BY <1>6, <1>u DEF FlagAgain, Unshared, CopiesCurrent
  <2>4. ClaimsOnDisk'
    BY <1>6, <1>u, <2>1, <2>2, <2>3 DEF FlagAgain, Unshared, ClaimsOnDisk
  <2>5. ClaimsKnown'
    BY <1>6, <1>a, <2>1 DEF FlagAgain, ClaimsKnown
  <2> QED
    BY <1>6, <1>u, <2>1, <2>4, <2>5
       DEF FlagAgain, Unshared, OneManager, NothingLeftBehind, CopiesCurrent
<1>7. ASSUME NEW m \in Manager, SaveRecords(m) PROVE Unshared'
  <2>1. manager[m] # "none"
    BY <1>7 DEF SaveRecords
  <2>0. \A j \in ScopedId :
            granted'[j] = IF known[m][j].active THEN known[m][j] ELSE granted[j]
    BY <1>7 DEF SaveRecords
  <2>2. \A j \in ScopedId : granted'[j].active => known[m][j].active /\ granted'[j] = known[m][j]
    BY <1>a, <2>0, <2>1 DEF Claims
  <2>3. Limited(granted')
    <3>1. \A s \in LimitedScope : Active(granted', s) \subseteq Active(known[m], s)
      BY <2>2 DEF Active
    <3> QED
      BY <1>t, <3>1, FewerLimited DEF LimitsHold
  <2>4. Limited(granted)'
    BY <2>3 DEF Limited, Active
  <2>5. \A j \in Claims' \cup promised : known[m][j].active
    BY <1>a, <2>1, <2>2 DEF Claims
  <2>6. ClaimsKnown' /\ ClaimsOnDisk'
    BY <1>7, <1>u, <1>a, <1>t, <2>1, <2>5
       DEF SaveRecords, Unshared, ClaimsKnown, ClaimsOnDisk
  <2> QED
    BY <1>7, <1>t, <1>u, <1>a, <2>1, <2>4, <2>6
       DEF SaveRecords, Unshared, OneManager, NothingLeftBehind, CopiesCurrent
<1>8. ASSUME NEW m \in Manager, SaveFlags(m) PROVE Unshared'
  <2>1. Limited(granted)' /\ Claims' = Claims
    BY <1>8, <1>u DEF SaveFlags, Unshared, Limited, Active, Claims
  <2>2. known[m] = records /\ manager[m] # "none"
    BY <1>8, <1>u DEF SaveFlags, Unshared, CopiesCurrent
  <2> QED
    BY <1>8, <1>t, <1>u, <1>a, <2>1, <2>2
       DEF SaveFlags, Unshared, OneManager, NothingLeftBehind, CopiesCurrent, ClaimsOnDisk,
           ClaimsKnown
<1>9. ASSUME NEW m \in Manager, FailRecords(m) PROVE Unshared'
  <2>1. Limited(granted)' /\ Claims' = Claims
    BY <1>9, <1>u DEF FailRecords, Unshared, Limited, Active, Claims
  <2>2. /\ manager[m] # "none" /\ "records" \in unsaved'
        /\ "flags" \notin unsaved' => "flags" \notin unsaved /\ manager[m] = "register"
    BY <1>9 DEF FailRecords
  <2> QED
    BY <1>9, <1>t, <1>u, <1>a, <2>1, <2>2
       DEF FailRecords, Unshared, OneManager, NothingLeftBehind, CopiesCurrent, ClaimsOnDisk,
           ClaimsKnown
<1>10. ASSUME NEW m \in Manager, FailFlags(m) PROVE Unshared'
  <2>1. Limited(granted)' /\ Claims' = Claims
    BY <1>10, <1>u DEF FailFlags, Unshared, Limited, Active, Claims
  <2>2. manager[m] # "none" /\ known[m] = records
    BY <1>10, <1>u DEF FailFlags, Unshared, CopiesCurrent
  <2> QED
    BY <1>10, <1>t, <1>u, <1>a, <2>1, <2>2
       DEF FailFlags, Unshared, OneManager, NothingLeftBehind, CopiesCurrent, ClaimsOnDisk,
           ClaimsKnown
<1>11. CASE UNCHANGED scopeVars
  <2>1. Limited(granted)' /\ Claims' = Claims
    BY <1>11, <1>u DEF scopeVars, Unshared, Limited, Active, Claims
  <2> QED
    BY <1>11, <1>u, <2>1
       DEF scopeVars, Unshared, OneManager, NothingLeftBehind, CopiesCurrent, ClaimsOnDisk,
           ClaimsKnown
<1> QED
  BY <1>1, <1>2, <1>3, <1>4, <1>5, <1>6, <1>7, <1>8, <1>9, <1>10, <1>11 DEF ScopeNext

LEMMA ScopeInvariance == ScopeSpec => []ScopeInv
<1>1. ScopeInv /\ [ScopeNext]_scopeVars => ScopeInv'
  BY ScopeStepTyped, LimitsStep, UnsharedStep DEF ScopeInv
<1> QED
  BY <1>1, ScopeInitInv, PTL DEF ScopeSpec

(* The two files and the managers' copies of them keep their types.        *)
THEOREM ScopeTyping == ScopeSpec => []ScopeTypeOK
  BY ScopeInvariance, PTL DEF ScopeInv

(* As long as one manager is used at a time, and no process ends with a    *)
(* file that a failed or cut-short write has left: no scope has more       *)
(* overrides that were registered, and not reconciled, than its limit; a   *)
(* flag that flag_for_ci has returned, first or again, is on disk with its *)
(* active record until reconcile_override is called for it, wherever the   *)
(* process ends; and is in the manager's memory where a failed write has   *)
(* left its file to be written.                                            *)
THEOREM FlagsStayUntilReconciled == ScopeSpec => []EnforcedUntilReconciled
<1>1. ASSUME ScopeInv PROVE EnforcedUntilReconciled
  <2> SUFFICES ASSUME ~shared, ~forgotten
               PROVE  /\ \A s \in LimitedScope : Cardinality(Active(granted, s)) <= ScopeMax[s]
                      /\ \A i \in promised :
                            /\ "records" \notin unsaved => records[i].active
                            /\ "flags" \notin unsaved => i \in flags
                            /\ unsaved # {} =>
                                 \E m \in Manager : known[m][i].active /\ i \in flagged[m]
    BY DEF EnforcedUntilReconciled
  <2>1. Unshared
    BY <1>1 DEF ScopeInv
  <2>2. unsaved # {} => \E m \in Manager : manager[m] # "none"
    BY <2>1 DEF Unshared, NothingLeftBehind
  <2> QED
    BY <2>1, <2>2 DEF Unshared, ClaimsOnDisk, ClaimsKnown, Limited
<1> QED
  BY <1>1, ScopeInvariance, PTL

(* What the file says needs no such condition: a book is written only by a *)
(* manager that counted it, so that no file it writes, even over another's *)
(* or over what it could not read, has more active overrides in a scope    *)
(* than its limit (those another has written, or that could not be read,   *)
(* are then no longer counted).                                            *)
THEOREM ScopeLimitsAlwaysHold ==
    ScopeSpec => [](\A s \in LimitedScope : Cardinality(Active(records, s)) <= ScopeMax[s])
<1>1. ScopeInv => \A s \in LimitedScope : Cardinality(Active(records, s)) <= ScopeMax[s]
  BY DEF ScopeInv, LimitsHold, Limited
<1> QED
  BY <1>1, ScopeInvariance, PTL

-----------------------------------------------------------------------------
(* The validator's hashes.  What was ever found changed is known to some   *)
(* caller, or was lost with its validation, or is about to be returned.    *)
Known == examined \cup unreported \cup UNION {validation[v].changed : v \in Validator}

Vouched(f, hash) == hash # "absent" => [file |-> f, content |-> hash] \in Known

(* Nothing is under way in a validator that is idle.                       *)
IdleFoundNothing ==
    \A v \in Validator : validation[v].step \in {"none", "idle"} => validation[v].changed = {}

FileVouched == \A f \in SourceFile : Vouched(f, hashFile[f])

MemoryVouched == \A v \in Validator, f \in SourceFile : Vouched(f, remembered[v][f])

(* The hash that was compared, and is about to be remembered.              *)
SeenVouched == \A v \in Validator : \A s \in validation[v].seen : Vouched(s.file, s.content)

HashInv ==
    ValidatorTypeOK /\ IdleFoundNothing /\ FileVouched /\ MemoryVouched /\ SeenVouched

Validation ==
    [step : {"none", "idle", "looking", "saved"}, left : SUBSET SourceFile,
     seen : SUBSET [file : SourceFile, content : Text \cup {"absent"}],
     updates : BOOLEAN, changed : SUBSET Found]

LEMMA NoValidationTyped ==
    /\ NoValidation \in Validation /\ [NoValidation EXCEPT !.step = "none"] \in Validation
    /\ NoHashes \in Hashes
  BY DEF NoValidation, Validation, NoHashes, Hashes

LEMMA HashInitInv == ValidatorInit => HashInv
<1> SUFFICES ASSUME ValidatorInit PROVE HashInv
  OBVIOUS
<1>1. ValidatorTypeOK
  BY NoValidationTyped DEF ValidatorInit, ValidatorTypeOK, Validation
<1>2. \A v \in Validator : validation[v].changed = {} /\ validation[v].seen = {}
  BY DEF ValidatorInit, NoValidation
<1>3. IdleFoundNothing /\ SeenVouched
  BY <1>2 DEF IdleFoundNothing, SeenVouched
<1>4. FileVouched /\ MemoryVouched
  BY DEF ValidatorInit, FileVouched, MemoryVouched, Vouched, NoHashes
<1> QED
  BY <1>1, <1>3, <1>4 DEF HashInv

LEMMA ValidatorStepTyped == ValidatorTypeOK /\ [ValidatorNext]_validatorVars => ValidatorTypeOK'
<1> SUFFICES ASSUME ValidatorTypeOK, [ValidatorNext]_validatorVars
    PROVE ValidatorTypeOK'
  OBVIOUS
<1> USE NoValidationTyped
<1>t. /\ content \in Hashes /\ hashFile \in Hashes /\ remembered \in [Validator -> Hashes]
      /\ validation \in [Validator -> Validation]
      /\ examined \subseteq Found /\ unreported \subseteq Found
  BY DEF ValidatorTypeOK, Validation
<1>s. ASSUME content' \in Hashes, hashFile' \in Hashes,
             remembered' \in [Validator -> Hashes], validation' \in [Validator -> Validation],
             examined' \subseteq Found, unreported' \subseteq Found
      PROVE  ValidatorTypeOK'
  BY <1>s DEF ValidatorTypeOK, Validation
<1>v. \A v \in Validator : validation[v] \in Validation /\ validation[v].changed \subseteq Found
  BY <1>t DEF Validation
<1>1. ASSUME NEW f \in SourceFile, NEW c \in Text \cup {"absent"}, Edit(f, c)
      PROVE  content' \in Hashes
  BY <1>1, <1>t DEF Edit, Hashes
<1>2. ASSUME NEW v \in Validator, NEW files \in SUBSET SourceFile, NEW updates \in BOOLEAN,
             StartValidation(v, files, updates)
      PROVE  validation' \in [Validator -> Validation]
  <2>1. [NoValidation EXCEPT !.step = "looking", !.left = files, !.updates = updates]
          \in Validation
    BY DEF NoValidation, Validation
  <2> QED
    BY <1>2, <1>t, <2>1 DEF StartValidation
<1>3. ASSUME NEW v \in Validator, NEW f \in SourceFile, CheckFile(v, f)
      PROVE  validation' \in [Validator -> Validation]
  <2> DEFINE now == [file |-> f, content |-> content[f]]
             seen == IF validation[v].updates THEN {now} ELSE {}
             changed == IF content[f] \notin {"absent", remembered[v][f]}
                        THEN validation[v].changed \cup {now} ELSE validation[v].changed
             after == [validation[v] EXCEPT !.left = validation[v].left \ {f},
                                            !.seen = seen, !.changed = changed]
  <2>1. content[f] \in Text \cup {"absent"}
    BY <1>t DEF Hashes
  <2>2. seen \in SUBSET [file : SourceFile, content : Text \cup {"absent"}]
    BY <2>1
  <2>3. changed \in SUBSET Found
    BY <1>v, <2>1 DEF Found
  <2>4. validation' = [validation EXCEPT ![v] = after]
    BY <1>3, <1>t DEF CheckFile
  <2> HIDE DEF seen, changed
  <2>5. after \in Validation
    BY <1>v, <2>2, <2>3 DEF Validation
  <2> QED
    BY <1>t, <2>4, <2>5
<1>4. ASSUME NEW v \in Validator, NEW f \in SourceFile, CannotRead(v, f)
      PROVE  validation' \in [Validator -> Validation]
  <2>1. [validation[v] EXCEPT !.left = validation[v].left \ {f}] \in Validation
    BY <1>v DEF Validation
  <2> QED
    BY <1>4, <1>t, <2>1 DEF CannotRead
<1>5. ASSUME NEW v \in Validator, Remember(v)

      PROVE  remembered' \in [Validator -> Hashes] /\ validation' \in [Validator -> Validation]
  <2>1. [validation[v] EXCEPT !.seen = {}] \in Validation
    BY <1>v DEF Validation
  <2>2. PICK s \in validation[v].seen : remembered' = [remembered EXCEPT ![v][s.file] = s.content]
    BY <1>5 DEF Remember
  <2>3. s.file \in SourceFile /\ s.content \in Text \cup {"absent"}
    BY <1>v DEF Validation
  <2>4. [remembered[v] EXCEPT ![s.file] = s.content] \in Hashes
    BY <1>t, <2>3 DEF Hashes
  <2> QED
    BY <1>5, <1>t, <2>1, <2>2, <2>4 DEF Remember
<1>6. ASSUME NEW v \in Validator, SaveHashes(v)
      PROVE  hashFile' \in Hashes /\ validation' \in [Validator -> Validation]
  <2>1. [validation[v] EXCEPT !.step = "saved"] \in Validation
    BY <1>v DEF Validation
  <2> QED
    BY <1>6, <1>t, <2>1 DEF SaveHashes
<1>7. ASSUME NEW v \in Validator, NEW files \in SUBSET SourceFile, Forget(v, files)
      PROVE  hashFile' \in Hashes /\ remembered' \in [Validator -> Hashes]
  <2>1. [f \in SourceFile |-> IF f \in files THEN "absent" ELSE remembered[v][f]] \in Hashes
    BY <1>t DEF Hashes
  <2> QED
    BY <1>7, <1>t, <2>1 DEF Forget
<1>8. CASE \E f \in SourceFile : \E c \in Text \cup {"absent"} : Edit(f, c)
  BY <1>8, <1>1, <1>t, <1>s DEF Edit
<1>9. ASSUME NEW v \in Validator, OpenValidator(v) PROVE ValidatorTypeOK'
  BY <1>9, <1>t, <1>s DEF OpenValidator
<1>10. ASSUME NEW v \in Validator, ReturnResult(v) PROVE ValidatorTypeOK'
  BY <1>10, <1>t, <1>v, <1>s DEF ReturnResult
<1>11. ASSUME NEW v \in Validator, ValidationRaises(v) PROVE ValidatorTypeOK'
  BY <1>11, <1>t, <1>v, <1>s DEF ValidationRaises
<1>12. ASSUME NEW v \in Validator, NEW half \in BOOLEAN, EndValidator(v, half)
       PROVE  ValidatorTypeOK'
  BY <1>12, <1>t, <1>v, <1>s DEF EndValidator
<1>13. CASE UNCHANGED validatorVars
  BY <1>13, <1>t, <1>s DEF validatorVars
<1>14. ASSUME NEW v \in Validator, NEW files \in SUBSET SourceFile, NEW updates \in BOOLEAN,
              StartValidation(v, files, updates)
       PROVE  ValidatorTypeOK'
  BY <1>14, <1>2, <1>t, <1>s DEF StartValidation
<1>15. ASSUME NEW v \in Validator, NEW f \in SourceFile, CheckFile(v, f) \/ CannotRead(v, f)
       PROVE  ValidatorTypeOK'
  BY <1>15, <1>3, <1>4, <1>t, <1>s DEF CheckFile, CannotRead
<1>16. ASSUME NEW v \in Validator, Remember(v) \/ SaveHashes(v) PROVE ValidatorTypeOK'
  BY <1>16, <1>5, <1>6, <1>t, <1>s DEF Remember, SaveHashes
<1>17. ASSUME NEW v \in Validator, NEW files \in SUBSET SourceFile, Forget(v, files)
       PROVE  ValidatorTypeOK'
  BY <1>17, <1>7, <1>t, <1>s DEF Forget
<1> QED
  BY <1>8, <1>9, <1>10, <1>11, <1>12, <1>13, <1>14, <1>15, <1>16, <1>17
     DEF ValidatorNext

(* A step of validator v that loses nothing it found, and vouches for what *)
(* it is about to remember, keeps the rest.                                *)
LEMMA KnownGrows ==
    ASSUME validation \in [Validator -> Validation], NEW v \in Validator, NEW after,
           validation' = [validation EXCEPT ![v] = after],
           examined \subseteq examined', unreported \subseteq unreported',
           validation[v].changed \subseteq after.changed \cup examined' \cup unreported'
    PROVE  Known \subseteq Known'
<1> SUFFICES ASSUME NEW x \in Known PROVE x \in Known'
  OBVIOUS
<1>1. CASE x \in examined \cup unreported
  BY <1>1 DEF Known
<1>2. ASSUME NEW w \in Validator, x \in validation[w].changed PROVE x \in Known'
  <2>1. CASE w = v
    <3>1. validation'[v] = after
      OBVIOUS
    <3> QED
      BY <1>2, <2>1, <3>1 DEF Known
  <2>2. CASE w # v
    <3>1. validation'[w] = validation[w]
      BY <2>2
    <3> QED
      BY <1>2, <3>1 DEF Known
  <2> QED
    BY <2>1, <2>2
<1> QED
  BY <1>1, <1>2 DEF Known

LEMMA HashStepInv == HashInv /\ [ValidatorNext]_validatorVars => HashInv'
<1> SUFFICES ASSUME HashInv, [ValidatorNext]_validatorVars PROVE HashInv'
  OBVIOUS
<1>t. /\ ValidatorTypeOK /\ ValidatorTypeOK'
      /\ validation \in [Validator -> Validation] /\ remembered \in [Validator -> Hashes]
      /\ content \in Hashes /\ hashFile \in Hashes
  BY ValidatorStepTyped DEF HashInv, ValidatorTypeOK, Validation
<1>i. IdleFoundNothing /\ FileVouched /\ MemoryVouched /\ SeenVouched
  BY DEF HashInv
<1>n. NoValidation.changed = {} /\ NoValidation.seen = {}
      /\ [NoValidation EXCEPT !.step = "none"].changed = {}
      /\ [NoValidation EXCEPT !.step = "none"].seen = {}
  BY DEF NoValidation
(* What has to be shown of a step of validator v.                          *)
<1>s. ASSUME NEW v \in Validator, NEW after, validation' = [validation EXCEPT ![v] = after],
             examined \subseteq examined', unreported \subseteq unreported',
             validation[v].changed \subseteq after.changed \cup examined' \cup unreported',
             after.step \in {"none", "idle"} => after.changed = {},
             \A x \in after.seen : Vouched(x.file, x.content)',
             \A f \in SourceFile : Vouched(f, hashFile[f])',
             \A f \in SourceFile : Vouched(f, remembered[v][f])',
             \A w \in Validator \ {v} : remembered'[w] = remembered[w]
      PROVE  HashInv'
  <2>1. Known \subseteq Known'
    BY <1>s, <1>t, KnownGrows
  <2>2. validation'[v] = after /\ \A w \in Validator \ {v} : validation'[w] = validation[w]
    BY <1>s, <1>t
  <2>3. IdleFoundNothing'
    BY <1>s, <1>i, <2>2 DEF IdleFoundNothing
  <2>4. FileVouched'
    BY <1>s DEF FileVouched
  <2>5. MemoryVouched'
    BY <1>s, <1>i, <2>1 DEF MemoryVouched, Vouched
  <2>6. SeenVouched'
    BY <1>s, <1>i, <2>1, <2>2 DEF SeenVouched, Vouched
  <2> QED
    BY <1>t, <2>3, <2>4, <2>5, <2>6 DEF HashInv
(* Where the hashes stay what they are.                                    *)
<1>u. ASSUME NEW v \in Validator, NEW after, validation' = [validation EXCEPT ![v] = after],
             examined \subseteq examined', unreported \subseteq unreported',
             validation[v].changed \subseteq after.changed \cup examined' \cup unreported',
             after.step \in {"none", "idle"} => after.changed = {},
             after.seen = {} \/ \A x \in after.seen : Vouched(x.file, x.content)',
             UNCHANGED <<hashFile, remembered>>
      PROVE  HashInv'
  <2>1. Known \subseteq Known'
    BY <1>u, <1>t, KnownGrows
  <2>2. \A f \in SourceFile : Vouched(f, hashFile[f])' /\ Vouched(f, remembered[v][f])'
    BY <1>u, <1>i, <2>1 DEF FileVouched, MemoryVouched, Vouched
  <2> QED
    BY <1>u, <1>s, <2>2
<1>1. ASSUME NEW f \in SourceFile, NEW c \in Text \cup {"absent"}, Edit(f, c)
      PROVE HashInv'
  <2>1. UNCHANGED <<hashFile, remembered, validation, examined, unreported>>
    BY <1>1 DEF Edit
  <2>2. Known' = Known
    BY <2>1 DEF Known
  <2> QED
    BY <1>t, <1>i, <2>1, <2>2
       DEF HashInv, IdleFoundNothing, FileVouched, MemoryVouched, SeenVouched, Vouched
<1>2. ASSUME NEW v \in Validator, OpenValidator(v) PROVE HashInv'
  <2>1. validation[v].changed = {}
    BY <1>2, <1>i DEF OpenValidator, IdleFoundNothing
  <2>2. Known \subseteq Known'
    BY <1>2, <1>t, <2>1, KnownGrows DEF OpenValidator
  <2>3. \A f \in SourceFile : Vouched(f, hashFile[f])'
    BY <1>2, <1>i, <2>2 DEF OpenValidator, FileVouched, Vouched
  <2>4. remembered'[v] = hashFile /\ \A w \in Validator \ {v} : remembered'[w] = remembered[w]
    BY <1>2, <1>t DEF OpenValidator
  <2>5. hashFile' = hashFile
    BY <1>2 DEF OpenValidator
  <2>6. \A f \in SourceFile : Vouched(f, remembered[v][f])'
    BY <2>3, <2>4, <2>5 DEF Vouched
  <2> QED
    BY <1>2, <1>n, <1>s, <2>1, <2>3, <2>4, <2>6 DEF OpenValidator
<1>3. ASSUME NEW v \in Validator, NEW files \in SUBSET SourceFile, NEW updates \in BOOLEAN,
             StartValidation(v, files, updates)
      PROVE  HashInv'
  <2> DEFINE after == [NoValidation EXCEPT !.step = "looking", !.left = files, !.updates = updates]
  <2>1. after.changed = {} /\ after.seen = {}
    BY DEF NoValidation
  <2>2. validation[v].changed = {}
    BY <1>3, <1>i DEF StartValidation, IdleFoundNothing
  <2>3. validation' = [validation EXCEPT ![v] = after]
    BY <1>3 DEF StartValidation
  <2> HIDE DEF after
  <2> QED
    BY <1>3, <1>u, <2>1, <2>2, <2>3 DEF StartValidation
<1>4. ASSUME NEW v \in Validator, NEW f \in SourceFile, CheckFile(v, f) PROVE HashInv'
  <2> DEFINE now == [file |-> f, content |-> content[f]]
             seen == IF validation[v].updates THEN {now} ELSE {}
             changed == IF content[f] \notin {"absent", remembered[v][f]}
                        THEN validation[v].changed \cup {now} ELSE validation[v].changed
             after == [validation[v] EXCEPT !.left = validation[v].left \ {f},
                                            !.seen = seen, !.changed = changed]
  <2>1. validation' = [validation EXCEPT ![v] = after]
    BY <1>4, <1>t DEF CheckFile
  <2>2. validation[v] \in Validation /\ validation[v].step = "looking"
    BY <1>4, <1>t DEF CheckFile, Looking
  <2>3. after.seen = seen /\ after.changed = changed /\ after.step = "looking"
    BY <2>2 DEF Validation
  <2>4. validation[v].changed \subseteq changed
    OBVIOUS
  <2>5. UNCHANGED <<content, hashFile, remembered, examined, unreported>>
    BY <1>4 DEF CheckFile
  <2> HIDE DEF after, changed, seen
  <2>6. Known \subseteq Known'
    BY <1>t, <2>1, <2>3, <2>4, <2>5, KnownGrows
  <2>7. \A x \in changed : x \in Known'
    BY <1>t, <2>1, <2>3 DEF Known
  <2>8. Vouched(f, content[f])'
    <3>1. CASE content[f] = "absent"
      BY <2>5, <3>1 DEF Vouched
    <3>2. CASE content[f] = remembered[v][f]
      BY <1>i, <2>5, <2>6, <3>2 DEF Vouched, MemoryVouched
    <3>3. CASE content[f] \notin {"absent", remembered[v][f]}
      BY <2>5, <2>7, <3>3 DEF Vouched, changed
    <3> QED
      BY <3>1, <3>2, <3>3
  <2>9. \A x \in after.seen : Vouched(x.file, x.content)'
    BY <2>3, <2>5, <2>8 DEF seen, Vouched
  <2> QED
    BY <1>u, <2>1, <2>3, <2>4, <2>5, <2>9
<1>5. ASSUME NEW v \in Validator, NEW f \in SourceFile, CannotRead(v, f) PROVE HashInv'
  <2> DEFINE after == [validation[v] EXCEPT !.left = validation[v].left \ {f}]
  <2>1. validation[v] \in Validation
    BY <1>t
  <2>2. after.changed = validation[v].changed /\ after.seen = {} /\ after.step = "looking"
    BY <1>5, <2>1 DEF CannotRead, Looking, Validation
  <2>3. validation' = [validation EXCEPT ![v] = after]
    BY <1>5 DEF CannotRead
  <2> HIDE DEF after
  <2> QED
    BY <1>5, <1>u, <2>2, <2>3 DEF CannotRead
<1>6. ASSUME NEW v \in Validator, Remember(v) PROVE HashInv'
  <2> DEFINE after == [validation[v] EXCEPT !.seen = {}]
  <2>1. validation[v] \in Validation
    BY <1>t
  <2>2. after.changed = validation[v].changed /\ after.seen = {} /\ after.step = "looking"
    BY <1>6, <2>1 DEF Remember, Looking, Validation
  <2>3. /\ validation' = [validation EXCEPT ![v] = after]
        /\ UNCHANGED <<content, hashFile, examined, unreported>>
    BY <1>6 DEF Remember
  <2> HIDE DEF after
  <2>4. PICK x \in validation[v].seen : remembered' = [remembered EXCEPT ![v][x.file] = x.content]
    BY <1>6 DEF Remember
  <2>5. Known \subseteq Known'
    BY <1>t, <2>2, <2>3, KnownGrows
  <2>6. x.file \in SourceFile /\ remembered[v] \in Hashes
    BY <1>t, <2>1 DEF Validation
  <2>7. \A w \in Validator \ {v} : remembered'[w] = remembered[w]
    BY <1>t, <2>4
  <2>8. \A f \in SourceFile : remembered'[v][f] = IF f = x.file THEN x.content ELSE remembered[v][f]
    BY <1>t, <2>4, <2>6 DEF Hashes
  <2>9. \A f \in SourceFile : Vouched(f, remembered[v][f])'
    BY <1>i, <2>5, <2>8 DEF MemoryVouched, SeenVouched, Vouched
  <2>10. \A f \in SourceFile : Vouched(f, hashFile[f])'
    BY <1>i, <2>3, <2>5 DEF FileVouched, Vouched
  <2> QED
    BY <1>s, <2>2, <2>3, <2>7, <2>9, <2>10
<1>7. ASSUME NEW v \in Validator, SaveHashes(v) PROVE HashInv'
  <2> DEFINE after == [validation[v] EXCEPT !.step = "saved"]
  <2>1. validation[v] \in Validation
    BY <1>t
  <2>2. after.changed = validation[v].changed /\ after.seen = {} /\ after.step = "saved"
    BY <1>7, <2>1 DEF SaveHashes, AllSeen, Validation
  <2>3. /\ validation' = [validation EXCEPT ![v] = after] /\ hashFile' = remembered[v]
        /\ UNCHANGED <<content, remembered, examined, unreported>>
    BY <1>7 DEF SaveHashes
  <2> HIDE DEF after
  <2>4. Known \subseteq Known'
    BY <1>t, <2>2, <2>3, KnownGrows
  <2>5. \A f \in SourceFile : Vouched(f, remembered[v][f])' /\ Vouched(f, hashFile[f])'
    BY <1>i, <2>3, <2>4 DEF MemoryVouched, Vouched
  <2> QED
    BY <1>s, <2>2, <2>3, <2>5
<1>8. ASSUME NEW v \in Validator, ReturnResult(v) PROVE HashInv'
  BY <1>8, <1>u, <1>n DEF ReturnResult
<1>9. ASSUME NEW v \in Validator, ValidationRaises(v) PROVE HashInv'
  BY <1>9, <1>u, <1>n DEF ValidationRaises
<1>10. ASSUME NEW v \in Validator, NEW half \in BOOLEAN, EndValidator(v, half)
       PROVE HashInv'
  <2> DEFINE after == [NoValidation EXCEPT !.step = "none"]
  <2>1. /\ validation' = [validation EXCEPT ![v] = after]
        /\ unreported' = unreported \cup validation[v].changed /\ examined' = examined
        /\ after.changed = {} /\ after.seen = {}
    BY <1>10, <1>n DEF EndValidator
  <2> HIDE DEF after
  <2>2. Known \subseteq Known'
    BY <1>t, <2>1, KnownGrows
  <2>3. \A f \in SourceFile : hashFile'[f] \in {hashFile[f], "absent"}
    BY <1>10 DEF EndValidator, NoHashes
  <2>4. \A f \in SourceFile : Vouched(f, hashFile[f])'
    BY <1>i, <2>2, <2>3 DEF FileVouched, Vouched
  <2>5. /\ \A f \in SourceFile : remembered'[v][f] = "absent"
        /\ \A w \in Validator \ {v} : remembered'[w] = remembered[w]
    BY <1>10, <1>t DEF EndValidator, NoHashes
  <2>6. \A f \in SourceFile : Vouched(f, remembered[v][f])'
    BY <2>5 DEF Vouched
  <2> QED
    BY <1>s, <2>1, <2>4, <2>5, <2>6
<1>11. ASSUME NEW v \in Validator, NEW files \in SUBSET SourceFile, Forget(v, files)
       PROVE HashInv'
  <2> DEFINE rest == [f \in SourceFile |-> IF f \in files THEN "absent" ELSE remembered[v][f]]
  <2>1. /\ remembered' = [remembered EXCEPT ![v] = rest] /\ hashFile' = remembered'[v]
        /\ UNCHANGED <<content, validation, examined, unreported>>
    BY <1>11 DEF Forget
  <2>2. Known' = Known
    BY <2>1 DEF Known
  <2>3. /\ remembered'[v] = rest /\ hashFile' = rest
        /\ \A w \in Validator \ {v} : remembered'[w] = remembered[w]
    BY <1>t, <2>1
  <2>4. \A f \in SourceFile : Vouched(f, rest[f])
    BY <1>i DEF MemoryVouched, Vouched
  <2> HIDE DEF rest
  <2>5. FileVouched' /\ MemoryVouched'
    BY <1>i, <2>2, <2>3, <2>4 DEF FileVouched, MemoryVouched, Vouched
  <2> QED
    BY <1>t, <1>i, <2>1, <2>2, <2>5 DEF HashInv, IdleFoundNothing, SeenVouched, Vouched
<1>12. CASE UNCHANGED validatorVars
  <2>1. Known' = Known
    BY <1>12 DEF validatorVars, Known
  <2> QED
    BY <1>12, <1>t, <1>i, <2>1
       DEF validatorVars, HashInv, IdleFoundNothing, FileVouched,
         MemoryVouched, SeenVouched, Vouched
<1> QED
  BY <1>1, <1>2, <1>3, <1>4, <1>5, <1>6, <1>7, <1>8, <1>9, <1>10, <1>11,
     <1>12 DEF ValidatorNext

LEMMA HashInvariance == ValidatorSpec => []HashInv
  BY HashInitInv, HashStepInv, PTL DEF ValidatorSpec

(* The hashes in the file and in memory, and the validations, keep their   *)
(* types.                                                                  *)
THEOREM ValidatorTyping == ValidatorSpec => []ValidatorTypeOK
  BY HashInvariance, PTL DEF HashInv

(* Whatever a validation would skip, now or in a later process, was once   *)
(* returned to some caller as changed, or found by a validation that never *)
(* returned: no interleaving of edits, validations, saves, invalidations   *)
(* and ends of processes makes check_file remember a content nobody was    *)
(* told of.                                                                *)
THEOREM SkippedFilesWereExamined == ValidatorSpec => []SkippedWasExamined
<1>1. HashInv => SkippedWasExamined
  BY DEF HashInv, FileVouched, MemoryVouched, Vouched, Known, SkippedWasExamined
<1> QED
  BY <1>1, HashInvariance, PTL

-----------------------------------------------------------------------------
(* Migration.  What a run with backups has touched, it has touched after   *)
(* it began, and a run that has not begun has saved nothing.               *)
BackupsBegun == \A r \in Run :
    /\ touched[r] # {} => r \in withBackup
    /\ r \in withBackup => run[r] \in {"running", "ended"}
    /\ run[r] = "planned" => saved[r] = NoArtifact
    /\ run[r] = "idle" => saved[r] = NoArtifact

(* What was written to can be had back.                                    *)
Restorable == \A r \in withBackup : \A a \in touched[r] :
    /\ backups[dir[r]][a] = original[r][a]
    /\ a \in undone[dir[r]] => disk[a] = original[r][a]

(* A run under way has the artifacts it has yet to write to as they were,  *)
(* the one it works on in its backup directory too, and the directory for  *)
(* itself.                                                                 *)
AsFound(r) ==
    /\ touched[r] \cap plan[r] = {}
    /\ \A a \in Artifact \ touched[r] : disk[a] = original[r][a]
    /\ saved[r] # NoArtifact =>
           saved[r] \in plan[r] /\ backups[dir[r]][saved[r]] = original[r][saved[r]]
    /\ \A q \in withBackup \ {r} : dir[q] = dir[r] => touched[q] = {}

OneRuns == \A r, q \in Run : run[r] = "running" /\ run[q] = "running" => r = q

MigratorInv ==
    /\ MigratorTypeOK
    /\ BackupsBegun
    /\ ~overlapped => /\ OneRuns
                      /\ Restorable
                      /\ \A r \in withBackup : run[r] = "running" => AsFound(r)

LEMMA MigratorInitInv == MigratorInit => MigratorInv
<1> SUFFICES ASSUME MigratorInit PROVE MigratorInv
  OBVIOUS
<1>1. 1 \in Seconds
  BY MigratorAssumption DEF Seconds
<1>2. MigratorTypeOK
  BY <1>1 DEF MigratorInit, MigratorTypeOK, Stored, Copy
<1>3. BackupsBegun /\ OneRuns /\ Restorable /\ \A r \in withBackup : AsFound(r)
  BY DEF MigratorInit, BackupsBegun, OneRuns, Restorable
<1> QED
  BY <1>2, <1>3 DEF MigratorInv

LEMMA MigratorStepInv == MigratorInv /\ [MigratorNext]_migratorVars => MigratorInv'
<1> SUFFICES ASSUME MigratorInv, [MigratorNext]_migratorVars PROVE MigratorInv'
  OBVIOUS
<1> USE MigratorAssumption
<1>t. MigratorTypeOK /\ BackupsBegun
  BY DEF MigratorInv
<1>1. ASSUME NEW r \in Run, Scan(r) PROVE MigratorInv'
  <2>1. MigratorTypeOK'
    BY <1>1, <1>t DEF Scan, MigratorTypeOK
  <2>2. /\ UNCHANGED <<disk, saved, withBackup, dir, backups, undone, original, touched, overlapped>>
        /\ run' \in [Run -> {"idle", "planned", "running", "ended"}]
        /\ run[r] = "idle" /\ run'[r] = "planned"
        /\ \A q \in Run \ {r} : run'[q] = run[q] /\ plan'[q] = plan[q]
    BY <1>1, <1>t DEF Scan, MigratorTypeOK
  <2>3. BackupsBegun'
    BY <2>2, <1>t DEF BackupsBegun
  <2>4. ~overlapped => OneRuns' /\ Restorable'
    BY <2>2 DEF MigratorInv, OneRuns, Restorable
  <2>5. ASSUME ~overlapped, NEW q \in withBackup, run'[q] = "running" PROVE AsFound(q)'
    <3>1. q \in Run \ {r} /\ run[q] = "running"
      BY <2>2, <2>5, <1>t DEF MigratorTypeOK
    <3> QED
      BY <2>2, <2>5, <3>1 DEF MigratorInv, AsFound
  <2> QED
    BY <2>1, <2>2, <2>3, <2>4, <2>5 DEF MigratorInv
<1>2. ASSUME NEW r \in Run, NEW backup \in BOOLEAN, NEW now \in second .. MaxSeconds,
             ExecuteMigration(r, backup, now)
      PROVE  MigratorInv'
  <2>1. now \in Seconds
    BY <1>t DEF MigratorTypeOK, Seconds
  <2>2. /\ run[r] = "planned" /\ r \notin withBackup /\ touched[r] = {}
        /\ UNCHANGED <<disk, plan, saved, backups, undone, touched>>
    BY <1>2, <1>t DEF ExecuteMigration, BackupsBegun
  <2>3. /\ withBackup' = IF backup THEN withBackup \cup {r} ELSE withBackup
        /\ overlapped' \in BOOLEAN
        /\ ~overlapped' => /\ ~overlapped
                           /\ \A q \in Run : run[q] # "running"
                           /\ \A a \in Artifact : backups[now][a] = "absent"
    BY <1>2, <1>t DEF ExecuteMigration, MigratorTypeOK
  <2>4. /\ dir' \in [Run -> Seconds] /\ dir'[r] = now
        /\ run' \in [Run -> {"idle", "planned", "running", "ended"}] /\ run'[r] = "running"
        /\ original' \in [Run -> [Artifact -> Stored]] /\ (backup => original'[r] = disk)
        /\ \A q \in Run \ {r} : run'[q] = run[q] /\ dir'[q] = dir[q] /\ original'[q] = original[q]
    BY <1>2, <1>t, <2>1 DEF ExecuteMigration, MigratorTypeOK
  <2>5. MigratorTypeOK'
    BY <1>2, <1>t, <2>1, <2>2, <2>3, <2>4 DEF ExecuteMigration, MigratorTypeOK
  <2>6. BackupsBegun'
    BY <2>2, <2>3, <2>4, <1>t DEF BackupsBegun, MigratorTypeOK
  <2>7. ASSUME ~overlapped' PROVE OneRuns' /\ Restorable'
    BY <2>2, <2>3, <2>4, <2>7, <1>t DEF MigratorInv, OneRuns, Restorable, MigratorTypeOK
  <2>8. ASSUME ~overlapped', NEW q \in withBackup', run'[q] = "running"
        PROVE AsFound(q)'
    <3>1. q \in Run
      BY <2>5, <2>8 DEF MigratorTypeOK
    <3>2. q = r
      BY <2>3, <2>4, <2>8, <3>1
    <3>4. backup
      BY <2>2, <2>3, <2>8, <3>2
    <3>3. \A p \in withBackup' \ {r} : dir'[p] = dir'[r] => touched'[p] = {}
      <4> SUFFICES ASSUME NEW p \in withBackup, p # r, dir[p] = now
          PROVE touched[p] = {}
        BY <2>2, <2>3, <2>4, <1>t DEF MigratorTypeOK
      <4>1. \A a \in touched[p] : backups[now][a] = original[p][a] /\ backups[now][a] = "absent"
                                  /\ original[p][a] \in Stored
        BY <2>3, <2>8, <1>t DEF MigratorInv, Restorable, MigratorTypeOK
      <4> QED
        BY <4>1 DEF Stored
    <3> QED
      BY <2>2, <2>4, <3>2, <3>3, <3>4, <1>t DEF AsFound, BackupsBegun
  <2> QED
    BY <2>3, <2>5, <2>6, <2>7, <2>8 DEF MigratorInv
<1>3. ASSUME NEW r \in Run, NEW a \in Artifact, Backup(r, a) PROVE MigratorInv'
  <2>1. /\ run[r] = "running" /\ a \in plan[r] /\ a # NoArtifact
        /\ saved' \in [Run -> Artifact \cup {NoArtifact}] /\ saved'[r] = a
        /\ \A q \in Run \ {r} : saved'[q] = saved[q]
        /\ UNCHANGED <<disk, run, plan, withBackup, second, dir, undone,
                       original, touched, overlapped>>
    BY <1>3, <1>t DEF Backup, MigratorTypeOK
  <2>2. dir[r] \in Seconds /\ disk[a] \in Copy
    BY <1>t DEF MigratorTypeOK, Copy
  <2> DEFINE after == [backups[dir[r]] EXCEPT ![a] = disk[a]]
  <2>3. /\ after \in [Artifact -> Copy] /\ after[a] = disk[a]
        /\ \A b \in Artifact \ {a} : after[b] = backups[dir[r]][b]
    BY <2>2, <1>t DEF MigratorTypeOK
  <2>4. backups' = IF r \in withBackup THEN [backups EXCEPT ![dir[r]] = after] ELSE backups
    BY <1>3 DEF Backup
  <2> HIDE DEF after
  <2>5. /\ backups' \in [Seconds -> [Artifact -> Copy]]
        /\ r \in withBackup => backups'[dir[r]] = after
        /\ \A d \in Seconds \ {dir[r]} : backups'[d] = backups[d]
        /\ r \notin withBackup => backups' = backups
    BY <2>2, <2>3, <2>4, <1>t DEF MigratorTypeOK
  <2>6. MigratorTypeOK'
    BY <2>1, <2>5, <1>t DEF MigratorTypeOK
  <2>7. BackupsBegun'
    BY <2>1, <1>t DEF BackupsBegun
  <2>8. ASSUME ~overlapped
        PROVE OneRuns' /\ Restorable' /\ \A q \in withBackup : run[q] = "running" => AsFound(q)'
    <3>1. OneRuns /\ Restorable /\ \A q \in withBackup : run[q] = "running" => AsFound(q)
      BY <2>8 DEF MigratorInv
    <3>2. OneRuns'
      BY <2>1, <3>1 DEF OneRuns
    <3>3. r \in withBackup => AsFound(r)
      BY <2>1, <3>1
    <3>4. Restorable'
      <4> SUFFICES ASSUME NEW q \in withBackup, NEW b \in touched[q]
                   PROVE  backups'[dir[q]][b] = backups[dir[q]][b]
        BY <2>1, <3>1 DEF Restorable
      <4>1. q \in Run /\ dir[q] \in Seconds /\ b \in Artifact
        BY <1>t DEF MigratorTypeOK
      <4>2. CASE r \in withBackup /\ dir[q] = dir[r]
        <5>1. q = r /\ b # a
          BY <2>1, <3>3, <4>2 DEF AsFound
        <5> QED
          BY <2>3, <2>5, <4>1, <4>2, <5>1
      <4> QED
        BY <2>5, <4>1, <4>2
    <3>5. ASSUME NEW q \in withBackup, run[q] = "running" PROVE AsFound(q)'
      <4>1. q = r
        BY <2>1, <3>1, <3>5, <1>t DEF OneRuns, MigratorTypeOK
      <4>2. a \notin touched[r] /\ disk[a] = original[r][a]
        BY <2>1, <3>3, <3>5, <4>1 DEF AsFound
      <4> QED
        BY <2>1, <2>3, <2>5, <3>3, <3>5, <4>1, <4>2 DEF AsFound
    <3> QED
      BY <3>2, <3>4, <3>5
  <2> QED
    BY <2>1, <2>6, <2>7, <2>8 DEF MigratorInv
<1>4. ASSUME NEW r \in Run, NEW a \in Artifact, NEW data \in Stored, Write(r, a, data)
      PROVE  /\ disk' \in [Artifact -> Stored] /\ touched' \in [Run -> SUBSET Artifact]
             /\ undone' \in [Seconds -> SUBSET Artifact]
             /\ \A b \in Artifact \ {a} : disk'[b] = disk[b]
             /\ \A d \in Seconds : undone'[d] = undone[d] \ {a}
             /\ r \in withBackup => touched'[r] = touched[r] \cup {a}
             /\ r \notin withBackup => touched'[r] = touched[r]
             /\ \A q \in Run \ {r} : touched'[q] = touched[q]
  BY <1>4, <1>t DEF Write, MigratorTypeOK
(* Migrating and tearing: the artifact is written, and is done with.       *)
<1>5. ASSUME NEW r \in Run, NEW a \in Artifact, NEW data \in Stored, Write(r, a, data),
             run[r] = "running", saved[r] = a,
             plan' \in [Run -> SUBSET Artifact],
             plan'[r] \subseteq plan[r] \ {a}, \A q \in Run \ {r} : plan'[q] = plan[q],
             saved' = [saved EXCEPT ![r] = NoArtifact],
             run' \in [Run -> {"idle", "planned", "running", "ended"}],
             run'[r] \in {"running", "ended"}, \A q \in Run \ {r} : run'[q] = run[q],
             UNCHANGED <<withBackup, second, dir, backups, original, overlapped>>
      PROVE  MigratorInv'
  <2>1. /\ disk' \in [Artifact -> Stored] /\ touched' \in [Run -> SUBSET Artifact]
        /\ undone' \in [Seconds -> SUBSET Artifact]
        /\ \A b \in Artifact \ {a} : disk'[b] = disk[b]
        /\ \A d \in Seconds : undone'[d] = undone[d] \ {a}
        /\ r \in withBackup => touched'[r] = touched[r] \cup {a}
        /\ r \notin withBackup => touched'[r] = touched[r]
        /\ \A q \in Run \ {r} : touched'[q] = touched[q]
    BY <1>4, <1>5
  <2>2. /\ saved' \in [Run -> Artifact \cup {NoArtifact}] /\ saved'[r] = NoArtifact
        /\ \A q \in Run \ {r} : saved'[q] = saved[q]
    BY <1>5, <1>t DEF MigratorTypeOK
  <2>3. MigratorTypeOK'
    BY <1>5, <1>t, <2>1, <2>2 DEF MigratorTypeOK
  <2>4. BackupsBegun'
    BY <1>5, <1>t, <2>1, <2>2 DEF BackupsBegun
  <2>5. ASSUME ~overlapped
        PROVE OneRuns' /\ Restorable' /\ \A q \in withBackup : run'[q] = "running" => AsFound(q)'
    <3>1. OneRuns /\ Restorable /\ \A q \in withBackup : run[q] = "running" => AsFound(q)
      BY <2>5 DEF MigratorInv
    <3>2. \A q \in Run : run'[q] = "running" => run[q] = "running" /\ q = r
      BY <1>5, <3>1 DEF OneRuns
    <3>3. r \in withBackup => AsFound(r)
      BY <1>5, <3>1
    <3>4. Restorable'
      <4> SUFFICES ASSUME NEW q \in withBackup, NEW b \in touched'[q]
                   PROVE  /\ backups[dir[q]][b] = original[q][b]
                          /\ b \in undone'[dir[q]] => disk'[b] = original[q][b]
        BY <1>5 DEF Restorable
      <4>1. q \in Run /\ dir[q] \in Seconds /\ b \in Artifact
        BY <2>1, <1>t DEF MigratorTypeOK
      <4>2. CASE b = a /\ q = r
        BY <1>5, <2>1, <3>3, <4>1, <4>2 DEF AsFound
      <4>3. CASE ~(b = a /\ q = r)
        <5>1. b \in touched[q]
          BY <2>1, <4>1, <4>3
        <5> QED
          BY <2>1, <3>1, <4>1, <5>1 DEF Restorable
      <4> QED
        BY <4>2, <4>3
    <3>5. ASSUME NEW q \in withBackup, run'[q] = "running" PROVE AsFound(q)'
      <4>1. q \in Run /\ q = r
        BY <3>2, <3>5, <1>t DEF MigratorTypeOK
      <4>2. \A p \in withBackup \ {r} : p \in Run /\ touched'[p] = touched[p]
        BY <2>1, <1>t DEF MigratorTypeOK
      <4> QED
        BY <1>5, <2>1, <2>2, <3>3, <3>5, <4>1, <4>2 DEF AsFound
    <3> QED
      BY <3>2, <3>4, <3>5 DEF OneRuns
  <2> QED
    BY <1>5, <2>3, <2>4, <2>5 DEF MigratorInv
<1>6. ASSUME NEW r \in Run, NEW a \in Artifact, Migrate(r, a) PROVE MigratorInv'
  <2>1. (IF disk[a] = "old" THEN "new" ELSE "twice") \in Stored
    BY DEF Stored
  <2>2. /\ plan' \in [Run -> SUBSET Artifact]
        /\ plan'[r] = plan[r] \ {a} /\ \A q \in Run \ {r} : plan'[q] = plan[q]
    BY <1>6, <1>t DEF Migrate, Done, MigratorTypeOK
  <2>3. run' = run /\ run \in [Run -> {"idle", "planned", "running", "ended"}]
    BY <1>6, <1>t DEF Migrate, MigratorTypeOK
  <2> QED
    BY <1>5, <1>6, <2>1, <2>2, <2>3 DEF Migrate, Done
<1>7. ASSUME NEW r \in Run, NEW a \in Artifact, NEW crash \in BOOLEAN, TearArtifact(r, a, crash)
      PROVE  MigratorInv'
  <2>1. "torn" \in Stored
    BY DEF Stored
  <2>2. /\ plan' \in [Run -> SUBSET Artifact]
        /\ plan'[r] \subseteq plan[r] \ {a} /\ \A q \in Run \ {r} : plan'[q] = plan[q]
    BY <1>7, <1>t DEF TearArtifact, MigratorTypeOK
  <2>3. /\ run' \in [Run -> {"idle", "planned", "running", "ended"}]
        /\ run'[r] \in {"running", "ended"} /\ \A q \in Run \ {r} : run'[q] = run[q]
    BY <1>7, <1>t DEF TearArtifact, MigratorTypeOK
  <2> QED
    BY <1>5, <1>7, <2>1, <2>2, <2>3 DEF TearArtifact
(* Ending and failing: nothing is written, and there is less to do.        *)
<1>8. ASSUME NEW r \in Run, run[r] \in {"planned", "running"},
             plan' \in [Run -> SUBSET Artifact],
             plan'[r] \subseteq plan[r], \A q \in Run \ {r} : plan'[q] = plan[q],
             saved' = [saved EXCEPT ![r] = NoArtifact],
             run' \in [Run -> {"idle", "planned", "running", "ended"}],
             run'[r] \in {run[r], "ended"}, \A q \in Run \ {r} : run'[q] = run[q],
             UNCHANGED <<disk, withBackup, second, dir, backups, undone,
                         original, touched, overlapped>>
      PROVE  MigratorInv'
  <2>2. /\ saved' \in [Run -> Artifact \cup {NoArtifact}] /\ saved'[r] = NoArtifact
        /\ \A q \in Run \ {r} : saved'[q] = saved[q]
    BY <1>8, <1>t DEF MigratorTypeOK
  <2>3. MigratorTypeOK'
    BY <1>8, <1>t, <2>2 DEF MigratorTypeOK
  <2>4. BackupsBegun'
    BY <1>8, <1>t, <2>2 DEF BackupsBegun
  <2>5. ASSUME ~overlapped
        PROVE OneRuns' /\ Restorable' /\ \A q \in withBackup : run'[q] = "running" => AsFound(q)'
    <3>1. OneRuns /\ Restorable /\ \A q \in withBackup : run[q] = "running" => AsFound(q)
      BY <2>5 DEF MigratorInv
    <3>2. \A q \in Run : run'[q] = "running" => run[q] = "running"
      BY <1>8
    <3>3. Restorable' /\ OneRuns'
      BY <1>8, <3>1, <3>2 DEF Restorable, OneRuns
    <3>4. ASSUME NEW q \in withBackup, run'[q] = "running" PROVE AsFound(q)'
      <4>1. q \in Run /\ AsFound(q)
        BY <3>1, <3>2, <3>4, <1>t DEF MigratorTypeOK
      <4>2. CASE q = r
        BY <1>8, <2>2, <4>1, <4>2 DEF AsFound
      <4>3. CASE q # r
        BY <1>8, <2>2, <4>1, <4>3 DEF AsFound
      <4> QED
        BY <4>2, <4>3
    <3> QED
      BY <3>3, <3>4
  <2> QED
    BY <1>8, <2>3, <2>4, <2>5 DEF MigratorInv
<1>9. ASSUME NEW r \in Run, NEW a \in Artifact, FailToMigrate(r, a) PROVE MigratorInv'
  <2>1. /\ plan' \in [Run -> SUBSET Artifact]
        /\ plan'[r] \subseteq plan[r] /\ \A q \in Run \ {r} : plan'[q] = plan[q]
    BY <1>9, <1>t DEF FailToMigrate, Done, MigratorTypeOK
  <2>2. run' = run /\ run \in [Run -> {"idle", "planned", "running", "ended"}]
    BY <1>9, <1>t DEF FailToMigrate, MigratorTypeOK
  <2> QED
    BY <1>8, <1>9, <2>1, <2>2 DEF FailToMigrate, Done
<1>10. ASSUME NEW r \in Run, EndRun(r) PROVE MigratorInv'
  <2>1. /\ plan' \in [Run -> SUBSET Artifact]
        /\ plan'[r] \subseteq plan[r] /\ \A q \in Run \ {r} : plan'[q] = plan[q]
    BY <1>10, <1>t DEF EndRun, MigratorTypeOK
  <2>2. /\ run' \in [Run -> {"idle", "planned", "running", "ended"}]
        /\ run'[r] = "ended" /\ \A q \in Run \ {r} : run'[q] = run[q]
    BY <1>10, <1>t DEF EndRun, MigratorTypeOK
  <2> QED
    BY <1>8, <1>10, <2>1, <2>2 DEF EndRun
<1>11. ASSUME NEW d \in Seconds, NEW some \in SUBSET Artifact, RollbackMigration(d, some)
       PROVE  MigratorInv'
  <2>1. /\ UNCHANGED <<run, plan, saved, withBackup, second, dir, backups, original, touched>>
        /\ overlapped' \in BOOLEAN
        /\ ~overlapped' => ~overlapped /\ \A r \in Run : run[r] # "running"
    BY <1>11, <1>t DEF RollbackMigration, perRun, MigratorTypeOK
  <2>2. \A a \in some : backups[d][a] \in Stored
    BY <1>11, <1>t DEF RollbackMigration, MigratorTypeOK, Copy
  <2>3. /\ disk' \in [Artifact -> Stored]
        /\ \A a \in Artifact : disk'[a] = IF a \in some THEN backups[d][a] ELSE disk[a]
    BY <1>11, <1>t, <2>2 DEF RollbackMigration, MigratorTypeOK
  <2>4. /\ undone' \in [Seconds -> SUBSET Artifact]
        /\ undone'[d] = undone[d] \cup some
        /\ \A e \in Seconds \ {d} : undone'[e] = undone[e] \ some
    BY <1>11, <1>t DEF RollbackMigration, MigratorTypeOK
  <2>5. MigratorTypeOK'
    BY <2>1, <2>3, <2>4, <1>t DEF MigratorTypeOK
  <2>6. BackupsBegun'
    BY <2>1, <1>t DEF BackupsBegun
  <2>7. ASSUME ~overlapped'
        PROVE OneRuns' /\ Restorable' /\ \A r \in withBackup : run[r] # "running"
    <3>1. Restorable /\ OneRuns
      BY <2>1, <2>7 DEF MigratorInv
    <3>2. ASSUME NEW r \in withBackup, NEW a \in touched[r]
          PROVE  a \in undone'[dir[r]] => disk'[a] = original[r][a]
      <4>1. r \in Run /\ dir[r] \in Seconds /\ a \in Artifact
        BY <1>t DEF MigratorTypeOK
      <4>2. /\ backups[dir[r]][a] = original[r][a]
            /\ a \in undone[dir[r]] => disk[a] = original[r][a]
        BY <3>1 DEF Restorable
      <4>3. CASE a \in some
        BY <2>3, <2>4, <4>1, <4>2, <4>3
      <4>4. CASE a \notin some
        BY <2>3, <2>4, <4>1, <4>2, <4>4
      <4> QED
        BY <4>3, <4>4
    <3>3. Restorable'
      BY <2>1, <3>1, <3>2 DEF Restorable
    <3> QED
      BY <2>1, <2>7, <3>1, <3>3, <1>t DEF OneRuns, MigratorTypeOK
  <2> QED
    BY <2>1, <2>5, <2>6, <2>7 DEF MigratorInv
<1>12. CASE UNCHANGED migratorVars
  BY <1>12
     DEF migratorVars, MigratorInv, MigratorTypeOK, BackupsBegun, OneRuns, Restorable, AsFound
<1> QED
  BY <1>1, <1>2, <1>3, <1>6, <1>7, <1>9, <1>10, <1>11, <1>12 DEF MigratorNext

LEMMA MigratorInvariance == MigratorSpec => []MigratorInv
  BY MigratorInitInv, MigratorStepInv, PTL DEF MigratorSpec

(* Artifacts, backups and runs keep their types.                           *)
THEOREM MigratorTyping == MigratorSpec => []MigratorTypeOK
  BY MigratorInvariance, PTL DEF MigratorInv

(* For any number of artifacts, runs and seconds: as long as runs do not   *)
(* overlap and no two share a second, everything a migration with backups  *)
(* has written, or torn, is in its backup directory as the run found it,   *)
(* and is so on disk once a rollback has put it back, wherever the run     *)
(* failed or ended and however often runs and rollbacks follow each other. *)
THEOREM MigrationsCanBeUndone == MigratorSpec => []RollbackRestores
<1>1. MigratorInv => RollbackRestores
  BY DEF MigratorInv, RollbackRestores, Restorable
<1> QED
  BY <1>1, MigratorInvariance, PTL

-----------------------------------------------------------------------------
(* A transaction.  What an operation makes of the files f, and how it is   *)
(* undone on them with what was kept of its target.                        *)
MovedOf(f, from, to) ==
    [p \in Path |-> IF p = to THEN f[from] ELSE IF p = from THEN "absent" ELSE f[p]]

EffectOf(f, op) ==
    CASE op.type \in {"create", "modify"} -> [f EXCEPT ![op.target] = "ours"]
      [] op.type = "delete"               -> [f EXCEPT ![op.target] = "absent"]
      [] op.type \in {"rename", "move"}   -> MovedOf(f, op.source, op.target)

UndoneOf(f, op, was) ==
    CASE op.type = "create" -> [f EXCEPT ![op.target] = "absent"]
      [] op.type \in {"modify", "delete"} -> [f EXCEPT ![op.target] = was]
      [] op.type \in {"rename", "move"} ->
           IF f[op.target] # "absent" THEN MovedOf(f, op.target, op.source) ELSE f

Files == [Path -> Content]

(* The text of the files, and whether no file was read and written again.  *)
TextOf(f) == [p \in Path |-> Normal(f[p])]

Plain(op) == op.type \notin {"modify", "delete"}

AllPlain == \A i \in 1 .. completed : Plain(ops[i])

(* h[i] are the files after the first i operations, of which each leads    *)
(* back to those before it: in their text, and entirely if all are plain.  *)
LeadsBack(h) ==
    /\ h[0] = before
    /\ TextOf(file) = TextOf(h[at])
    /\ AllPlain => file = h[at]
    /\ \A i \in 1 .. completed :
          /\ TextOf(UndoneOf(h[i], ops[i], kept[i])) = TextOf(h[i - 1])
          /\ AllPlain => UndoneOf(h[i], ops[i], kept[i]) = h[i - 1]

RefactorInv ==
    /\ RefactorTypeOK
    /\ Len(ops) <= MaxOps
    /\ at <= completed
    /\ state = "pending" => completed = 0 /\ before = file
    /\ ~undoing =>
           at = IF state \in {"in_progress", "committed"} THEN completed ELSE 0
    /\ ~lossy => \E h \in [0 .. MaxOps -> Files] : LeadsBack(h)

LEMMA OperationTyped ==
    \A op \in Operation :
        /\ op.target \in Path
        /\ op.type \in {"create", "modify", "delete", "rename", "move"}
        /\ op.type \in {"rename", "move"} => op.source \in Path
  BY DEF Operation

LEMMA EffectTyped ==
    ASSUME NEW f \in Files, NEW op \in Operation
    PROVE  EffectOf(f, op) \in Files
<1> USE OperationTyped DEF Files, Content
<1>1. CASE op.type \in {"create", "modify"}
  BY <1>1 DEF EffectOf
<1>2. CASE op.type = "delete"
  BY <1>2 DEF EffectOf
<1>3. CASE op.type \in {"rename", "move"}
  BY <1>3 DEF EffectOf, MovedOf
<1> QED
  BY <1>1, <1>2, <1>3

LEMMA UndoneTyped ==
    ASSUME NEW f \in Files, NEW op \in Operation, NEW c \in Content
    PROVE  UndoneOf(f, op, c) \in Files
<1> USE OperationTyped DEF Files, Content
<1>1. CASE op.type = "create"
  BY <1>1 DEF UndoneOf
<1>2. CASE op.type \in {"modify", "delete"}
  BY <1>2 DEF UndoneOf
<1>3. CASE op.type \in {"rename", "move"}
  BY <1>3 DEF UndoneOf, MovedOf
<1> QED
  BY <1>1, <1>2, <1>3

(* An operation that was feasible, and overwrote nothing it did not keep,  *)
(* is undone exactly.                                                      *)
LEMMA UndoRestores ==
    ASSUME NEW f \in Files, NEW op \in Operation, NEW c \in Content,
           op.type = "create" => f[op.target] = "absent",
           op.type \in {"modify", "delete"} => c = f[op.target],
           op.type \in {"rename", "move"} =>
               f[op.source] # "absent" /\ (f[op.target] = "absent" \/ op.source = op.target)
    PROVE  UndoneOf(EffectOf(f, op), op, c) = f
<1> USE OperationTyped DEF Files
<1>1. CASE op.type = "create"
  BY <1>1 DEF EffectOf, UndoneOf
<1>2. CASE op.type = "modify"
  BY <1>2 DEF EffectOf, UndoneOf
<1>3. CASE op.type = "delete"
  BY <1>3 DEF EffectOf, UndoneOf
<1>4. CASE op.type \in {"rename", "move"}
  <2> DEFINE g == MovedOf(f, op.source, op.target)
  <2>1. /\ op.source \in Path /\ op.target \in Path
        /\ \A p \in Path : g[p] = IF p = op.target THEN f[op.source]
                                  ELSE IF p = op.source THEN "absent" ELSE f[p]
    BY <1>4 DEF MovedOf
  <2>2. EffectOf(f, op) = g
    BY <1>4 DEF EffectOf
  <2> HIDE DEF g
  <2>3. UndoneOf(g, op, c) = MovedOf(g, op.target, op.source)
    BY <1>4, <2>1 DEF UndoneOf
  <2>4. \A p \in Path : (IF p = op.source THEN g[op.target]
                         ELSE IF p = op.target THEN "absent" ELSE g[p]) = f[p]
    BY <1>4, <2>1
  <2>5. MovedOf(g, op.target, op.source) = f
    BY <2>4 DEF MovedOf
  <2> QED
    BY <2>2, <2>3, <2>5
<1> QED
  BY <1>1, <1>2, <1>3, <1>4

(* What is undone with the text of a target leaves the text of the files.  *)
LEMMA UndoRestoresText ==
    ASSUME NEW f \in Files, NEW op \in Operation, NEW c \in Content,
           op.type = "create" => f[op.target] = "absent",
           op.type \in {"modify", "delete"} => c = Normal(f[op.target]),
           op.type \in {"rename", "move"} =>
               f[op.source] # "absent" /\ (f[op.target] = "absent" \/ op.source = op.target)
    PROVE  /\ TextOf(UndoneOf(EffectOf(f, op), op, c)) = TextOf(f)
           /\ Plain(op) => UndoneOf(EffectOf(f, op), op, c) = f
<1>1. CASE Plain(op)
  <2>1. UndoneOf(EffectOf(f, op), op, c) = f
    BY <1>1, UndoRestores DEF Plain
  <2> QED
    BY <2>1
<1>2. CASE ~Plain(op)
  <2> DEFINE g == UndoneOf(EffectOf(f, op), op, c)
  <2>1. op.type \in {"modify", "delete"} /\ op.target \in Path
    BY <1>2, OperationTyped DEF Plain
  <2>2. g = [f EXCEPT ![op.target] = c]
    <3>1. CASE op.type = "modify"
      BY <3>1, <2>1 DEF EffectOf, UndoneOf, Files
    <3>2. CASE op.type = "delete"
      BY <3>2, <2>1 DEF EffectOf, UndoneOf, Files
    <3> QED
      BY <2>1, <3>1, <3>2
  <2>3. \A p \in Path : Normal(g[p]) = Normal(f[p])
    BY <2>1, <2>2 DEF Normal, Files
  <2> QED
    BY <1>2, <2>3 DEF TextOf
<1> QED
  BY <1>1, <1>2

(* Files of the same text have the same text when an operation is undone.  *)
LEMMA UndoKeepsText ==
    ASSUME NEW f \in Files, NEW g \in Files, NEW op \in Operation, NEW c \in Content,
           TextOf(f) = TextOf(g)
    PROVE  TextOf(UndoneOf(f, op, c)) = TextOf(UndoneOf(g, op, c))
<1>1. \A p \in Path : Normal(f[p]) = Normal(g[p])
  BY DEF TextOf
<1>2. \A p \in Path : f[p] = "absent" <=> g[p] = "absent"
  BY <1>1 DEF Normal
<1> SUFFICES ASSUME NEW p \in Path
             PROVE  Normal(UndoneOf(f, op, c)[p]) = Normal(UndoneOf(g, op, c)[p])
  BY DEF TextOf
<1>3. CASE op.type = "create"
  BY <1>1, <1>3, OperationTyped DEF UndoneOf, Files
<1>4. CASE op.type \in {"modify", "delete"}
  BY <1>1, <1>4, OperationTyped DEF UndoneOf, Files
<1>5. CASE op.type \in {"rename", "move"}
  BY <1>1, <1>2, <1>5, OperationTyped DEF UndoneOf, MovedOf, Files
<1> QED
  BY <1>3, <1>4, <1>5, OperationTyped

LEMMA RefactorInitInv == RefactorInit => RefactorInv
<1> SUFFICES ASSUME RefactorInit PROVE RefactorInv
  OBVIOUS
<1> USE RefactorAssumption
<1>1. ops = <<>> /\ Len(ops) = 0 /\ at = 0 /\ completed = 0 /\ ops \in Seq(Operation)
  BY DEF RefactorInit
<1>2. file \in Files /\ before = file
  BY DEF RefactorInit, Files, Content
<1>3. kept \in [1 .. MaxOps -> Content]
  BY DEF RefactorInit, Content
<1>0. undoing \in BOOLEAN /\ lossy \in BOOLEAN /\ result = "failed" /\ state = "pending"
  BY DEF RefactorInit
<1>4. RefactorTypeOK
  BY <1>0, <1>1, <1>2, <1>3 DEF RefactorTypeOK, Files
<1>5. LeadsBack([i \in 0 .. MaxOps |-> file])
  BY <1>1, <1>2 DEF LeadsBack
<1>6. [i \in 0 .. MaxOps |-> file] \in [0 .. MaxOps -> Files]
  BY <1>2
<1> QED
  BY <1>1, <1>2, <1>4, <1>5, <1>6 DEF RefactorInv, RefactorInit

(* The operators of the specification are those above, of its files.       *)
LEMMA Undoing ==
    ASSUME NEW i \in 1 .. MaxOps
    PROVE  Undone(i) = UndoneOf(file, ops[i], kept[i])
  BY DEF Undone, UndoneOf, Moved, MovedOf, Exists

LEMMA HalvesTyped ==
    ASSUME file \in [Path -> Content], NEW op \in Operation
    PROVE  HalfDone(op) \cup HalfUndone(op) \subseteq [Path -> Content]
<1>1. \A p \in Path : HalfWritten(p) \in [Path -> Content]
  BY DEF HalfWritten, Content
<1>2. \A p, q \in Path : HalfMoved(p, q) \subseteq [Path -> Content]
  BY <1>1 DEF HalfMoved
<1>3. HalfDone(op) \subseteq [Path -> Content]
  BY <1>1, <1>2, OperationTyped, Zenon DEF HalfDone
<1>4. HalfUndone(op) \subseteq [Path -> Content]
  BY <1>1, <1>2, OperationTyped, Zenon DEF HalfUndone
<1> QED
  BY <1>3, <1>4

LEMMA RefactorStepInv == RefactorInv /\ [RefactorNext]_refactorVars => RefactorInv'
<1> SUFFICES ASSUME RefactorInv, [RefactorNext]_refactorVars PROVE RefactorInv'
  OBVIOUS
<1> USE RefactorAssumption
<1>t. /\ RefactorTypeOK /\ Len(ops) <= MaxOps /\ at <= completed
      /\ Len(ops) \in Nat /\ at \in Nat /\ completed \in Nat
      /\ undoing \in BOOLEAN /\ lossy \in BOOLEAN
  BY DEF RefactorInv, RefactorTypeOK
<1>h. ~lossy => \E h \in [0 .. MaxOps -> Files] : LeadsBack(h)
  BY DEF RefactorInv
<1>1. ASSUME NEW op \in Operation, AddOperation(op) PROVE RefactorInv'
  <2>1. /\ state = "pending" /\ ~undoing /\ Len(ops) < MaxOps /\ completed = 0 /\ at = 0
        /\ UNCHANGED <<file, state, at, completed, kept, undoing, result, before, lossy>>
    BY <1>1, <1>t DEF AddOperation, RefactorInv
  <2>2. ops' \in Seq(Operation) /\ Len(ops') = Len(ops) + 1
    BY <1>1, <1>t DEF AddOperation, RefactorTypeOK
  <2>3. RefactorTypeOK'
    BY <2>1, <2>2, <1>t DEF RefactorTypeOK
  <2>4. \A h : LeadsBack(h) => LeadsBack(h)'
    <3>1. file = before => TextOf(file) = TextOf(before)
      OBVIOUS
    <3>2. AllPlain /\ AllPlain'
      BY <1>t, <2>1 DEF AllPlain
    <3> QED
      BY <1>t, <2>1, <3>1, <3>2 DEF LeadsBack
  <2> QED
    BY <1>h, <1>t, <2>1, <2>2, <2>3, <2>4 DEF RefactorInv
<1>2. CASE BeginCommit
  <2>1. /\ completed = 0 /\ at = 0 /\ before' = file /\ before = file /\ state' = "in_progress"
        /\ UNCHANGED <<file, ops, at, completed, kept, undoing, result, lossy>>
    BY <1>2, <1>t DEF BeginCommit, RefactorInv
  <2>2. RefactorTypeOK'
    BY <2>1, <1>t DEF RefactorTypeOK
  <2>3. \A h : LeadsBack(h) => LeadsBack(h)'
    BY <2>1 DEF LeadsBack, AllPlain
  <2> QED
    BY <1>h, <1>t, <2>1, <2>2, <2>3 DEF RefactorInv
<1>3. ASSUME Executing
      PROVE  /\ state = "in_progress" /\ ~undoing /\ at = completed /\ at < Len(ops)
             /\ at + 1 \in 1 .. Len(ops) /\ at + 1 \in 1 .. MaxOps
             /\ Current \in Operation /\ Current = ops[at + 1]
  BY <1>3, <1>t DEF Executing, RefactorInv, RefactorTypeOK, Current
<1>4. CASE ExecuteOperation
  <2> DEFINE op == Current
  <2>1. /\ state = "in_progress" /\ ~undoing /\ at = completed
        /\ at + 1 \in 1 .. Len(ops) /\ at + 1 \in 1 .. MaxOps
        /\ op \in Operation /\ op = ops[at + 1] /\ Feasible(op)
        /\ at' = at + 1 /\ completed' = at + 1
        /\ UNCHANGED <<ops, state, undoing, result, before>>
    BY <1>3, <1>4 DEF ExecuteOperation
  <2>2. file \in Files /\ file[op.target] \in Content /\ op.target \in Path
    BY <2>1, <1>t, OperationTyped DEF RefactorTypeOK, Files
  <2>3. file' = EffectOf(file, op)
    BY <1>4 DEF ExecuteOperation, Effect, EffectOf, Moved, MovedOf
  <2>4. file' \in Files
    BY <2>1, <2>2, <2>3, EffectTyped
  <2>5. /\ kept' \in [1 .. MaxOps -> Content]
        /\ \A i \in 1 .. MaxOps \ {at + 1} : kept'[i] = kept[i]
        /\ op.type \in {"modify", "delete"} => kept'[at + 1] = Normal(file[op.target])
    <3>1. Normal(file[op.target]) \in Content
      BY <2>2 DEF Normal, Content
    <3> QED
      BY <1>4, <1>t, <2>1, <3>1 DEF ExecuteOperation, RefactorTypeOK
  <2>6. lossy' \in BOOLEAN
    BY <1>4, <1>t DEF ExecuteOperation
  <2>7. ~lossy' => ~lossy /\ (op.type = "move" =>
                                 op.source = op.target \/ file[op.target] = "absent")
    BY <1>4, <1>t DEF ExecuteOperation, Exists
  <2> HIDE DEF op
  <2>8. RefactorTypeOK'
    BY <2>1, <2>4, <2>5, <2>6, <1>t DEF RefactorTypeOK, Files
  <2>9. ASSUME ~lossy' PROVE \E h \in [0 .. MaxOps -> Files] : LeadsBack(h)'
    <3>1. PICK h \in [0 .. MaxOps -> Files] : LeadsBack(h)
      BY <1>h, <2>7, <2>9
    <3> DEFINE g == [h EXCEPT ![at + 1] = file']
    <3>2. /\ g \in [0 .. MaxOps -> Files] /\ g[at + 1] = file'
          /\ \A i \in 0 .. MaxOps : i # at + 1 => g[i] = h[i]
      BY <2>1, <2>4, <1>t
    <3> HIDE DEF g
    <3>3. /\ op.type = "create" => file[op.target] = "absent"
          /\ op.type \in {"rename", "move"} =>
               file[op.source] # "absent" /\ (file[op.target] = "absent" \/ op.source = op.target)
      BY <2>1, <2>7, <2>9, OperationTyped DEF Feasible, Exists
    <3>4. /\ TextOf(UndoneOf(file', op, kept'[at + 1])) = TextOf(file)
          /\ Plain(op) => UndoneOf(file', op, kept'[at + 1]) = file
      BY <2>1, <2>2, <2>3, <2>5, <3>3, UndoRestoresText
    <3>5. AllPlain' => AllPlain /\ Plain(op)
      BY <1>t, <2>1 DEF AllPlain
    <3>6. ASSUME NEW i \in 1 .. at + 1
          PROVE  /\ TextOf(UndoneOf(g[i], ops[i], kept'[i])) = TextOf(g[i - 1])
                 /\ AllPlain' => UndoneOf(g[i], ops[i], kept'[i]) = g[i - 1]
      <4>1. CASE i = at + 1
        <5>1. g[i - 1] = h[at] /\ g[i] = file' /\ ops[i] = op /\ kept'[i] = kept'[at + 1]
          BY <1>t, <2>1, <3>2, <4>1
        <5>2. TextOf(file) = TextOf(h[at]) /\ (AllPlain => file = h[at])
          BY <3>1 DEF LeadsBack
        <5> QED
          BY <3>4, <3>5, <5>1, <5>2
      <4>2. CASE i # at + 1
        <5>1. i \in 1 .. completed /\ i \in 1 .. MaxOps /\ i \in 0 .. MaxOps
              /\ i - 1 \in 0 .. MaxOps /\ i - 1 # at + 1
          BY <1>t, <2>1, <4>2
        <5>2. g[i] = h[i] /\ g[i - 1] = h[i - 1] /\ kept'[i] = kept[i]
          BY <2>5, <3>2, <4>2, <5>1
        <5> QED
          BY <3>1, <3>5, <5>1, <5>2 DEF LeadsBack
      <4> QED
        BY <4>1, <4>2
    <3>7. g[0] = before
      BY <1>t, <3>1, <3>2 DEF LeadsBack
    <3> QED
      BY <2>1, <3>2, <3>6, <3>7 DEF LeadsBack
  <2> QED
    BY <1>t, <2>1, <2>6, <2>8, <2>9 DEF RefactorInv
<1>5. CASE FailOperation
  <2>1. /\ state = "in_progress" /\ undoing'
        /\ UNCHANGED <<file, ops, state, at, completed, kept, before, lossy>>
    BY <1>3, <1>5 DEF FailOperation
  <2>2. RefactorTypeOK'
    BY <1>5, <2>1, <1>t DEF FailOperation, RefactorTypeOK
  <2>3. \A h : LeadsBack(h) => LeadsBack(h)'
    BY <2>1 DEF LeadsBack, AllPlain
  <2> QED
    BY <1>h, <1>t, <2>1, <2>2, <2>3 DEF RefactorInv
<1>6. CASE TearOperation
  <2>1. /\ state = "in_progress" /\ undoing' /\ lossy'
        /\ UNCHANGED <<ops, state, at, completed, kept, before>>
    BY <1>3, <1>6 DEF TearOperation
  <2>2. file' \in [Path -> Content]
    BY <1>3, <1>6, <1>t, HalvesTyped DEF TearOperation, RefactorTypeOK
  <2>3. RefactorTypeOK'
    BY <1>6, <2>1, <2>2, <1>t DEF TearOperation, RefactorTypeOK
  <2> QED
    BY <1>t, <2>1, <2>3 DEF RefactorInv
<1>7. CASE Commit
  <2>1. /\ state = "in_progress" /\ ~undoing /\ state' = "committed"
        /\ UNCHANGED <<file, ops, at, completed, kept, undoing, result, before, lossy>>
    BY <1>7 DEF Commit, AllExecuted
  <2>2. RefactorTypeOK'
    BY <2>1, <1>t DEF RefactorTypeOK
  <2>3. \A h : LeadsBack(h) => LeadsBack(h)'
    BY <2>1 DEF LeadsBack, AllPlain
  <2> QED
    BY <1>h, <1>t, <2>1, <2>2, <2>3 DEF RefactorInv
<1>8. CASE FailCleanup
  <2>1. /\ state' = "committed" /\ undoing'
        /\ UNCHANGED <<file, ops, at, completed, kept, before, lossy>>
    BY <1>8 DEF FailCleanup
  <2>2. RefactorTypeOK'
    BY <1>8, <2>1, <1>t DEF FailCleanup, RefactorTypeOK
  <2>3. \A h : LeadsBack(h) => LeadsBack(h)'
    BY <2>1 DEF LeadsBack, AllPlain
  <2> QED
    BY <1>h, <1>t, <2>1, <2>2, <2>3 DEF RefactorInv
<1>9. CASE Rollback
  <2>1. /\ ~undoing /\ state \in {"pending", "committed", "failed"} /\ undoing'
        /\ at' = completed
        /\ UNCHANGED <<file, ops, state, completed, kept, before>>
    BY <1>9 DEF Rollback
  <2>2. RefactorTypeOK'
    BY <1>9, <2>1, <1>t DEF Rollback, RefactorTypeOK
  <2>0. ~lossy' => ~lossy /\ ~(state = "failed" /\ completed > 0)
    BY <1>9, Zenon DEF Rollback
  <2>3. ~lossy' => ~lossy /\ at' = at
    BY <1>t, <2>0, <2>1 DEF RefactorInv
  <2>4. ASSUME ~lossy' PROVE \A h : LeadsBack(h) => LeadsBack(h)'
    BY <2>1, <2>3, <2>4 DEF LeadsBack, AllPlain
  <2>5. lossy' \in BOOLEAN
    BY <2>2 DEF RefactorTypeOK
  <2> QED
    BY <1>h, <1>t, <2>1, <2>2, <2>3, <2>4, <2>5 DEF RefactorInv
<1>10. ASSUME undoing, at > 0
       PROVE  at - 1 \in 0 .. Len(ops) /\ at \in 1 .. MaxOps /\ at \in 1 .. completed
              /\ ops[at] \in Operation /\ kept[at] \in Content
  BY <1>10, <1>t DEF RefactorTypeOK
<1>11. CASE Undo
  <2>1. /\ undoing /\ at > 0 /\ at' = at - 1
        /\ UNCHANGED <<ops, state, completed, kept, undoing, result, before, lossy>>
    BY <1>11 DEF Undo
  <2>2. file \in Files
    BY <1>t DEF RefactorTypeOK, Files
  <2>3. file' = UndoneOf(file, ops[at], kept[at])
    BY <1>10, <1>11, <2>1, Undoing DEF Undo
  <2>4. file' \in Files
    BY <1>10, <2>1, <2>2, <2>3, UndoneTyped
  <2>5. RefactorTypeOK'
    BY <1>10, <1>t, <2>1, <2>4 DEF RefactorTypeOK, Files
  <2>6. \A h \in [0 .. MaxOps -> Files] : LeadsBack(h) => LeadsBack(h)'
    <3> SUFFICES ASSUME NEW h \in [0 .. MaxOps -> Files], LeadsBack(h) PROVE LeadsBack(h)'
      OBVIOUS
    <3>1. h[at] \in Files /\ at \in 1 .. completed
      BY <1>10, <1>t, <2>1
    <3>2. TextOf(file') = TextOf(UndoneOf(h[at], ops[at], kept[at]))
      BY <1>10, <2>1, <2>2, <2>3, <3>1, UndoKeepsText DEF LeadsBack
    <3>3. TextOf(file') = TextOf(h[at - 1])
      BY <3>1, <3>2 DEF LeadsBack
    <3>4. AllPlain => file' = h[at - 1]
      BY <2>3, <3>1 DEF LeadsBack
    <3>5. AllPlain' = AllPlain
      BY <2>1 DEF AllPlain
    <3> QED
      BY <2>1, <3>3, <3>4, <3>5 DEF LeadsBack
  <2>7. state # "pending"
    BY <1>t, <2>1 DEF RefactorInv
  <2> QED
    BY <1>h, <1>t, <1>10, <2>1, <2>5, <2>6, <2>7 DEF RefactorInv
<1>12. CASE FailUndo
  <2>1. /\ undoing /\ at > 0 /\ at' = at - 1 /\ lossy'
        /\ UNCHANGED <<ops, state, completed, kept, undoing, result, before>>
    BY <1>12 DEF FailUndo
  <2>3. file' \in [Path -> Content]
    BY <1>10, <1>12, <1>t, <2>1, HalvesTyped DEF FailUndo, RefactorTypeOK
  <2>2. RefactorTypeOK'
    BY <1>10, <1>12, <1>t, <2>1, <2>3 DEF FailUndo, RefactorTypeOK
  <2> QED
    BY <1>t, <1>10, <2>1, <2>2 DEF RefactorInv
<1>13. CASE EndUndo
  <2>1. /\ at = 0 /\ ~undoing' /\ state' \in {"failed", "rolled_back"}
        /\ UNCHANGED <<file, ops, at, completed, kept, result, before, lossy>>
    BY <1>13, <1>t DEF EndUndo, RefactorTypeOK
  <2>2. RefactorTypeOK'
    BY <1>13, <1>t, <2>1 DEF EndUndo, RefactorTypeOK
  <2>3. \A h : LeadsBack(h) => LeadsBack(h)'
    BY <2>1 DEF LeadsBack, AllPlain
  <2> QED
    BY <1>h, <1>t, <2>1, <2>2, <2>3 DEF RefactorInv
<1>14. CASE UNCHANGED refactorVars
  BY <1>14 DEF refactorVars, RefactorInv, RefactorTypeOK, LeadsBack, AllPlain
<1> QED
  BY <1>1, <1>2, <1>4, <1>5, <1>6, <1>7, <1>8, <1>9, <1>11, <1>12, <1>13, <1>14
     DEF RefactorNext

LEMMA RefactorInvariance == RefactorSpec => []RefactorInv
  BY RefactorInitInv, RefactorStepInv, PTL DEF RefactorSpec

(* The files, the operations and the transaction keep their types.         *)
THEOREM RefactorTyping == RefactorSpec => []RefactorTypeOK
  BY RefactorInvariance, PTL DEF RefactorInv

(* For any files and any sequence of operations, on the same files or not: *)
(* a transaction that failed or was rolled back leaves every file with the *)
(* text it had when commit began, and as it was if no file was modified or *)
(* deleted, unless something that cannot be undone happened.               *)
THEOREM TransactionsAreAtomic == RefactorSpec => []AllOrNothing
<1>1. ASSUME RefactorInv PROVE AllOrNothing
  <2> SUFFICES ASSUME state \in {"failed", "rolled_back"}, ~undoing, ~lossy
               PROVE  /\ TextOf(file) = TextOf(before)
                      /\ AllPlain => file = before
    BY DEF AllOrNothing, TextOf, AllPlain, Plain
  <2>1. PICK h : LeadsBack(h) /\ at = 0
    BY <1>1 DEF RefactorInv
  <2> QED
    BY <2>1 DEF LeadsBack
<1> QED
  BY <1>1, RefactorInvariance, PTL

-----------------------------------------------------------------------------
(* The ten components of MCServices beside each other, as they are         *)
(* checked: a step of one leaves the state of the others alone, and all    *)
(* keep their types.                                                       *)
THEOREM ServicesTyping == MCSpec => []TypeOK
<1> DEFINE Guards == LimiterInv /\ CostInv /\ MemoryCacheInv /\ RedisInv /\ ServerInv
           Keepers == LogInv /\ ScopeInv /\ HashInv /\ MigratorInv /\ RefactorInv
<1> DEFINE allVars == <<part, limiterVars, costVars, memoryVars, redisVars,
                        serverVars, refactorVars, overrideVars, scopeVars,
                        migratorVars, validatorVars>>
<1>1. MCInit => Guards
  BY LimiterInitInv, CostInitInv, MemoryCacheInitInv, RedisInitInv, ServerInitInv DEF MCInit
<1>2. MCInit => Keepers
  BY LogInitInv, ScopeInitInv, HashInitInv, MigratorInitInv, RefactorInitInv DEF MCInit
<1>3. [MCNext]_allVars =>
         /\ [LimiterNext]_limiterVars /\ [CostNext]_costVars
         /\ [MemoryCacheNext]_memoryVars /\ [RedisNext]_redisVars /\ [ServerNext]_serverVars
  BY DEF MCNext, MCLimiter, MCCost, MCMemory, MCRedis, MCServer, MCRefactor, MCOverrides,
         MCScopes, MCMigrator, MCValidators
<1>4. [MCNext]_allVars =>
         /\ [OverrideNext]_overrideVars /\ [ScopeNext]_scopeVars
         /\ [ValidatorNext]_validatorVars /\ [MigratorNext]_migratorVars
         /\ [RefactorNext]_refactorVars
  BY DEF MCNext, MCLimiter, MCCost, MCMemory, MCRedis, MCServer, MCRefactor, MCOverrides,
         MCScopes, MCMigrator, MCValidators
<1>5. Guards /\ [MCNext]_allVars => Guards'
  BY <1>3, LimiterStepInv, CostStepInv, MemoryCacheStep, RedisStepInv, ServerStepInv
<1>6. ScopeInv /\ [ScopeNext]_scopeVars => ScopeInv'
  BY ScopeStepTyped, LimitsStep, UnsharedStep DEF ScopeInv
<1>7. Keepers /\ [MCNext]_allVars => Keepers'
  BY <1>4, <1>6, LogStepInv, HashStepInv, MigratorStepInv, RefactorStepInv
<1>8. Guards => LimiterTypeOK /\ CostTypeOK /\ MemoryCacheTypeOK /\ RedisTypeOK /\ ServerTypeOK
  BY LimiterTyped DEF CostInv, MemoryCacheInv, RedisInv, ServerInv
<1>9. Keepers => OverrideTypeOK /\ ScopeTypeOK /\ ValidatorTypeOK /\ MigratorTypeOK /\ RefactorTypeOK
  BY DEF LogInv, ScopeInv, HashInv, MigratorInv, RefactorInv
<1>10. Guards /\ Keepers => TypeOK
  BY <1>8, <1>9 DEF TypeOK
<1> QED
  BY <1>1, <1>2, <1>5, <1>7, <1>10, PTL DEF MCSpec
=============================================================================
