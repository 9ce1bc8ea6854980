--------------------------- MODULE ArtifactStore ---------------------------
(***************************************************************************)
(* The artifact store of rice_factor: ArtifactService over                 *)
(* FilesystemStorageAdapter (one JSON file per artifact) and               *)
(* ApprovalsTracker (one JSON file with every approval record).            *)
(*                                                                         *)
(* Processes share nothing but the files.  A CLI command is a process that *)
(* reads the approvals file when it starts and ends with its command.  A   *)
(* web worker is resident: it reads the approvals file once, when its      *)
(* tracker is first used, and from then on believes its own copy.  No lock *)
(* is taken anywhere, so every system call on a file is a step of its own: *)
(*                                                                         *)
(*   - the load and the status check of an operation (Begin),              *)
(*   - open(.., "w"), which truncates (OpenArtifact, OpenRecords),         *)
(*   - the write of the new text (WriteArtifact, WriteRecords).            *)
(*                                                                         *)
(* Inside one web worker the handlers have no await between these calls,   *)
(* so a process runs one operation at a time.                              *)
(*                                                                         *)
(* The migration commands (`artifact migrate`, `migrate run`, `migrate     *)
(* rollback`) write artifacts' files without the service: whatever their   *)
(* status, and with nothing said to the approvals tracker.                 *)
(***************************************************************************)
EXTENDS Naturals, FiniteSets

CONSTANTS
    Artifact,    \* artifact ids
    TestPlan,    \* the artifacts of type TestPlan
    Outdated,    \* the artifacts of an older schema: what the migrations migrate
    Proc,        \* processes that open the store
    Resident,    \* those that live on between operations: the web workers
    Approver,    \* those the approvals are given (and revoked) with
    Editor,      \* those that call modify(): the service offers it, and
                 \* nothing in the repository calls it yet
    Migrator,    \* those that run the migration commands: CLI processes
    Serialised,  \* TRUE: a command starts only when no other is under way
    MaxRev,      \* bound on the payload revisions modify() makes
    MaxBackups   \* bound on the different copies kept of an artifact

ASSUME StoreAssumption ==
    /\ Artifact # {}
    /\ TestPlan \subseteq Artifact
    /\ Outdated \subseteq Artifact
    /\ Resident \subseteq Proc
    /\ Approver \subseteq Proc
    /\ Editor \subseteq Proc
    /\ Migrator \subseteq Proc \ Resident
    /\ Serialised \in BOOLEAN
    /\ MaxRev \in Nat
    /\ MaxBackups \in Nat

VARIABLES
    file,      \* file[a]: the artifact's file, a Content
    records,   \* the approvals file, a Records
    pc,        \* pc[p]: where process p stands
    kind,      \* kind[p]: its operation
    target,    \* target[p]: the artifact it works on
    seen,      \* seen[p]: the content its load returned
    copy,      \* copy[p]: the content it is going to save
    mem,       \* mem[p]: ApprovalsTracker._approvals of process p
    backups,   \* backups[a]: what the migrations' backup directories hold of a
    signed,    \* history: signed[a], payload revisions an approve() was given for
    erased,    \* history: records a web worker saved over without knowing them
    restored,  \* history: artifacts a rollback put back and nobody approved since
    cut        \* history: some operation was cut short

files   == <<file, records>>
request == <<kind, target, seen, copy>>
history == <<signed, erased, restored, cut>>
vars    == <<file, records, pc, request, mem, backups, history>>

Rev      == 0 .. MaxRev
Valid    == {"draft", "approved", "locked"}
Torn     == {"empty", "garbage"}
Content  == [status : Valid \cup Torn \cup {"absent"}, rev : Rev]
Records  == [state : {"whole"} \cup Torn, ids : SUBSET Artifact]
Kinds    == {"create", "modify", "review", "approve", "lock", "revoke",
             "migrate", "rollback"}
Steps    == {"off", "idle", "loaded", "saving", "saved", "recording", "recorded"}

NoFile     == [status |-> "absent", rev |-> 0]
EmptyFile  == [status |-> "empty", rev |-> 0]
BadFile    == [status |-> "garbage", rev |-> 0]
NoRecords  == [state |-> "whole", ids |-> {}]
EmptyRecords == [state |-> "empty", ids |-> {}]
BadRecords   == [state |-> "garbage", ids |-> {}]

TypeOK ==
    /\ file \in [Artifact -> Content]
    /\ records \in Records
    /\ pc \in [Proc -> Steps]
    /\ kind \in [Proc -> Kinds]
    /\ target \in [Proc -> Artifact]
    /\ seen \in [Proc -> Content]
    /\ copy \in [Proc -> Content]
    /\ mem \in [Proc -> SUBSET Artifact]
    /\ backups \in [Artifact -> SUBSET Content]
    /\ signed \in [Artifact -> SUBSET Rev]
    /\ erased \in SUBSET Artifact
    /\ restored \in SUBSET Artifact
    /\ cut \in BOOLEAN

-----------------------------------------------------------------------------
(* Helpers *)

(* ApprovalsTracker._load: a file that is not valid JSON counts as no      *)
(* approvals at all.                                                       *)
ReloadNothing == {}   \* a tracker that forgets to load

Reload == IF records.state = "whole" THEN records.ids ELSE {}

(* What a web worker's tracker has not read: records of other processes.   *)
Missed(p) == IF p \in Resident THEN Reload \ mem[p] ELSE {}

(* Process p has no operation under way: a CLI process is gone, a web      *)
(* worker waits for a request.                                             *)
Quiet(p) == pc[p] = "off" \/ (pc[p] = "idle" /\ p \in Resident)

Alone(p) == Serialised => \A q \in Proc \ {p} : Quiet(q)

(* The operations process p can be asked for, all of which load an         *)
(* artifact: only the CLI plans and reviews, only the web API revokes.     *)
Offers(p) ==
    {"lock"}
    \cup (IF p \in Editor THEN {"modify"} ELSE {})
    \cup (IF p \in Resident THEN {} ELSE {"create", "review"})
    \cup (IF p \in Approver THEN {"approve"} ELSE {})
    \cup (IF p \in Approver \cap Resident THEN {"revoke"} ELSE {})
    \cup (IF p \in Migrator THEN {"migrate"} ELSE {})

(* The state after an operation: a CLI process exits, a worker stays.      *)
Done(p) == IF p \in Resident THEN "idle" ELSE "off"

(* What an exiting process keeps in memory.                                *)
Kept(p) == IF p \in Resident THEN mem[p] ELSE {}

AnyArtifact == CHOOSE a \in Artifact : TRUE

(* The operation is over, its locals are gone.                             *)
Return(p) ==
    /\ kind' = [kind EXCEPT ![p] = "create"]
    /\ seen' = [seen EXCEPT ![p] = NoFile]
    /\ copy' = [copy EXCEPT ![p] = NoFile]
    /\ target' = [target EXCEPT ![p] = AnyArtifact]

Finish(p) ==
    /\ pc' = [pc EXCEPT ![p] = Done(p)]
    /\ mem' = [mem EXCEPT ![p] = Kept(p)]
    /\ Return(p)

(* Text written into a file that someone else has written since it was     *)
(* truncated: the shorter text leaves the tail of the longer one behind.   *)
Overwritten(now, new, empty, bad) ==
    IF now \in {empty, new} THEN {new} ELSE {new, bad}

-----------------------------------------------------------------------------
(* The checks and the transition of each operation, on the content c that  *)
(* its load returned.  A load of an absent or torn file raises.            *)

(* Plausible slips in these checks, for the checks of the properties.      *)
PermitsReviewOfLocked(k, a, c) ==
    \/ k = "review"  /\ c.status \in Valid
    \/ k = "create"  /\ c.status = "absent"
    \/ k = "approve" /\ c.status = "draft"
    \/ k = "lock"    /\ c.status = "approved" /\ a \in TestPlan
PermitsLockOfDraft(k, a, c) ==
    \/ k = "create"  /\ c.status = "absent"
    \/ k = "approve" /\ c.status = "draft"
    \/ k = "lock"    /\ c.status \in {"draft", "approved"} /\ a \in TestPlan

Permits(k, a, c) ==
    \/ k = "create"  /\ c.status = "absent"
    \/ k = "modify"  /\ c.status = "draft" /\ c.rev < MaxRev
    \/ k = "review"  /\ c.status \in {"draft", "approved"}
    \/ k = "approve" /\ c.status = "draft"
    \/ k = "lock"    /\ c.status = "approved" /\ a \in TestPlan
    \/ k = "revoke"  /\ c.status \in {"draft", "approved"}
    \/ k = "migrate" /\ c.status \in Valid /\ a \in Outdated

(* A review that bumps the payload revision, of any payload.               *)
ResultReviewBumps(k, c) ==
    [status |-> IF k = "approve" THEN "approved" ELSE "draft", rev |-> c.rev + 1]

(* A migration adds timestamps or converts the payload to another schema:  *)
(* neither the status nor what was signed off changes.                     *)
Result(k, c) ==
    CASE k = "create"  -> [status |-> "draft", rev |-> 0]
      [] k = "modify"  -> [status |-> "draft", rev |-> c.rev + 1]
      [] k \in {"review", "migrate"} -> c
      [] k = "approve" -> [status |-> "approved", rev |-> c.rev]
      [] k = "lock"    -> [status |-> "locked", rev |-> c.rev]
      [] k = "revoke"  -> [status |-> "draft", rev |-> c.rev]

-----------------------------------------------------------------------------
Init ==
    /\ file = [a \in Artifact |-> NoFile]
    /\ records = NoRecords
    /\ pc = [p \in Proc |-> "off"]
    /\ kind = [p \in Proc |-> "create"]
    /\ target = [p \in Proc |-> AnyArtifact]
    /\ seen = [p \in Proc |-> NoFile]
    /\ copy = [p \in Proc |-> NoFile]
    /\ mem = [p \in Proc |-> {}]
    /\ backups = [a \in Artifact |-> {}]
    /\ signed = [a \in Artifact |-> {}]
    /\ erased = {}
    /\ restored = {}
    /\ cut = FALSE

(* A CLI command starts, or a web worker builds its tracker:               *)
(* ApprovalsTracker.__init__ reads the approvals file, once.               *)
Start(p) ==
    /\ pc[p] = "off"
    /\ Alone(p)
    /\ pc' = [pc EXCEPT ![p] = "idle"]
    /\ mem' = [mem EXCEPT ![p] = Reload]
    /\ UNCHANGED <<files, request, backups, history>>

(* A CLI command that is refused, declined at its prompt or unable to load *)
(* the artifact exits and leaves nothing changed.                          *)
Exit(p) ==
    /\ pc[p] = "idle"
    /\ p \notin Resident
    /\ pc' = [pc EXCEPT ![p] = "off"]
    /\ mem' = [mem EXCEPT ![p] = {}]
    /\ UNCHANGED <<files, request, backups, history>>

(* The load and the checks of operation k on artifact a.  revoke() also    *)
(* looks a up in this process's tracker, and does nothing if it is not     *)
(* there.                                                                  *)
Begin(p, k, a) ==
    /\ pc[p] = "idle"
    /\ Alone(p)
    /\ Permits(k, a, file[a])
    /\ k = "revoke" => a \in mem[p]
    /\ pc' = [pc EXCEPT ![p] = "loaded"]
    /\ kind' = [kind EXCEPT ![p] = k]
    /\ target' = [target EXCEPT ![p] = a]
    /\ seen' = [seen EXCEPT ![p] = file[a]]
    /\ copy' = [copy EXCEPT ![p] = Result(k, file[a])]
    /\ signed' = IF k = "approve"
                 THEN [signed EXCEPT ![a] = @ \cup {file[a].rev}] ELSE signed
    /\ UNCHANGED <<files, mem, backups, erased, restored, cut>>

(* `migrate rollback` puts copy c of artifact a back, whatever is there.   *)
BeginRollback(p, a, c) ==
    /\ pc[p] = "idle"
    /\ p \in Migrator
    /\ Alone(p)
    /\ c \in backups[a]
    /\ pc' = [pc EXCEPT ![p] = "loaded"]
    /\ kind' = [kind EXCEPT ![p] = "rollback"]
    /\ target' = [target EXCEPT ![p] = a]
    /\ seen' = [seen EXCEPT ![p] = file[a]]
    /\ copy' = [copy EXCEPT ![p] = c]
    /\ UNCHANGED <<files, mem, backups, history>>

(* `migrate run` copies an artifact to a new backup directory before it    *)
(* tries to migrate it, successfully or not.  Cut short, it leaves an      *)
(* empty copy there.                                                       *)
BackUp(p, a) ==
    /\ pc[p] = "idle"
    /\ p \in Migrator
    /\ Alone(p)
    /\ a \in Outdated /\ file[a].status \in Valid
    /\ Cardinality(backups[a]) < MaxBackups
    /\ \/ /\ backups' = [backups EXCEPT ![a] = @ \cup {file[a]}]
          /\ UNCHANGED <<pc, cut>>
       \/ /\ backups' = [backups EXCEPT ![a] = @ \cup {EmptyFile}]
          /\ pc' = [pc EXCEPT ![p] = "off"]
          /\ cut' = TRUE
    /\ mem' = [mem EXCEPT ![p] = IF pc'[p] = "off" THEN {} ELSE @]
    /\ UNCHANGED <<files, request, signed, erased, restored>>

(* storage.save opens the artifact's file for writing.  revoke() gets here *)
(* only after its record is gone, the others straight from their load.     *)
OpenArtifact(p) ==
    /\ pc[p] = IF kind[p] = "revoke" THEN "recorded" ELSE "loaded"
    /\ file' = [file EXCEPT ![target[p]] = EmptyFile]
    /\ pc' = [pc EXCEPT ![p] = "saving"]
    /\ UNCHANGED <<records, request, mem, backups, history>>

(* ... and writes the new text.  Only approve() has more to do after it.   *)
WriteArtifact(p) ==
    /\ pc[p] = "saving"
    /\ \E c \in Overwritten(file[target[p]], copy[p], EmptyFile, BadFile) :
          file' = [file EXCEPT ![target[p]] = c]
    /\ IF kind[p] = "approve"
       THEN pc' = [pc EXCEPT ![p] = "saved"] /\ UNCHANGED <<request, mem>>
       ELSE Finish(p)
    /\ restored' = CASE kind[p] = "rollback" -> restored \cup {target[p]}
                     [] kind[p] = "approve"  -> restored \ {target[p]}
                     [] OTHER                -> restored
    /\ UNCHANGED <<records, backups, signed, erased, cut>>

(* A revoke() that leaves its record in the dict.                          *)
OpenRecordsKeepsRevoked(p) ==
    /\ \/ kind[p] = "approve" /\ pc[p] = "saved"
       \/ kind[p] = "revoke" /\ pc[p] = "loaded"
    /\ mem' = [mem EXCEPT ![p] = @ \cup {target[p]}]
    /\ records' = EmptyRecords
    /\ erased' = (erased \cup Missed(p)) \ mem'[p]
    /\ pc' = [pc EXCEPT ![p] = "recording"]
    /\ UNCHANGED <<file, request, backups, signed, restored, cut>>

(* ApprovalsTracker.approve and .revoke: change the dict in memory, then   *)
(* _save opens the approvals file.                                         *)
OpenRecords(p) ==
    /\ \/ /\ kind[p] = "approve" /\ pc[p] = "saved"
          /\ mem' = [mem EXCEPT ![p] = @ \cup {target[p]}]
       \/ /\ kind[p] = "revoke" /\ pc[p] = "loaded"
          /\ mem' = [mem EXCEPT ![p] = @ \ {target[p]}]
    /\ records' = EmptyRecords
    /\ erased' = (erased \cup Missed(p)) \ mem'[p]
    /\ pc' = [pc EXCEPT ![p] = "recording"]
    /\ UNCHANGED <<file, request, backups, signed, restored, cut>>

(* _save writes every record this process knows, whatever the file held.   *)
WriteRecords(p) ==
    /\ pc[p] = "recording"
    /\ records' \in Overwritten(records, [state |-> "whole", ids |-> mem[p]],
                                EmptyRecords, BadRecords)
    /\ IF kind[p] = "revoke"
       THEN pc' = [pc EXCEPT ![p] = "recorded"] /\ UNCHANGED <<request, mem>>
       ELSE Finish(p)
    /\ UNCHANGED <<file, backups, history>>

(* The process is killed, or the machine stops, at any point.              *)
Crash(p) ==
    /\ pc[p] # "off"
    /\ pc' = [pc EXCEPT ![p] = "off"]
    /\ mem' = [mem EXCEPT ![p] = {}]
    /\ Return(p)
    /\ cut' = (cut \/ pc[p] # "idle")
    /\ UNCHANGED <<files, backups, signed, erased, restored>>

(* A write fails: a web worker answers with an error and lives on, and its *)
(* tracker still believes what it was about to save.                       *)
Fail(p) ==
    /\ pc[p] \in {"saving", "recording"}
    /\ p \in Resident
    /\ pc' = [pc EXCEPT ![p] = "idle"]
    /\ Return(p)
    /\ cut' = TRUE
    /\ UNCHANGED <<files, mem, backups, signed, erased, restored>>

Step(p) ==
    \/ Start(p)
    \/ Exit(p)
    \/ \E k \in Offers(p), a \in Artifact : Begin(p, k, a)
    \/ \E a \in Artifact : BackUp(p, a) \/ \E c \in backups[a] : BeginRollback(p, a, c)
    \/ OpenArtifact(p)
    \/ WriteArtifact(p)
    \/ OpenRecords(p)
    \/ WriteRecords(p)
    \/ Crash(p)
    \/ Fail(p)

Next == \E p \in Proc : Step(p)

Spec == Init /\ [][Next]_vars
-----------------------------------------------------------------------------
(* Properties *)

(* Process p is about to write artifact a outside the service.             *)
Rewrites(p, a) ==
    pc[p] = "loaded" /\ kind[p] \in {"migrate", "rollback"} /\ target[p] = a

(* "TestPlan artifacts are permanently immutable after locking": no step   *)
(* of any process changes the file of a locked artifact, except that the   *)
(* migration commands look at no status.  Every operation saves a copy it  *)
(* loaded earlier, so this needs commands not to overlap.  What becomes of *)
(* a locked artifact in a migration, ImplementsLifecycle says.             *)
LockedForever ==
    [][\A a \in Artifact :
          file[a].status = "locked" =>
             file'[a] = file[a] \/ \E p \in Migrator : Rewrites(p, a)]_vars

(* Nothing is approved or locked with a payload that no approve() was      *)
(* given for, however stale the copies are that processes save or put      *)
(* back.                                                                   *)
OnlySignedPayloads ==
    \A a \in Artifact :
       file[a].status \in {"approved", "locked"} => file[a].rev \in signed[a]

(* At most one tracker outlives its operations: a single web worker.       *)
OneWorker == \A p, q \in Resident \cap Approver : p = q

(* A record in the approvals file stands for an artifact that was saved as *)
(* approved: approve() saves before it records and revoke() erases before  *)
(* it saves, so wherever the two are cut short no record of a draft is     *)
(* left.  A rollback can bring one back (restored).                        *)
RecordsBacked ==
    records.state = "whole" =>
       \A a \in records.ids \ restored : file[a].status \in {"approved", "locked"} \cup Torn

(* What the CI stage "Approval Verification" asks of the files, of all     *)
(* artifacts but those excepted.                                           *)
CIVerifiedBut(excepted) ==
    /\ records.state = "whole"
    /\ \A a \in Artifact \ excepted :
          file[a].status \in {"approved", "locked"} => a \in records.ids

AtRest == ~cut /\ \A p \in Proc : Quiet(p)

(* When no operation is under way and none was cut short, CI finds every   *)
(* approved or locked artifact in the approvals file, except what a        *)
(* rollback put back and what a web worker saved over whose tracker had    *)
(* never read it: nothing else loses a record.                             *)
CIPassesAtRest == AtRest => CIVerifiedBut(erased \cup restored)

(* "Verifies that all required artifacts have been approved": in a project *)
(* without rollbacks, CI at rest finds the records of all that was         *)
(* approved.  It does not: a web worker saves over what the CLI approved   *)
(* since the worker read the file, with nothing overlapping or cut short.  *)
ApprovalsOutlast == AtRest => CIVerifiedBut(restored)

(* The store implements ArtifactLifecycle.  While a save is between its    *)
(* open and its write the artifact still counts as what was loaded; torn   *)
(* with nobody about to write it, it is lost.                              *)
View(c) == IF c.status \in Torn THEN [status |-> "lost", rev |-> 0] ELSE c

Saving(a) == {p \in Proc : pc[p] = "saving" /\ target[p] = a}

Abs(a) ==
    IF file[a].status \in Torn /\ Saving(a) # {}
    THEN View(seen[CHOOSE p \in Saving(a) : TRUE])
    ELSE View(file[a])

AbsState == [a \in Artifact |-> Abs(a)]
AbsKept  == [a \in Artifact |-> {View(c) : c \in backups[a]}]

Lifecycle == INSTANCE ArtifactLifecycle
             WITH state <- AbsState, kept <- AbsKept, Migrations <- Migrator # {}

ImplementsLifecycle == Lifecycle!Spec
=============================================================================
