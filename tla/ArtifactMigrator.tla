-------------------------- MODULE ArtifactMigrator --------------------------
(***************************************************************************)
(* Migrations of stored artifacts to a newer schema (ArtifactMigrator and  *)
(* SchemaVersionManager).  A run of `migrate` scans the artifacts, asks    *)
(* for confirmation, and then backs up, migrates and rewrites one artifact *)
(* after another; what fails is reported and left as it is.  A backup      *)
(* directory is named by the second the run began in.  `rollback` copies a *)
(* backup directory back.                                                  *)
(***************************************************************************)
EXTENDS Naturals

CONSTANTS
    Artifact,
    Run,          \* the runs of migrate
    MaxSeconds    \* bound on the seconds that pass

VARIABLES
    disk,       \* disk[a]: what is stored
    run,        \* run[r]: where run r stands
    plan,       \* plan[r]: the artifacts it has still to migrate
    saved,      \* saved[r]: the artifact it has just backed up, if any
    withBackup, \* runs without --no-backup
    second,     \* the time of the last run that began
    dir,        \* dir[r]: the second that names its backup directory
    backups,    \* backups[d][a]: the copy of a in directory d
    undone,     \* history: what a rollback has put back and nobody written since
    original,   \* history: original[r][a]: a when run r, with backups, began
    touched,    \* history: touched[r]: artifacts such a run has written to
    overlapped  \* history: runs overlapped, in time or in the name of a backup

migratorVars == <<disk, run, plan, saved, withBackup, second, dir, backups,
                  undone, original, touched, overlapped>>

perRun == <<plan, saved, withBackup, dir>>

NoArtifact == "none"
ASSUME MigratorAssumption == NoArtifact \notin Artifact /\ MaxSeconds \in Nat \ {0}

(* What is stored: of the old version, migrated, migrated twice, or torn.  *)
Stored == {"old", "new", "twice", "torn"}
Copy   == Stored \cup {"absent"}

Seconds == 1 .. MaxSeconds

MigratorTypeOK ==
    /\ disk \in [Artifact -> Stored]
    /\ run \in [Run -> {"idle", "planned", "running", "ended"}]
    /\ plan \in [Run -> SUBSET Artifact]
    /\ saved \in [Run -> Artifact \cup {NoArtifact}]
    /\ withBackup \subseteq Run
    /\ second \in Seconds
    /\ dir \in [Run -> Seconds]
    /\ backups \in [Seconds -> [Artifact -> Copy]]
    /\ undone \in [Seconds -> SUBSET Artifact]
    /\ original \in [Run -> [Artifact -> Stored]]
    /\ touched \in [Run -> SUBSET Artifact]
    /\ overlapped \in BOOLEAN

-----------------------------------------------------------------------------
MigratorInit ==
    /\ disk \in [Artifact -> {"old", "new"}]
    /\ run = [r \in Run |-> "idle"]
    /\ plan = [r \in Run |-> {}]
    /\ saved = [r \in Run |-> NoArtifact]
    /\ withBackup = {}
    /\ second = 1
    /\ dir = [r \in Run |-> 1]
    /\ backups = [d \in Seconds |-> [a \in Artifact |-> "absent"]]
    /\ undone = [d \in Seconds |-> {}]
    /\ original = [r \in Run |-> [a \in Artifact |-> "old"]]
    /\ touched = [r \in Run |-> {}]
    /\ overlapped = FALSE

(* scan_for_migrations: what is not of the current version; a file that    *)
(* cannot be parsed is passed over.                                        *)
Scan(r) ==
    /\ run[r] = "idle"
    /\ run' = [run EXCEPT ![r] = "planned"]
    /\ plan' = [plan EXCEPT ![r] = {a \in Artifact : disk[a] = "old"}]
    /\ UNCHANGED <<disk, saved, withBackup, second, dir, backups, undone,
                   original, touched, overlapped>>

(* execute_migration, once confirmed, with backups or without, at a time   *)
(* not before that of any run so far.                                      *)
ExecuteMigration(r, backup, now) ==
    /\ run[r] = "planned" /\ plan[r] # {}
    /\ run' = [run EXCEPT ![r] = "running"]
    /\ withBackup' = IF backup THEN withBackup \cup {r} ELSE withBackup
    /\ second' = now
    /\ dir' = [dir EXCEPT ![r] = now]
    /\ original' = IF backup THEN [original EXCEPT ![r] = disk] ELSE original
    /\ overlapped' = (overlapped \/ (\E q \in Run : run[q] = "running")
                                 \/ (\E a \in Artifact : backups[now][a] # "absent"))
    /\ UNCHANGED <<disk, plan, saved, backups, undone, touched>>

(* A run that backs up what it has already written.                        *)
BackupLate(r, a) ==
    /\ run[r] = "running"
    /\ a \in plan[r] /\ saved[r] = NoArtifact
    /\ saved' = [saved EXCEPT ![r] = a]
    /\ backups' = IF r \in withBackup
                  THEN [backups EXCEPT ![dir[r]][a] = IF disk[a] = "old" THEN "new" ELSE disk[a]]
                  ELSE backups
    /\ UNCHANGED <<disk, run, plan, withBackup, second, dir, undone,
                   original, touched, overlapped>>

(* The next artifact is copied, if there are to be backups.                *)
Backup(r, a) ==
    /\ run[r] = "running"
    /\ a \in plan[r] /\ saved[r] = NoArtifact
    /\ saved' = [saved EXCEPT ![r] = a]
    /\ backups' = IF r \in withBackup THEN [backups EXCEPT ![dir[r]][a] = disk[a]] ELSE backups
    /\ UNCHANGED <<disk, run, plan, withBackup, second, dir, undone,
                   original, touched, overlapped>>

Write(r, a, data) ==
    /\ disk' = [disk EXCEPT ![a] = data]
    /\ touched' = IF r \in withBackup THEN [touched EXCEPT ![r] = @ \cup {a}] ELSE touched
    /\ undone' = [d \in Seconds |-> undone[d] \ {a}]

Done(r, a) ==
    /\ plan' = [plan EXCEPT ![r] = @ \ {a}]
    /\ saved' = [saved EXCEPT ![r] = NoArtifact]

(* It is migrated, from the version it had when it was scanned, whatever   *)
(* it has now; what cannot be parsed fails.                                *)
Migrate(r, a) ==
    /\ run[r] = "running" /\ saved[r] = a
    /\ disk[a] # "torn"
    /\ Write(r, a, IF disk[a] = "old" THEN "new" ELSE "twice")
    /\ Done(r, a)
    /\ UNCHANGED <<run, withBackup, second, dir, backups, original, overlapped>>

(* The copy, the reading or the migration fails: nothing is written ...    *)
FailToMigrate(r, a) ==
    /\ run[r] = "running"
    /\ saved[r] = a \/ (saved[r] = NoArtifact /\ a \in plan[r])
    /\ Done(r, a)
    /\ UNCHANGED <<disk, run, withBackup, second, dir, backups, undone,
                   original, touched, overlapped>>

(* ... or the writing fails, or the process ends, half-way.                *)
TearArtifact(r, a, crash) ==
    /\ run[r] = "running" /\ saved[r] = a
    /\ Write(r, a, "torn")
    /\ plan' = [plan EXCEPT ![r] = IF crash THEN {} ELSE @ \ {a}]
    /\ saved' = [saved EXCEPT ![r] = NoArtifact]
    /\ run' = [run EXCEPT ![r] = IF crash THEN "ended" ELSE @]
    /\ UNCHANGED <<withBackup, second, dir, backups, original, overlapped>>

(* Everything is done or reported; or the user declines, or all is new;    *)
(* or the process ends between two steps.                                  *)
EndRun(r) ==
    /\ run[r] \in {"planned", "running"}
    /\ run' = [run EXCEPT ![r] = "ended"]
    /\ plan' = [plan EXCEPT ![r] = {}]
    /\ saved' = [saved EXCEPT ![r] = NoArtifact]
    /\ UNCHANGED <<disk, withBackup, second, dir, backups, undone, original, touched, overlapped>>

(* rollback_migration from directory d: some copies are put back, the      *)
(* others fail and are reported; it can be run again.                      *)
RollbackMigration(d, some) ==
    /\ some # {}
    /\ \A a \in some : backups[d][a] # "absent"
    /\ disk' = [a \in Artifact |-> IF a \in some THEN backups[d][a] ELSE disk[a]]
    /\ undone' = [e \in Seconds |-> IF e = d THEN undone[d] \cup some ELSE undone[e] \ some]
    /\ overlapped' = (overlapped \/ \E r \in Run : run[r] = "running")
    /\ UNCHANGED <<run, perRun, second, backups, original, touched>>

MigratorNext ==
    \/ \E r \in Run :
        \/ Scan(r) \/ EndRun(r)
        \/ \E backup \in BOOLEAN, now \in second .. MaxSeconds : ExecuteMigration(r, backup, now)
        \/ \E a \in Artifact :
            \/ Backup(r, a) \/ Migrate(r, a) \/ FailToMigrate(r, a)
            \/ \E crash \in BOOLEAN : TearArtifact(r, a, crash)
    \/ \E d \in Seconds, some \in SUBSET Artifact : RollbackMigration(d, some)

MigratorSpec == MigratorInit /\ [][MigratorNext]_migratorVars

-----------------------------------------------------------------------------
(* Properties *)

(* A migration with backups can be undone, whatever failed in it and       *)
(* wherever it ended: each artifact it wrote to, migrated or torn, is in   *)
(* its backup directory as it was when the run began, and is so on disk    *)
(* once a rollback has put it back.  Runs that overlap, or begin in the    *)
(* same second, share artifacts or a directory and are excepted.           *)
RollbackRestores ==
    ~overlapped =>
        \A r \in withBackup : \A a \in touched[r] :
            /\ backups[dir[r]][a] = original[r][a]
            /\ a \in undone[dir[r]] => disk[a] = original[r][a]
=============================================================================
