------------------------------ MODULE TestLock ------------------------------
(***************************************************************************)
(* The hash lock on the test files.  `lock` records the hashes of the test *)
(* files in .project/.lock (LockManager) and then locks the TestPlan       *)
(* (ArtifactService); commands that implement something first compare the  *)
(* files with the recorded hashes (SafetyEnforcer).  Developers edit test  *)
(* files whenever they like, commands under way or not.  The web API locks *)
(* a TestPlan too, and knows nothing of the hashes.                        *)
(***************************************************************************)
EXTENDS Naturals

CONSTANTS
    TestFile,    \* the test files that the newest ScaffoldPlan lists
    Plan,        \* TestPlans
    Proc,        \* processes that run commands
    Web,         \* TRUE: the web API locks and revokes
    Serialised,  \* TRUE: a command starts only when no other is under way
    MaxVersion   \* bound on the contents a developer gives a file

ASSUME LockAssumption ==
    /\ Web \in BOOLEAN
    /\ Serialised \in BOOLEAN
    /\ MaxVersion \in Nat

VARIABLES
    content,    \* content[f]: what a test file contains, 0 if it is missing
    status,     \* status[t]: the status of TestPlan t
    lockfile,   \* .project/.lock
    pc,         \* pc[p]: where process p stands
    chosen,     \* chosen[p]: the TestPlan it is locking
    listed,     \* listed[p]: the test files it found
    hashes,     \* hashes[p]: the hashes it has computed so far
    baseline,   \* history: baseline[t], the contents that t was locked with
    byCLI       \* history: the plans that `lock` has locked

command == <<pc, chosen, listed, hashes>>
history == <<baseline, byCLI>>
vars    == <<content, status, lockfile, command, history>>

Hashes   == [TestFile -> 0 .. MaxVersion]   \* 0: no hash of this file
LockFile == [state : {"none", "torn", "whole"}, hashes : Hashes]
Steps    == {"off", "prompted", "hashing", "writing", "hashed", "working"}

Nothing == [f \in TestFile |-> 0]
NoLock  == [state |-> "none", hashes |-> Nothing]
BadLock == [state |-> "torn", hashes |-> Nothing]

TypeOK ==
    /\ content \in Hashes
    /\ status \in [Plan -> {"draft", "approved", "locked"}]
    /\ lockfile \in LockFile
    /\ pc \in [Proc -> Steps]
    /\ chosen \in [Proc -> Plan]
    /\ listed \in [Proc -> SUBSET TestFile]
    /\ hashes \in [Proc -> Hashes]
    /\ baseline \in [Plan -> Hashes]
    /\ byCLI \subseteq Plan

-----------------------------------------------------------------------------
(* Helpers *)

Alone(p) == Serialised => \A q \in Proc \ {p} : pc[q] = "off"

NobodyBusy == Serialised => \A p \in Proc : pc[p] = "off"

(* The command ends and its process with it.                               *)
Leave(p) ==
    /\ pc' = [pc EXCEPT ![p] = "off"]
    /\ listed' = [listed EXCEPT ![p] = {}]
    /\ hashes' = [hashes EXCEPT ![p] = Nothing]
    /\ UNCHANGED chosen

(* A check that passes over files that are not there.                      *)
IntactIfThere ==
    /\ lockfile.state # "torn"
    /\ \A f \in TestFile :
          lockfile.hashes[f] # 0 => content[f] \in {0, lockfile.hashes[f]}

(* check_test_lock_intact: no lock file, or every file as recorded; a      *)
(* missing file differs from any hash.                                     *)
Intact ==
    /\ lockfile.state # "torn"
    /\ \A f \in TestFile :
          lockfile.hashes[f] # 0 => content[f] = lockfile.hashes[f]

-----------------------------------------------------------------------------
Init ==
    /\ content = Nothing
    /\ status = [t \in Plan |-> "draft"]
    /\ lockfile = NoLock
    /\ pc = [p \in Proc |-> "off"]
    /\ chosen \in [Proc -> Plan]
    /\ listed = [p \in Proc |-> {}]
    /\ hashes = [p \in Proc |-> Nothing]
    /\ baseline = [t \in Plan |-> Nothing]
    /\ byCLI = {}

(* A developer writes, changes or deletes a test file.                     *)
Edit(f, v) ==
    /\ content' = [content EXCEPT ![f] = v]
    /\ UNCHANGED <<status, lockfile, command, history>>

Approve(t) ==
    /\ NobodyBusy
    /\ status[t] = "draft"
    /\ status' = [status EXCEPT ![t] = "approved"]
    /\ UNCHANGED <<content, lockfile, command, history>>

(* The web API takes an approval back.                                     *)
Revoke(t) ==
    /\ Web /\ NobodyBusy
    /\ status[t] = "approved"
    /\ status' = [status EXCEPT ![t] = "draft"]
    /\ UNCHANGED <<content, lockfile, command, history>>

(* The web API locks a TestPlan: its status, nothing else.                 *)
WebLock(t) ==
    /\ Web /\ NobodyBusy
    /\ status[t] = "approved"
    /\ status' = [status EXCEPT ![t] = "locked"]
    /\ baseline' = [baseline EXCEPT ![t] = content]
    /\ UNCHANGED <<content, lockfile, command, byCLI>>

(* A lock command that does not ask whether the plan is locked already.    *)
PromptAgain(p, t) ==
    /\ pc[p] = "off" /\ Alone(p)
    /\ status[t] \in {"approved", "locked"}
    /\ pc' = [pc EXCEPT ![p] = "prompted"]
    /\ chosen' = [chosen EXCEPT ![p] = t]
    /\ UNCHANGED <<content, status, lockfile, listed, hashes, history>>

(* lock: an approved plan, and a warning to confirm.                       *)
Prompt(p, t) ==
    /\ pc[p] = "off" /\ Alone(p)
    /\ status[t] = "approved"
    /\ pc' = [pc EXCEPT ![p] = "prompted"]
    /\ chosen' = [chosen EXCEPT ![p] = t]
    /\ UNCHANGED <<content, status, lockfile, listed, hashes, history>>

(* "LOCK" was typed: look which test files exist.  Without any, no lock    *)
(* file is written.                                                        *)
Confirm(p) ==
    /\ pc[p] = "prompted"
    /\ listed' = [listed EXCEPT ![p] = {f \in TestFile : content[f] # 0}]
    /\ pc' = [pc EXCEPT ![p] = IF content = Nothing THEN "hashed" ELSE "hashing"]
    /\ UNCHANGED <<content, status, lockfile, chosen, hashes, history>>

(* lock_test_plan hashes one file after another ...                        *)
Hash(p, f) ==
    /\ pc[p] = "hashing"
    /\ f \in listed[p]
    /\ content[f] # 0
    /\ hashes' = [hashes EXCEPT ![p][f] = content[f]]
    /\ listed' = [listed EXCEPT ![p] = @ \ {f}]
    /\ UNCHANGED <<content, status, lockfile, pc, chosen, history>>

(* ... truncates the lock file ...                                         *)
OpenLock(p) ==
    /\ pc[p] = "hashing"
    /\ listed[p] = {}
    /\ lockfile' = BadLock
    /\ pc' = [pc EXCEPT ![p] = "writing"]
    /\ UNCHANGED <<content, status, chosen, listed, hashes, history>>

(* ... and writes it.                                                      *)
WriteLock(p) ==
    /\ pc[p] = "writing"
    /\ lockfile' = [state |-> "whole", hashes |-> hashes[p]]
    /\ pc' = [pc EXCEPT ![p] = "hashed"]
    /\ UNCHANGED <<content, status, chosen, listed, hashes, history>>

(* A lock that leaves a status of its own making.                          *)
LockArtifactFinal(p) ==
    /\ pc[p] = "hashed"
    /\ status[chosen[p]] = "approved"
    /\ status' = [status EXCEPT ![chosen[p]] = "final"]
    /\ Leave(p)
    /\ UNCHANGED <<content, lockfile, history>>

(* Then the artifact is locked, if it is still approved.                   *)
LockArtifact(p) ==
    /\ pc[p] = "hashed"
    /\ status[chosen[p]] = "approved"
    /\ status' = [status EXCEPT ![chosen[p]] = "locked"]
    /\ baseline' = [baseline EXCEPT ![chosen[p]] = hashes[p]]
    /\ byCLI' = byCLI \cup {chosen[p]}
    /\ Leave(p)
    /\ UNCHANGED <<content, lockfile>>

(* If it is not, or cannot be read or written, the lock file is removed,   *)
(* whoever wrote it.                                                       *)
FailToLock(p) ==
    /\ pc[p] = "hashed"
    /\ lockfile' = NoLock
    /\ Leave(p)
    /\ UNCHANGED <<content, status, history>>

(* A command that implements something starts: the lock is intact.         *)
StartWork(p) ==
    /\ pc[p] = "off" /\ Alone(p)
    /\ Intact
    /\ pc' = [pc EXCEPT ![p] = "working"]
    /\ UNCHANGED <<content, status, lockfile, chosen, listed, hashes, history>>

(* A command ends where it stands: cancelled, done, failed or killed.      *)
Stop(p) ==
    /\ pc[p] # "off"
    /\ Leave(p)
    /\ UNCHANGED <<content, status, lockfile, history>>

Step(p) ==
    \/ \E t \in Plan : Prompt(p, t)
    \/ Confirm(p)
    \/ \E f \in TestFile : Hash(p, f)
    \/ OpenLock(p)
    \/ WriteLock(p)
    \/ LockArtifact(p)
    \/ FailToLock(p)
    \/ StartWork(p)
    \/ Stop(p)

Next ==
    \/ \E f \in TestFile, v \in 0 .. MaxVersion : Edit(f, v)
    \/ \E t \in Plan : Approve(t) \/ Revoke(t) \/ WebLock(t)
    \/ \E p \in Proc : Step(p)

Spec == Init /\ [][Next]_vars

-----------------------------------------------------------------------------
(* Properties *)

(* There is but one TestPlan.                                              *)
OnePlan == \A t, u \in Plan : t = u

Recorded(t) ==
    \A f \in TestFile : baseline[t][f] # 0 =>
       lockfile.state = "whole" /\ lockfile.hashes[f] = baseline[t][f]

(* The hashes that `lock` took of the test files stay in the lock file as  *)
(* long as there is no second TestPlan to lock, whatever commands are cut  *)
(* short before or retried after.                                          *)
LockedAreHashed == \A t \in byCLI : Recorded(t)

(* "Subsequent operations verify that test files haven't been modified":   *)
(* a command starts to work only if every test file that `lock` found is   *)
(* what it was then, through all edits in between.                         *)
WorkOnLockedTests ==
    [][\A p \in Proc : pc[p] # "working" /\ pc'[p] = "working" =>
          \A t \in byCLI, f \in TestFile :
             baseline[t][f] # 0 => content[f] = baseline[t][f]]_vars
=============================================================================
