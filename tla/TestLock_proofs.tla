--------------------------- MODULE TestLock_proofs ---------------------------
(***************************************************************************)
(* Proofs about TestLock, for any number of test files and processes, with *)
(* developers who edit at any time and commands that end anywhere.         *)
(***************************************************************************)
EXTENDS TestLock, TLAPS

LEMMA Constants ==
    /\ Nothing \in Hashes /\ NoLock \in LockFile /\ BadLock \in LockFile
    /\ NoLock.state = "none" /\ BadLock.state = "torn"
    /\ \A f \in TestFile : Nothing[f] = 0
    /\ \A f \in TestFile : NoLock.hashes[f] = 0
  BY LockAssumption DEF Nothing, NoLock, BadLock, Hashes, LockFile

LEMMA InitTyped == Init => TypeOK
  BY LockAssumption, Constants DEF Init, TypeOK, Hashes, LockFile, Steps

LEMMA StepTyped == TypeOK /\ [Next]_vars => TypeOK'
<1> SUFFICES ASSUME TypeOK, [Next]_vars PROVE TypeOK'
  OBVIOUS
<1> USE LockAssumption, Constants DEF TypeOK, Steps, history, command, Leave
<1>1. ASSUME NEW f \in TestFile, NEW v \in 0 .. MaxVersion, Edit(f, v) PROVE TypeOK'
  <2>1. content' \in Hashes
    BY <1>1 DEF Edit, Hashes
  <2> QED
    BY <1>1, <2>1 DEF Edit
<1>2. ASSUME NEW t \in Plan, Approve(t) PROVE TypeOK'
  BY <1>2 DEF Approve
<1>3. ASSUME NEW t \in Plan, Revoke(t) PROVE TypeOK'
  BY <1>3 DEF Revoke
<1>4. ASSUME NEW t \in Plan, WebLock(t) PROVE TypeOK'
  BY <1>4 DEF WebLock
<1>5. ASSUME NEW p \in Proc, NEW t \in Plan, Prompt(p, t) PROVE TypeOK'
  BY <1>5 DEF Prompt
<1>6. ASSUME NEW p \in Proc, Confirm(p) PROVE TypeOK'
  BY <1>6 DEF Confirm
<1>7. ASSUME NEW p \in Proc, NEW f \in TestFile, Hash(p, f) PROVE TypeOK'
  <2>1. content[f] \in 0 .. MaxVersion
    BY DEF Hashes
  <2>2. [hashes[p] EXCEPT ![f] = content[f]] \in Hashes
    BY <2>1 DEF Hashes
  <2>3. hashes' \in [Proc -> Hashes]
    BY <1>7, <2>2 DEF Hash
  <2> QED
    BY <1>7, <2>3 DEF Hash
<1>8. ASSUME NEW p \in Proc, OpenLock(p) PROVE TypeOK'
  BY <1>8 DEF OpenLock
<1>9. ASSUME NEW p \in Proc, WriteLock(p) PROVE TypeOK'
  BY <1>9 DEF WriteLock, LockFile
<1>10. ASSUME NEW p \in Proc, LockArtifact(p) PROVE TypeOK'
  BY <1>10 DEF LockArtifact
<1>11. ASSUME NEW p \in Proc, FailToLock(p) PROVE TypeOK'
  BY <1>11 DEF FailToLock
<1>12. ASSUME NEW p \in Proc, StartWork(p) PROVE TypeOK'
  BY <1>12 DEF StartWork
<1>13. ASSUME NEW p \in Proc, Stop(p) PROVE TypeOK'
  BY <1>13 DEF Stop
<1>14. CASE UNCHANGED vars
  BY <1>14 DEF vars
<1> QED
  BY <1>1, <1>2, <1>3, <1>4, <1>5, <1>6, <1>7, <1>8, <1>9, <1>10, <1>11, <1>12,
     <1>13, <1>14 DEF Next, Step

(* Every variable keeps its type: LockManager, SafetyEnforcer and the      *)
(* commands between them know no other states than those of the model.     *)
THEOREM LockTyping == Spec => []TypeOK
  BY InitTyped, StepTyped, PTL DEF Spec

-----------------------------------------------------------------------------
Locking(p) == pc[p] \in {"prompted", "hashing", "writing", "hashed"}

(* One command at a time.                                                  *)
Mutex == \A p, q \in Proc : p # q => pc[p] = "off" \/ pc[q] = "off"

(* A plan that is being locked is approved and stays so until it is.       *)
PlanWaits == \A p \in Proc : Locking(p) => status[chosen[p]] = "approved"

(* `lock` computes its hashes from nothing ...                             *)
StartsClean ==
    \A p \in Proc : pc[p] \in {"off", "prompted"} => hashes[p] = Nothing

(* ... and before it locks the artifact they are in the lock file.         *)
HashesFirst ==
    \A p \in Proc : pc[p] = "hashed" =>
       \A f \in TestFile : hashes[p][f] # 0 =>
          lockfile.state = "whole" /\ lockfile.hashes[f] = hashes[p][f]

CLILocks == \A t \in byCLI : status[t] = "locked"

Inv ==
    /\ TypeOK /\ Mutex /\ PlanWaits /\ StartsClean /\ HashesFirst /\ CLILocks
    /\ LockedAreHashed

(* While the only plan is being locked it has not been locked, so there    *)
(* are no hashes to lose: why it takes a sole plan.                        *)
LEMMA NothingToLose ==
    ASSUME OnePlan, Inv, NEW p \in Proc, Locking(p)
    PROVE  byCLI = {}
<1>1. \A t \in byCLI : t = chosen[p] /\ status[t] = "locked"
  BY DEF OnePlan, Inv, TypeOK, CLILocks
<1>2. status[chosen[p]] # "locked"
  BY DEF Inv, PlanWaits
<1> QED
  BY <1>1, <1>2

LEMMA InitHashed == Init => Inv
  BY InitTyped DEF Init, Inv, Mutex, PlanWaits, Locking, StartsClean, HashesFirst,
                   CLILocks, LockedAreHashed

LEMMA StepHashed ==
    ASSUME OnePlan, Serialised PROVE Inv /\ [Next]_vars => Inv'
<1> SUFFICES ASSUME Inv, [Next]_vars PROVE Inv'
  OBVIOUS
<1>0. TypeOK'
  BY StepTyped DEF Inv
<1> USE <1>0, Serialised
        DEF Inv, TypeOK, Mutex, PlanWaits, Locking, StartsClean, HashesFirst,
            CLILocks, LockedAreHashed, Recorded, history, command, Leave
<1>1. ASSUME NEW f \in TestFile, NEW v \in 0 .. MaxVersion, Edit(f, v) PROVE Inv'
  BY <1>1 DEF Edit
<1>2. ASSUME NEW t \in Plan, Approve(t) PROVE Inv'
  BY <1>2 DEF Approve, NobodyBusy
<1>3. ASSUME NEW t \in Plan, Revoke(t) PROVE Inv'
  BY <1>3 DEF Revoke, NobodyBusy
<1>4. ASSUME NEW t \in Plan, WebLock(t) PROVE Inv'
  BY <1>4 DEF WebLock, NobodyBusy
<1>5. ASSUME NEW p \in Proc, NEW t \in Plan, Prompt(p, t) PROVE Inv'
  BY <1>5 DEF Prompt, Alone
<1>6. ASSUME NEW p \in Proc, Confirm(p) PROVE Inv'
  BY <1>6, Constants DEF Confirm
<1>7. ASSUME NEW p \in Proc, NEW f \in TestFile, Hash(p, f) PROVE Inv'
  BY <1>7 DEF Hash
<1>8. ASSUME NEW p \in Proc, OpenLock(p) PROVE Inv'
  <2>1. byCLI = {}
    BY <1>8, OnePlan, NothingToLose DEF OpenLock
  <2> QED
    BY <1>8, <2>1 DEF OpenLock
<1>9. ASSUME NEW p \in Proc, WriteLock(p) PROVE Inv'
  <2>1. byCLI = {}
    BY <1>9, OnePlan, NothingToLose DEF WriteLock
  <2> QED
    BY <1>9, <2>1 DEF WriteLock
<1>10. ASSUME NEW p \in Proc, LockArtifact(p) PROVE Inv'
  <2>1. byCLI = {}
    BY <1>10, OnePlan, NothingToLose DEF LockArtifact
  <2>2. LockedAreHashed'
    BY <1>10, <2>1 DEF LockArtifact
  <2>3. Mutex' /\ PlanWaits'
    BY <1>10 DEF LockArtifact
  <2>4. StartsClean' /\ HashesFirst' /\ CLILocks'
    BY <1>10, <2>1 DEF LockArtifact
  <2> QED
    BY <2>2, <2>3, <2>4
<1>11. ASSUME NEW p \in Proc, FailToLock(p) PROVE Inv'
  <2>1. byCLI = {}
    BY <1>11, OnePlan, NothingToLose DEF FailToLock
  <2> QED
    BY <1>11, <2>1 DEF FailToLock
<1>12. ASSUME NEW p \in Proc, StartWork(p) PROVE Inv'
  BY <1>12 DEF StartWork, Alone
<1>13. ASSUME NEW p \in Proc, Stop(p) PROVE Inv'
  BY <1>13 DEF Stop
<1>14. CASE UNCHANGED vars
  BY <1>14 DEF vars
<1> QED
  BY <1>1, <1>2, <1>3, <1>4, <1>5, <1>6, <1>7, <1>8, <1>9, <1>10, <1>11, <1>12,
     <1>13, <1>14 DEF Next, Step

(* With a sole TestPlan and commands that do not overlap, the hashes that  *)
(* `lock` took stay in .project/.lock whatever is edited, cut short,       *)
(* retried or done through the web API.                                    *)
THEOREM HashesStay ==
    ASSUME OnePlan, Serialised PROVE Spec => []LockedAreHashed
<1>1. Inv => LockedAreHashed
  BY DEF Inv
<1> QED
  BY <1>1, InitHashed, StepHashed, PTL DEF Spec

(* ... so that implementation starts from the tests that were locked.      *)
THEOREM WorkIsGuarded ==
    ASSUME OnePlan, Serialised PROVE Spec => WorkOnLockedTests
<1> DEFINE Guarded ==
       \A p \in Proc : pc[p] # "working" /\ pc'[p] = "working" =>
          \A t \in byCLI, f \in TestFile :
             baseline[t][f] # 0 => content[f] = baseline[t][f]
<1>1. ASSUME Inv, [Next]_vars PROVE [Guarded]_vars
  <2> SUFFICES ASSUME NEW p \in Proc, pc[p] # "working", pc'[p] = "working" PROVE Intact
    BY <1>1 DEF Inv, LockedAreHashed, Recorded, Intact
  <2> USE <1>1 DEF Inv, TypeOK, command, Leave
  <2>1. CASE \E q \in Proc : StartWork(q)
    BY <2>1 DEF StartWork
  <2>2. CASE ~\E q \in Proc : StartWork(q)
    <3>1. CASE UNCHANGED vars
      BY <3>1 DEF vars
    <3>2. CASE \E f \in TestFile, v \in 0 .. MaxVersion : Edit(f, v)
      BY <3>2 DEF Edit
    <3>3. CASE \E t \in Plan : Approve(t) \/ Revoke(t) \/ WebLock(t)
      BY <3>3 DEF Approve, Revoke, WebLock
    <3>4. CASE \E q \in Proc : Step(q)
      BY <2>2, <3>4 DEF Step, Prompt, Confirm, Hash, OpenLock, WriteLock, LockArtifact,
                        FailToLock, Stop
    <3> QED
      BY <3>1, <3>2, <3>3, <3>4 DEF Next
  <2> QED
    BY <2>1, <2>2
<1> HIDE DEF Guarded
<1>2. Spec => [][Guarded]_vars
  BY <1>1, InitHashed, StepHashed, PTL DEF Spec
<1> QED
  BY <1>2 DEF WorkOnLockedTests, Guarded
=============================================================================
