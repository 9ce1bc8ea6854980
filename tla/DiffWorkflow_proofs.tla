------------------------ MODULE DiffWorkflow_proofs ------------------------
(***************************************************************************)
(* Proofs about DiffWorkflow, for any number of files, diffs and           *)
(* processes, in any interleaving and with commands that end anywhere.     *)
(*                                                                         *)
(* The safety of apply needs NamesApart: where one target's name is part   *)
(* of another's, git may be given a file that nobody approved.             *)
(***************************************************************************)
EXTENDS DiffWorkflow, TLAPS

(* A process that is about to use its diff has one, and it has a verdict   *)
(* only when it is about to write it.                                      *)
Working ==
    /\ \A p \in Proc : pc[p] \in {"generated", "prompted", "patched"} => chosen[p] # 0
    /\ \A p \in Proc : verdict[p] # "absent" => pc[p] \in {"updating", "writing"}

(* Only generated diffs are in the index, in a copy of it, endorsed or     *)
(* chosen: the target of such a diff never changes again.                  *)
Born ==
    /\ \A d \in Diff : index[d] # "absent" => d <= generated
    /\ \A p \in Proc, d \in Diff : snapshot[p][d] # "absent" => d <= generated
    /\ \A p \in Proc : chosen[p] <= generated
    /\ \A d \in endorsed : d <= generated

(* A diff is approved, in the index or in anything that may be written to  *)
(* it, only if a human endorsed it.                                        *)
ApprovedIsEndorsed ==
    /\ \A d \in Diff : index[d] = "approved" => d \in endorsed
    /\ \A p \in Proc, d \in Diff : snapshot[p][d] = "approved" => d \in endorsed
    /\ \A p \in Proc : verdict[p] = "approved" => chosen[p] \in endorsed

(* The file apply is going to give to git is that of an endorsed diff, and *)
(* no test once the executor has looked; the diff the executor found is a  *)
(* diff of that file.                                                      *)
Cleared ==
    \A p \in Proc :
       /\ pc[p] \in {"confirming", "applying"} =>
             \E d \in endorsed : target[d] = path[p]
       /\ pc[p] = "applying" =>
             /\ path[p] \notin Test
             /\ chosen[p] # 0 => target[chosen[p]] = path[p]

(* A diff is called applied only when its file has been changed.           *)
AppliedIsDone ==
    /\ \A p \in Proc, d \in Diff : snapshot[p][d] = "applied" => repo[target[d]] = "done"
    /\ \A p \in Proc : pc[p] = "patched" => repo[target[chosen[p]]] = "done"
    /\ \A p \in Proc : verdict[p] = "applied" =>
                          chosen[p] # 0 /\ repo[target[chosen[p]]] = "done"

-----------------------------------------------------------------------------
(* The first invariant of a run: types, and what keeps EXCEPT in bounds.   *)
LEMMA InitTyped == Init => TypeOK /\ Working /\ Born
<1> SUFFICES ASSUME Init PROVE TypeOK /\ Working /\ Born
  OBVIOUS
<1>1. AnyFile \in File /\ 0 \in 0 .. MaxDiff
  BY DiffAssumption DEF AnyFile
<1>2. NoDiffs \in [Diff -> Status]
  BY DEF NoDiffs, Status
<1>3. TypeOK
  BY <1>1, <1>2 DEF Init, TypeOK, Steps, Status
<1>4. Working /\ Born
  BY DEF Init, Working, Born, NoDiffs
<1> QED
  BY <1>3, <1>4

LEMMA StepTyped ==
    TypeOK /\ Working /\ Born /\ [Next]_vars => TypeOK' /\ Working' /\ Born'
<1> SUFFICES ASSUME TypeOK, Working, Born, [Next]_vars
             PROVE  TypeOK' /\ Working' /\ Born'
  OBVIOUS
<1> DEFINE Good == TypeOK /\ Working /\ Born
<1> USE DiffAssumption DEF TypeOK, Working, Born, shared, history, Diff, Steps, Status
<1>0. /\ AnyFile \in File /\ NoDiffs \in [Diff -> Status]
      /\ \A d \in Diff : NoDiffs[d] = "absent"
  BY DEF AnyFile, NoDiffs
<1>1. ASSUME NEW p \in Proc, NEW f \in File, Generate(p, f) PROVE Good'
  <2>1. /\ generated + 1 \in Diff /\ generated' = generated + 1
        /\ target' \in [Diff -> File] /\ chosen' \in [Proc -> Diff \cup {0}]
    BY <1>1 DEF Generate
  <2>2. TypeOK'
    BY <1>1, <2>1 DEF Generate
  <2>3. Working'
    BY <1>1, <2>1 DEF Generate
  <2>4. Born'
    <3>1. \A q \in Proc : chosen'[q] <= generated'
      BY <1>1, <2>1 DEF Generate
    <3>2. /\ \A d \in Diff : index'[d] # "absent" => d <= generated'
          /\ \A d \in endorsed' : d <= generated'
      BY <1>1, <2>1 DEF Generate
    <3>3. \A q \in Proc, d \in Diff : snapshot'[q][d] # "absent" => d <= generated'
      BY <1>1, <2>1 DEF Generate
    <3> QED
      BY <3>1, <3>2, <3>3
  <2> QED
    BY <2>2, <2>3, <2>4
<1>2. ASSUME NEW p \in Proc, SaveText(p) PROVE Good'
  BY <1>2 DEF SaveText
<1>3. ASSUME NEW p \in Proc, AddToIndex(p) PROVE Good'
  <2>1. TypeOK'
    <3>1. snapshot' \in [Proc -> [Diff -> Status]] /\ verdict' \in [Proc -> Status]
      BY <1>3 DEF AddToIndex
    <3> QED
      BY <1>3, <3>1 DEF AddToIndex
  <2>2. Working'
    BY <1>3 DEF AddToIndex
  <2>3. Born'
    BY <1>3 DEF AddToIndex
  <2> QED
    BY <2>1, <2>2, <2>3
<1>4. ASSUME NEW p \in Proc, Review(p) PROVE Good'
  BY <1>4 DEF Review, Newest, With
<1>5. ASSUME NEW p \in Proc, NEW v \in {"approved", "rejected"}, Decide(p, v)
      PROVE  Good'
  BY <1>5 DEF Decide
<1>6. ASSUME NEW p \in Proc, Apply(p) PROVE Good'
  BY <1>6 DEF Apply, Newest, With
<1>7. ASSUME NEW p \in Proc, Check(p) PROVE Good'
  <2>1. PICK d \in Diff \cup {0} : /\ d <= generated
                                  /\ chosen' = [chosen EXCEPT ![p] = d]
    <3>1. Newest(Matching(path[p])) \subseteq Diff
      BY DEF Newest, Matching
    <3>2. CASE \E d \in Newest(Matching(path[p])) :
                 index[d] = "approved" /\ chosen' = [chosen EXCEPT ![p] = d]
      BY <3>1, <3>2
    <3>3. CASE chosen' = [chosen EXCEPT ![p] = 0]
      <4>1. 0 \in Diff \cup {0} /\ 0 <= generated
        OBVIOUS
      <4> QED
        BY <3>3, <4>1, Zenon
    <3> QED
      BY <1>7, <3>2, <3>3 DEF Check
  <2> QED
    BY <1>7, <2>1 DEF Check
<1>8. ASSUME NEW p \in Proc, GitApply(p) PROVE Good'
  <2>1. repo' \in [File -> {"todo", "done"}]
    BY <1>8 DEF GitApply
  <2>2. CASE chosen[p] = 0
    <3>1. Leave(p) /\ UNCHANGED <<index, torn, texts, target, generated, history>>
      BY <1>8, <2>2 DEF GitApply
    <3>2. TypeOK'
      BY <1>0, <2>1, <3>1 DEF Leave
    <3>3. Working' /\ Born'
      BY <1>0, <3>1 DEF Leave
    <3> QED
      BY <3>2, <3>3
  <2>3. CASE chosen[p] # 0
    <3>1. /\ pc' = [pc EXCEPT ![p] = "patched"]
          /\ UNCHANGED <<index, torn, texts, target, generated, history>>
          /\ UNCHANGED <<chosen, path, verdict, snapshot>> /\ pc[p] = "applying"
      BY <1>8, <2>3 DEF GitApply
    <3>2. TypeOK'
      BY <2>1, <3>1
    <3>3. Working' /\ Born'
      BY <2>3, <3>1
    <3> QED
      BY <3>2, <3>3
  <2> QED
    BY <2>2, <2>3
<1>9. ASSUME NEW p \in Proc, Mark(p) PROVE Good'
  <2>1. TypeOK'
    <3>1. snapshot' \in [Proc -> [Diff -> Status]] /\ verdict' \in [Proc -> Status]
      BY <1>9 DEF Mark
    <3> QED
      BY <1>9, <3>1 DEF Mark
  <2>2. Working'
    BY <1>9 DEF Mark
  <2>3. Born'
    BY <1>9 DEF Mark
  <2> QED
    BY <2>1, <2>2, <2>3
<1>10. ASSUME NEW p \in Proc, OpenIndex(p) PROVE Good'
  <2>1. TypeOK'
    BY <1>10 DEF OpenIndex
  <2>2. Working' /\ Born'
    BY <1>10 DEF OpenIndex
  <2> QED
    BY <2>1, <2>2
<1>11. ASSUME NEW p \in Proc, WriteIndex(p) PROVE Good'
  <2>1. TypeOK'
    <3>1. index' \in [Diff -> Status] /\ snapshot' \in [Proc -> [Diff -> Status]]
      BY <1>11, <1>0 DEF WriteIndex, Leave
    <3> QED
      BY <1>11, <1>0, <3>1 DEF WriteIndex, Leave
  <2>2. Working'
    BY <1>11, <1>0 DEF WriteIndex, Leave
  <2>3. Born'
    BY <1>11, <1>0 DEF WriteIndex, Leave
  <2> QED
    BY <2>1, <2>2, <2>3
<1>12. ASSUME NEW p \in Proc, Stop(p) PROVE Good'
  <2>1. TypeOK'
    BY <1>12, <1>0 DEF Stop, Leave
  <2>2. Working'
    BY <1>12, <1>0 DEF Stop, Leave
  <2>3. Born'
    BY <1>12, <1>0 DEF Stop, Leave
  <2> QED
    BY <2>1, <2>2, <2>3
<1>13. CASE UNCHANGED vars
  BY <1>13 DEF vars, local
<1> QED
  BY <1>1, <1>2, <1>3, <1>4, <1>5, <1>6, <1>7, <1>8, <1>9, <1>10, <1>11, <1>12,
     <1>13 DEF Next, Step

(* Type correctness of every command.                                      *)
THEOREM DiffTyping == Spec => []TypeOK
<1> QED
  BY InitTyped, StepTyped, PTL DEF Spec

-----------------------------------------------------------------------------
(* The invariant behind apply's promises, in any interleaving.             *)
Safe == /\ ApprovedIsEndorsed /\ Cleared /\ AppliedIsDone
        /\ OnlyReviewedCode /\ TestsUntouched /\ AppliedIsReal

LEMMA InitSafe == Init => Safe
<1> SUFFICES ASSUME Init PROVE Safe
  OBVIOUS
<1>1. ApprovedIsEndorsed /\ AppliedIsDone /\ AppliedIsReal
  BY DEF Init, ApprovedIsEndorsed, AppliedIsDone, AppliedIsReal, NoDiffs
<1>2. Cleared /\ OnlyReviewedCode /\ TestsUntouched
  BY DiffAssumption DEF Init, Cleared, OnlyReviewedCode, TestsUntouched
<1> QED
  BY <1>1, <1>2 DEF Safe

(* Approvals come from a human, through any number of copies of the index. *)
LEMMA StepApproved ==
    TypeOK /\ Working /\ ApprovedIsEndorsed /\ [Next]_vars => ApprovedIsEndorsed'
<1> SUFFICES ASSUME TypeOK, Working, ApprovedIsEndorsed, [Next]_vars
             PROVE  ApprovedIsEndorsed'
  OBVIOUS
<1> USE DEF ApprovedIsEndorsed, TypeOK, Working, shared, history, Leave, NoDiffs
<1>1. ASSUME NEW p \in Proc, NEW f \in File, Generate(p, f)
      PROVE  ApprovedIsEndorsed'
  BY <1>1 DEF Generate
<1>2. ASSUME NEW p \in Proc, SaveText(p) PROVE ApprovedIsEndorsed'
  BY <1>2 DEF SaveText
<1>3. ASSUME NEW p \in Proc, AddToIndex(p) PROVE ApprovedIsEndorsed'
  BY <1>3 DEF AddToIndex
<1>4. ASSUME NEW p \in Proc, Review(p) PROVE ApprovedIsEndorsed'
  BY <1>4 DEF Review
<1>5. ASSUME NEW p \in Proc, NEW v \in {"approved", "rejected"}, Decide(p, v)
      PROVE  ApprovedIsEndorsed'
  BY <1>5 DEF Decide
<1>6. ASSUME NEW p \in Proc, Apply(p) PROVE ApprovedIsEndorsed'
  BY <1>6 DEF Apply
<1>7. ASSUME NEW p \in Proc, Check(p) PROVE ApprovedIsEndorsed'
  BY <1>7 DEF Check
<1>8. ASSUME NEW p \in Proc, GitApply(p) PROVE ApprovedIsEndorsed'
  BY <1>8 DEF GitApply
<1>9. ASSUME NEW p \in Proc, Mark(p) PROVE ApprovedIsEndorsed'
  BY <1>9 DEF Mark
<1>10. ASSUME NEW p \in Proc, OpenIndex(p) PROVE ApprovedIsEndorsed'
  BY <1>10 DEF OpenIndex
<1>11. ASSUME NEW p \in Proc, WriteIndex(p) PROVE ApprovedIsEndorsed'
  BY <1>11 DEF WriteIndex
<1>12. ASSUME NEW p \in Proc, Stop(p) PROVE ApprovedIsEndorsed'
  BY <1>12 DEF Stop
<1>13. CASE UNCHANGED vars
  BY <1>13 DEF vars, local
<1> QED
  BY <1>1, <1>2, <1>3, <1>4, <1>5, <1>6, <1>7, <1>8, <1>9, <1>10, <1>11, <1>12,
     <1>13 DEF Next, Step

(* What apply hands to git.  Apply finds an endorsed diff of the file it     *)
(* picks, and the executor finds a diff of that same file, because no name   *)
(* is part of another.                                                       *)
LEMMA StepCleared ==
    TypeOK /\ Working /\ Born /\ ApprovedIsEndorsed /\ Cleared /\ NamesApart
       /\ [Next]_vars => Cleared'
<1> SUFFICES ASSUME TypeOK, Working, Born, ApprovedIsEndorsed, Cleared, NamesApart,
                    [Next]_vars
             PROVE  Cleared'
  OBVIOUS
<1> USE DEF Cleared, TypeOK, Working, Born, shared, history, Leave
<1>1. ASSUME NEW p \in Proc, NEW f \in File, Generate(p, f)
      PROVE  Cleared'
  BY <1>1, DiffAssumption DEF Generate, Diff
<1>2. ASSUME NEW p \in Proc, SaveText(p)
      PROVE  Cleared'
  BY <1>2 DEF SaveText
<1>3. ASSUME NEW p \in Proc, AddToIndex(p)
      PROVE  Cleared'
  BY <1>3 DEF AddToIndex
<1>4. ASSUME NEW p \in Proc, Review(p)
      PROVE  Cleared'
  BY <1>4 DEF Review
<1>5. ASSUME NEW p \in Proc, NEW v \in {"approved", "rejected"},
             Decide(p, v)
      PROVE  Cleared'
  BY <1>5 DEF Decide
<1>6. ASSUME NEW p \in Proc, Apply(p)
      PROVE  Cleared'
  BY <1>6 DEF Apply, Newest, With, NamesApart, ApprovedIsEndorsed
<1>7. ASSUME NEW p \in Proc, Check(p)
      PROVE  Cleared'
  BY ZenonT(30), <1>7 DEF Check, Newest, Matching, NamesApart
<1>8. ASSUME NEW p \in Proc, GitApply(p)
      PROVE  Cleared'
  BY <1>8 DEF GitApply
<1>9. ASSUME NEW p \in Proc, Mark(p)
      PROVE  Cleared'
  BY <1>9 DEF Mark
<1>10. ASSUME NEW p \in Proc, OpenIndex(p)
      PROVE  Cleared'
  BY <1>10 DEF OpenIndex
<1>11. ASSUME NEW p \in Proc, WriteIndex(p)
      PROVE  Cleared'
  BY <1>11 DEF WriteIndex
<1>12. ASSUME NEW p \in Proc, Stop(p)
      PROVE  Cleared'
  BY <1>12 DEF Stop
<1>13. CASE UNCHANGED vars
  BY <1>13 DEF vars, local
<1> QED
  BY <1>1, <1>2, <1>3, <1>4, <1>5, <1>6, <1>7, <1>8, <1>9, <1>10, <1>11, <1>12,
     <1>13 DEF Next, Step

(* The status applied follows git apply, through any copies of the index.    *)
LEMMA StepApplied ==
    TypeOK /\ Working /\ Born /\ Cleared /\ AppliedIsDone /\ AppliedIsReal
       /\ [Next]_vars => AppliedIsDone' /\ AppliedIsReal'
<1> SUFFICES ASSUME TypeOK, Working, Born, Cleared, AppliedIsDone, AppliedIsReal,
                    [Next]_vars
             PROVE  AppliedIsDone' /\ AppliedIsReal'
  OBVIOUS
<1> USE DEF Cleared, TypeOK, Working, Born, AppliedIsDone, AppliedIsReal, shared, history, Leave
<1>1. ASSUME NEW p \in Proc, NEW f \in File, Generate(p, f)
      PROVE  AppliedIsDone' /\ AppliedIsReal'
  BY SMTT(30), <1>1 DEF Generate
<1>2. ASSUME NEW p \in Proc, SaveText(p)
      PROVE  AppliedIsDone' /\ AppliedIsReal'
  BY <1>2 DEF SaveText
<1>3. ASSUME NEW p \in Proc, AddToIndex(p)
      PROVE  AppliedIsDone' /\ AppliedIsReal'
  BY <1>3 DEF AddToIndex
<1>4. ASSUME NEW p \in Proc, Review(p)
      PROVE  AppliedIsDone' /\ AppliedIsReal'
  BY SMTT(30), <1>4 DEF Review
<1>5. ASSUME NEW p \in Proc, NEW v \in {"approved", "rejected"},
             Decide(p, v)
      PROVE  AppliedIsDone' /\ AppliedIsReal'
  BY <1>5 DEF Decide
<1>6. ASSUME NEW p \in Proc, Apply(p)
      PROVE  AppliedIsDone' /\ AppliedIsReal'
  BY <1>6 DEF Apply
<1>7. ASSUME NEW p \in Proc, Check(p)
      PROVE  AppliedIsDone' /\ AppliedIsReal'
  BY <1>7 DEF Check
<1>8. ASSUME NEW p \in Proc, GitApply(p)
      PROVE  AppliedIsDone' /\ AppliedIsReal'
  <2>1. \A f \in File : repo[f] = "done" => repo'[f] = "done"
    BY <1>8 DEF GitApply
  <2>2. /\ repo'[path[p]] = "done" /\ path[p] \in File
        /\ UNCHANGED <<index, target>> /\ pc[p] = "applying"
    BY <1>8 DEF GitApply
  <2>3. AppliedIsReal'
    BY <2>1, <2>2
  <2>4. CASE chosen[p] = 0
    <3>1. Leave(p)
      BY <1>8, <2>4 DEF GitApply
    <3> QED
      BY <2>1, <2>2, <2>3, <3>1 DEF NoDiffs
  <2>5. CASE chosen[p] # 0
    <3>1. /\ pc' = [pc EXCEPT ![p] = "patched"]
          /\ UNCHANGED <<chosen, path, verdict, snapshot>>
      BY <1>8, <2>5 DEF GitApply
    <3>2. target[chosen[p]] = path[p]
      BY <2>2, <2>5
    <3> QED
      BY <2>1, <2>2, <2>3, <2>5, <3>1, <3>2
  <2> QED
    BY <2>4, <2>5
<1>9. ASSUME NEW p \in Proc, Mark(p)
      PROVE  AppliedIsDone' /\ AppliedIsReal'
  BY <1>9 DEF Mark
<1>10. ASSUME NEW p \in Proc, OpenIndex(p)
      PROVE  AppliedIsDone' /\ AppliedIsReal'
  BY <1>10 DEF OpenIndex
<1>11. ASSUME NEW p \in Proc, WriteIndex(p)
      PROVE  AppliedIsDone' /\ AppliedIsReal'
  BY <1>11 DEF WriteIndex, NoDiffs
<1>12. ASSUME NEW p \in Proc, Stop(p)
      PROVE  AppliedIsDone' /\ AppliedIsReal'
  BY <1>12 DEF Stop, NoDiffs
<1>13. CASE UNCHANGED vars
  BY <1>13 DEF vars, local
<1> QED
  BY <1>1, <1>2, <1>3, <1>4, <1>5, <1>6, <1>7, <1>8, <1>9, <1>10, <1>11, <1>12,
     <1>13 DEF Next, Step

(* Every change of the repository is one that Cleared speaks of.           *)
LEMMA StepGoals ==
    TypeOK /\ Working /\ Born /\ Cleared /\ OnlyReviewedCode /\ TestsUntouched
       /\ [Next]_vars => OnlyReviewedCode' /\ TestsUntouched'
<1> SUFFICES ASSUME TypeOK, Working, Born, Cleared, OnlyReviewedCode, TestsUntouched,
                    [Next]_vars
             PROVE  OnlyReviewedCode' /\ TestsUntouched'
  OBVIOUS
<1> USE DEF TypeOK, OnlyReviewedCode, TestsUntouched
<1>1. CASE UNCHANGED repo
  <2>1. \A d \in endorsed : d \in endorsed' /\ target'[d] = target[d]
    <3>1. CASE \E p \in Proc, f \in File : Generate(p, f)
      BY <3>1, DiffAssumption DEF Generate, Born, Diff, history
    <3>2. CASE \E p \in Proc, v \in {"approved", "rejected"} : Decide(p, v)
      BY <3>2 DEF Decide, shared
    <3>3. CASE UNCHANGED <<target, endorsed>>
      BY <3>3
    <3>4. \/ \E p \in Proc, f \in File : Generate(p, f)
          \/ \E p \in Proc, v \in {"approved", "rejected"} : Decide(p, v)
          \/ UNCHANGED <<target, endorsed>>
      BY DEF Next, Step, vars, shared, history, SaveText, AddToIndex, Review, Apply,
             Check, GitApply, Mark, OpenIndex, WriteIndex, Stop
    <3> QED
      BY <3>1, <3>2, <3>3, <3>4
  <2> QED
    BY <1>1, <2>1
<1>2. CASE \E p \in Proc : GitApply(p)
  <2>1. PICK p \in Proc : GitApply(p)
    BY <1>2
  <2>2. /\ path[p] \notin Test /\ \E d \in endorsed : target[d] = path[p]
        /\ repo' = [repo EXCEPT ![path[p]] = "done"]
        /\ UNCHANGED <<target, endorsed>>
    BY <2>1 DEF GitApply, Cleared, history
  <2> QED
    BY <2>2, DiffAssumption
<1>3. UNCHANGED repo \/ \E p \in Proc : GitApply(p)
  BY DEF Next, Step, vars, shared, Generate, SaveText, AddToIndex, Review, Decide, Apply,
         Check, Mark, OpenIndex, WriteIndex, Stop
<1> QED
  BY <1>1, <1>2, <1>3

LEMMA SafeAlways ==
    ASSUME NamesApart
    PROVE  Spec => [](TypeOK /\ Working /\ Born /\ Safe)
<1>1. TypeOK /\ Working /\ Born /\ Safe /\ [Next]_vars
         => (TypeOK /\ Working /\ Born /\ Safe)'
  BY StepTyped, StepApproved, StepCleared, StepApplied, StepGoals, NamesApart DEF Safe
<1> QED
  BY <1>1, InitTyped, InitSafe, PTL DEF Spec

(* No file is changed but by a diff of a file whose diff a human approved. *)
THEOREM OnlyReviewedCodeRuns ==
    ASSUME NamesApart
    PROVE  Spec => []OnlyReviewedCode
<1>1. Safe => OnlyReviewedCode
  BY DEF Safe
<1> QED
  BY <1>1, SafeAlways, NamesApart, PTL

(* No command changes a test file: the phase gate lets none of them run    *)
(* before the tests are locked.                                            *)
THEOREM TestsStayLocked ==
    ASSUME NamesApart
    PROVE  Spec => []TestsUntouched
<1>1. Safe => TestsUntouched
  BY DEF Safe
<1> QED
  BY <1>1, SafeAlways, NamesApart, PTL

(* What the index calls applied has been applied.                          *)
THEOREM AppliedWasApplied ==
    ASSUME NamesApart
    PROVE  Spec => []AppliedIsReal
<1>1. Safe => AppliedIsReal
  BY DEF Safe
<1> QED
  BY <1>1, SafeAlways, NamesApart, PTL

-----------------------------------------------------------------------------
(* Commands that do not overlap.                                           *)
NoOverlap == \A p, q \in Proc : p # q => pc[p] = "off" \/ pc[q] = "off"

(* The diff a command works on has, in the index, the status it had when   *)
(* the command took it, and a copy of the index is the index.              *)
InStep(p) ==
    /\ pc[p] \in {"generated", "texted"} => chosen[p] # 0 /\ index[chosen[p]] = "absent"
    /\ pc[p] = "prompted" => index[chosen[p]] = "pending"
    /\ pc[p] = "confirming" => ~torn /\ chosen[p] # 0 /\ index[chosen[p]] = "approved"
                                     /\ <<target[chosen[p]], path[p]>> \in Occurs
    /\ pc[p] = "applying" /\ chosen[p] # 0 => index[chosen[p]] = "approved"
    /\ pc[p] = "patched" => index[chosen[p]] = "approved"
    /\ pc[p] \in {"updating", "writing"} =>
          /\ snapshot[p] = index /\ chosen[p] # 0
          /\ index[chosen[p]] \notin {"rejected", "applied"}

SerialInv == NoOverlap /\ \A p \in Proc : InStep(p)

LEMMA SerialStep ==
    ASSUME Serialised, TypeOK, Working, Born, SerialInv, [Next]_vars
    PROVE  SerialInv'
<1> USE DEF TypeOK, Working, shared, local, history
<1>0. ASSUME NEW p \in Proc, pc[p] # "off" \/ Alone(p),
             \A q \in Proc \ {p} : pc'[q] = pc[q], InStep(p)'
      PROVE  SerialInv'
  <2>1. \A q \in Proc \ {p} : pc[q] = "off" /\ pc'[q] = "off"
    BY <1>0 DEF Alone, SerialInv, NoOverlap
  <2>2. \A q \in Proc \ {p} : InStep(q)'
    BY <2>1 DEF InStep
  <2> QED
    BY <1>0, <2>1, <2>2 DEF SerialInv, NoOverlap
<1>a. ASSUME NEW p \in Proc PROVE InStep(p)
  BY DEF SerialInv
<1>1. ASSUME NEW p \in Proc, NEW f \in File, Generate(p, f) PROVE SerialInv'
  <2>1. generated + 1 \in Diff /\ generated + 1 # 0
    BY <1>1, DiffAssumption DEF Generate, Diff
  <2>2. index[generated + 1] = "absent"
    BY <2>1 DEF Born, Status
  <2>3. InStep(p)'
    BY <1>1, <2>1, <2>2 DEF Generate, InStep
  <2> QED
    BY <1>0, <1>1, <2>3 DEF Generate
<1>2. ASSUME NEW p \in Proc, SaveText(p) PROVE SerialInv'
  BY <1>0, <1>a, <1>2 DEF SaveText, InStep
<1>3. ASSUME NEW p \in Proc, AddToIndex(p) PROVE SerialInv'
  BY <1>0, <1>a, <1>3 DEF AddToIndex, InStep
<1>4. ASSUME NEW p \in Proc, Review(p) PROVE SerialInv'
  BY <1>0, <1>4 DEF Review, InStep, Newest, With
<1>5. ASSUME NEW p \in Proc, NEW v \in {"approved", "rejected"}, Decide(p, v)
      PROVE  SerialInv'
  BY <1>0, <1>a, <1>5 DEF Decide, InStep
<1>6. ASSUME NEW p \in Proc, Apply(p) PROVE SerialInv'
  <2>1. PICK d \in Newest(With("approved")), g \in texts :
          /\ <<target[d], g>> \in Occurs
          /\ chosen' = [chosen EXCEPT ![p] = d]
          /\ path' = [path EXCEPT ![p] = g]
    BY <1>6 DEF Apply
  <2>2. d \in Diff /\ d # 0 /\ index[d] = "approved"
    BY DEF Newest, With, Diff
  <2>3. InStep(p)'
    BY <1>6, <2>1, <2>2 DEF Apply, InStep
  <2> QED
    BY <1>0, <1>6, <2>3 DEF Apply
<1>7. ASSUME NEW p \in Proc, Check(p) PROVE SerialInv'
  <2>1. InStep(p)'
    BY <1>7 DEF Check, InStep, Newest
  <2> QED
    BY <1>0, <1>7, <2>1 DEF Check
<1>8. ASSUME NEW p \in Proc, GitApply(p) PROVE SerialInv'
  <2>1. InStep(p)'
    <3>1. CASE chosen[p] = 0
      BY <1>8, <3>1 DEF GitApply, Leave, InStep
    <3>2. CASE chosen[p] # 0
      BY <1>a, <1>8, <3>2 DEF GitApply, InStep
    <3> QED
      BY <3>1, <3>2
  <2>2. \A q \in Proc \ {p} : pc'[q] = pc[q]
    BY <1>8 DEF GitApply, Leave
  <2> QED
    BY <1>0, <1>8, <2>1, <2>2 DEF GitApply
<1>9. ASSUME NEW p \in Proc, Mark(p) PROVE SerialInv'
  <2>1. InStep(p)'
    BY <1>a, <1>9 DEF Mark, InStep
  <2> QED
    BY <1>0, <1>9, <2>1 DEF Mark
<1>10. ASSUME NEW p \in Proc, OpenIndex(p) PROVE SerialInv'
  <2>1. InStep(p)'
    BY <1>a, <1>10 DEF OpenIndex, InStep
  <2> QED
    BY <1>0, <1>10, <2>1 DEF OpenIndex
<1>11. ASSUME NEW p \in Proc, WriteIndex(p) PROVE SerialInv'
  <2>1. InStep(p)'
    BY <1>11 DEF WriteIndex, Leave, InStep
  <2> QED
    BY <1>0, <1>11, <2>1 DEF WriteIndex, Leave
<1>12. ASSUME NEW p \in Proc, Stop(p) PROVE SerialInv'
  BY <1>0, <1>12 DEF Stop, Leave, InStep
<1>13. CASE UNCHANGED vars
  BY <1>13 DEF vars, SerialInv, NoOverlap, InStep
<1> QED
  BY <1>1, <1>2, <1>3, <1>4, <1>5, <1>6, <1>7, <1>8, <1>9, <1>10, <1>11, <1>12,
     <1>13 DEF Next, Step

LEMMA SerialAlways ==
    ASSUME Serialised
    PROVE  Spec => [](TypeOK /\ Working /\ Born /\ SerialInv)
<1>1. Init => SerialInv
  BY DEF Init, SerialInv, NoOverlap, InStep
<1>2. TypeOK /\ Working /\ Born /\ SerialInv /\ [Next]_vars
         => (TypeOK /\ Working /\ Born /\ SerialInv)'
  BY StepTyped, SerialStep
<1> QED
  BY <1>1, <1>2, InitTyped, PTL DEF Spec

(* Only a write of the index changes it, and that one diff of it.          *)
LEMMA IndexChanges ==
    ASSUME TypeOK, SerialInv, [Next]_vars
    PROVE  \/ UNCHANGED index
           \/ \E p \in Proc :
                /\ WriteIndex(p) /\ chosen[p] \in Diff
                /\ index[chosen[p]] \notin {"rejected", "applied"}
                /\ index' = [index EXCEPT ![chosen[p]] = verdict[p]]
<1>1. UNCHANGED index \/ \E p \in Proc : WriteIndex(p)
  BY DEF Next, Step, vars, shared, Generate, SaveText, AddToIndex, Review, Decide, Apply,
         Check, GitApply, Mark, OpenIndex, Stop
<1>2. ASSUME NEW p \in Proc, WriteIndex(p)
      PROVE  /\ chosen[p] \in Diff
             /\ index[chosen[p]] \notin {"rejected", "applied"}
             /\ index' = [index EXCEPT ![chosen[p]] = verdict[p]]
  BY <1>2 DEF WriteIndex, SerialInv, InStep, TypeOK
<1> QED
  BY <1>1, <1>2

(* A diff that was rejected or applied stays so, if commands do not        *)
(* overlap: the index a command changes is the one it read, and the diff   *)
(* it took was not decided yet.                                            *)
THEOREM VerdictsStay == ASSUME Serialised PROVE Spec => VerdictsFinal
<1>1. TypeOK /\ SerialInv /\ [Next]_vars
         => [\A d \in Diff : index[d] \in {"rejected", "applied"} => index'[d] = index[d]]_vars
  BY IndexChanges DEF TypeOK
<1> QED
  BY <1>1, SerialAlways, PTL DEF Spec, VerdictsFinal

(* Process p has changed file f and is about to say so.                    *)
Marking(p, f) ==
    /\ pc[p] \in {"patched", "updating", "writing"}
    /\ chosen[p] # 0 /\ target[chosen[p]] = f
    /\ pc[p] # "patched" => verdict[p] = "applied"

SaysApplied(f) == \E d \in Diff : target[d] = f /\ index[d] = "applied"

(* The executor finds the diff of a path without a directory, and what was *)
(* changed is marked, or is about to be.                                   *)
MarkInv ==
    /\ \A p \in Proc : pc[p] = "applying" /\ path[p] \in Flat => chosen[p] # 0
    /\ ~cut => \A f \in Flat : repo[f] = "done" =>
                  SaysApplied(f) \/ \E p \in Proc : Marking(p, f)

LEMMA MarkStep ==
    ASSUME Serialised, NamesApart, TypeOK, Working, Born, Safe, SerialInv, MarkInv,
           [Next]_vars
    PROVE  MarkInv'
<1> USE DEF TypeOK, Working, shared, local, history
<1>1. \A p \in Proc : (pc[p] = "applying" /\ path[p] \in Flat => chosen[p] # 0)'
  <2>1. ASSUME NEW p \in Proc, Check(p), path[p] \in Flat PROVE chosen'[p] # 0
    <3>1. <<path[p], path[p]>> \in Occurs /\ target[chosen[p]] = path[p]
      BY <2>1, DiffAssumption DEF Check, SerialInv, InStep, NamesApart
    <3>2. chosen[p] \in Matching(path[p])
      BY <2>1, <3>1 DEF Check, SerialInv, InStep, Matching
    <3>3. \E d \in Newest(Matching(path[p])) : chosen' = [chosen EXCEPT ![p] = d]
      BY <2>1, <3>2 DEF Check
    <3> QED
      BY <3>3 DEF Newest, Matching, Diff
  <2>2. ASSUME NEW p \in Proc, pc'[p] = "applying", ~Check(p)
        PROVE  pc[p] = "applying" /\ path'[p] = path[p] /\ chosen'[p] = chosen[p]
    <3>1. CASE UNCHANGED vars
      BY <2>2, <3>1 DEF vars
    <3>2. ASSUME NEW q \in Proc, Step(q)
          PROVE  pc[p] = "applying" /\ path'[p] = path[p] /\ chosen'[p] = chosen[p]
      <4>1. CASE q = p
        BY <2>2, <3>2, <4>1 DEF Step, Generate, SaveText, AddToIndex, Review, Decide,
           Apply, GitApply, Mark, OpenIndex, WriteIndex, Stop, Leave
      <4>2. CASE q # p
        BY <2>2, <3>2, <4>2 DEF Step, Generate, SaveText, AddToIndex, Review, Decide,
           Apply, Check, GitApply, Mark, OpenIndex, WriteIndex, Stop, Leave
      <4> QED
        BY <4>1, <4>2
    <3> QED
      BY <3>1, <3>2 DEF Next
  <2>3. \A p \in Proc : Check(p) => path' = path
    BY DEF Check
  <2> QED
    BY <2>1, <2>2, <2>3 DEF MarkInv
<1>2. ASSUME ~cut', NEW f \in Flat, repo'[f] = "done"
      PROVE  SaysApplied(f)' \/ \E p \in Proc : Marking(p, f)'
  <2>1. f \in File
    BY DiffAssumption
  <2>2. ~cut
    BY <1>2 DEF Next, Step, vars, Generate, SaveText, AddToIndex, Review, Decide, Apply,
                Check, GitApply, Mark, OpenIndex, WriteIndex, Stop
  <2>3. \A d \in Diff : d <= generated => target'[d] = target[d]
    <3>1. CASE \E p \in Proc, x \in File : Generate(p, x)
      BY <3>1, DiffAssumption DEF Generate, Diff
    <3>2. CASE UNCHANGED target
      BY <3>2
    <3>3. UNCHANGED target \/ \E p \in Proc, x \in File : Generate(p, x)
      BY DEF Next, Step, vars, SaveText, AddToIndex, Review, Decide, Apply, Check,
             GitApply, Mark, OpenIndex, WriteIndex, Stop
    <3> QED
      BY <3>1, <3>2, <3>3
  <2>4. SaysApplied(f) => SaysApplied(f)'
    <3>1. \A d \in Diff : index[d] = "applied" => index'[d] = "applied"
      BY IndexChanges
    <3> QED
      BY <2>3, <3>1 DEF SaysApplied, Born
  <2>5. CASE repo[f] # "done"
    <3>1. PICK p \in Proc : GitApply(p) /\ path[p] = f
      BY <1>2, <2>1, <2>5 DEF Next, Step, vars, Generate, SaveText, AddToIndex, Review, Decide,
           Apply, Check, GitApply, Mark, OpenIndex, WriteIndex, Stop
    <3>2. chosen[p] # 0 /\ target[chosen[p]] = f
      BY <3>1 DEF GitApply, MarkInv, Safe, Cleared
    <3> QED
      BY <3>1, <3>2 DEF GitApply, Marking
  <2>6. ASSUME NEW p \in Proc, Marking(p, f)
        PROVE  SaysApplied(f)' \/ Marking(p, f)'
    <3>1. chosen[p] \in Diff /\ target'[chosen[p]] = f
      BY <2>3, <2>6 DEF Marking, Born
    <3>2. \A q \in Proc \ {p} : pc[q] = "off"
      BY <2>6 DEF Marking, SerialInv, NoOverlap
    <3>3. CASE WriteIndex(p)
      <4>1. index'[chosen[p]] = "applied"
        BY <2>6, <3>1, <3>3 DEF WriteIndex, Marking
      <4> QED
        BY <3>1, <4>1 DEF SaysApplied
    <3>4. CASE Mark(p) \/ OpenIndex(p)
      BY <2>6, <3>1, <3>4 DEF Mark, OpenIndex, Marking
    <3>5. CASE ~(WriteIndex(p) \/ Mark(p) \/ OpenIndex(p))
      <4>1. ~Stop(p)
        BY <1>2, <2>6 DEF Stop, Marking
      <4>2. UNCHANGED vars \/ \E q \in Proc \ {p} : Step(q)
        <5>1. ~Step(p)
          BY <2>6, <3>5, <4>1 DEF Step, Marking, Generate, SaveText, AddToIndex, Review,
                                  Decide, Apply, Check, GitApply
        <5> QED
          BY <5>1 DEF Next
      <4>3. pc'[p] = pc[p] /\ chosen'[p] = chosen[p] /\ verdict'[p] = verdict[p]
        BY ZenonT(30), <3>2, <4>2 DEF Step, vars, Generate, SaveText, AddToIndex, Review, Decide, Apply,
                Check, GitApply, Mark, OpenIndex, WriteIndex, Stop
      <4> QED
        BY <2>6, <3>1, <4>3 DEF Marking
    <3> QED
      BY <3>3, <3>4, <3>5
  <2>7. CASE repo[f] = "done"
    BY <2>2, <2>4, <2>6, <2>7 DEF MarkInv
  <2> QED
    BY <2>5, <2>7
<1> QED
  BY <1>1, <1>2 DEF MarkInv, SaysApplied, Marking

(* A change of a file without a directory in its path is never left without *)
(* its mark, once all commands have run their course.                       *)
THEOREM FlatIsMarked ==
    ASSUME Serialised, NamesApart
    PROVE  Spec => []FlatMarkedAtRest
<1>1. Init => MarkInv
  BY DiffAssumption DEF Init, MarkInv
<1>2. TypeOK /\ Working /\ Born /\ Safe /\ SerialInv /\ MarkInv /\ [Next]_vars => MarkInv'
  BY MarkStep
<1>3. MarkInv => FlatMarkedAtRest
  BY DEF MarkInv, FlatMarkedAtRest, SaysApplied, Marking
<1> QED
  BY <1>1, <1>2, <1>3, SafeAlways, SerialAlways, PTL DEF Spec
=============================================================================
