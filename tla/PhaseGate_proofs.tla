-------------------------- MODULE PhaseGate_proofs --------------------------
(***************************************************************************)
(* Proofs about PhaseGate, for any wiring of the commands to the gates.    *)
(***************************************************************************)
EXTENDS PhaseGate, TLAPS

LEMMA MoveTyped ==
    ASSUME TypeOK, NEW t \in Type, NEW from, NEW to \in Status, Move(t, from, to)
    PROVE  /\ has' \in [Type -> SUBSET Status]
           /\ \A u \in Type \ {t} : has'[u] = has[u]
           /\ has[t] \ {from} \subseteq has'[t]
           /\ has'[t] \subseteq has[t] \cup {to}
  BY DEF TypeOK, Move

(* What is in a status a human gave it was signed.                         *)
Signed == \A t \in Type : Approved(t) => t \in signed

(* The chain, with the link between its ends: a ScaffoldPlan is drafted    *)
(* only after a ProjectPlan was approved.                                  *)
Chain == ChainOfApprovals /\ (has["ScaffoldPlan"] # {} => "ProjectPlan" \in signed)

Inv == TypeOK /\ Signed /\ Chain

(* What the gate promises: a phase is not announced before the approvals   *)
(* that lead to it.                                                        *)
LEMMA GateIsSound ==
    ASSUME Inv, NEW c \in Command, Admits(c)
    PROVE  /\ Required(c) >= PLANNING => "ProjectPlan" \in signed
           /\ Required(c) >= SCAFFOLDED => "ScaffoldPlan" \in signed
           /\ Required(c) = TEST_LOCKED => "locked" \in has["TestPlan"]
<1> USE DEF UNINIT, INIT, PLANNING, SCAFFOLDED, TEST_LOCKED
<1>1. Phase \in {UNINIT, INIT, PLANNING, SCAFFOLDED, TEST_LOCKED}
  BY DEF Phase
<1>2. Required(c) \in {UNINIT, INIT, PLANNING, SCAFFOLDED, TEST_LOCKED}
  BY DEF Required
<1>3. Phase >= PLANNING => "ProjectPlan" \in signed
  BY DEF Phase, Inv, Signed, Chain, ChainOfApprovals, Type, Approved
<1>4. Phase >= SCAFFOLDED => "ScaffoldPlan" \in signed
  BY DEF Phase, Inv, Signed, Chain, ChainOfApprovals, Type, Approved
<1>5. Phase >= TEST_LOCKED => "locked" \in has["TestPlan"]
  BY DEF Phase
<1>6. PhaseFor(c) = Phase \/ PhaseFor(c) = INIT
  BY DEF PhaseFor
<1> QED
  BY <1>1, <1>2, <1>3, <1>4, <1>5, <1>6 DEF Admits

(* ... for the commands that add to the chain.                             *)
LEMMA GatedCommands ==
    ASSUME Inv
    PROVE  /\ Admits("scaffold") => "ProjectPlan" \in signed
           /\ Admits("plan tests") => {"ProjectPlan", "ScaffoldPlan"} \subseteq signed
           /\ \A c \in AtTestLocked : Admits(c) => "locked" \in has["TestPlan"]
<1>1. {"scaffold", "plan tests"} \subseteq Command /\ AtTestLocked \subseteq Command
  BY DEF Command, AtPlanning, AtScaffolded
<1>2. Required("scaffold") = PLANNING /\ Required("plan tests") = SCAFFOLDED
  <2>1. /\ "scaffold" \in AtPlanning
        /\ "scaffold" \notin AtInit \cup AtScaffolded \cup AtTestLocked
    BY DEF AtInit, AtPlanning, AtScaffolded, AtTestLocked
  <2>2. /\ "plan tests" \in AtScaffolded
        /\ "plan tests" \notin AtInit \cup AtPlanning \cup AtTestLocked
    BY DEF AtInit, AtPlanning, AtScaffolded, AtTestLocked
  <2> QED
    BY <2>1, <2>2 DEF Required
<1>3. \A c \in AtTestLocked : Required(c) = TEST_LOCKED
  BY DEF Required, AtInit, AtPlanning, AtScaffolded, AtTestLocked
<1>4. PLANNING >= PLANNING /\ SCAFFOLDED >= PLANNING /\ SCAFFOLDED >= SCAFFOLDED
  BY DEF PLANNING, SCAFFOLDED
<1>5. Admits("scaffold") => "ProjectPlan" \in signed
  BY <1>1, <1>2, <1>4, GateIsSound
<1>6. Admits("plan tests") => {"ProjectPlan", "ScaffoldPlan"} \subseteq signed
  BY <1>1, <1>2, <1>4, GateIsSound
<1>7. \A c \in AtTestLocked : Admits(c) => "locked" \in has["TestPlan"]
  BY <1>1, <1>3, GateIsSound
<1> QED
  BY <1>5, <1>6, <1>7

LEMMA InitInv == Init => Inv
  BY DEF Init, Inv, TypeOK, Signed, Chain, ChainOfApprovals, Approved, Type

LEMMA StepInv == Inv /\ [Next]_vars => Inv'
<1> SUFFICES ASSUME Inv, [Next]_vars PROVE Inv'
  OBVIOUS
<1>0. TypeOK /\ Signed /\ Chain
  BY DEF Inv
<1> USE DEF TypeOK, Signed, Chain, ChainOfApprovals, Approved, Type, Status
<1>1. CASE InitProject
  BY <1>0, <1>1 DEF InitProject, Inv
<1>2. ASSUME NEW c \in DOMAIN Produces, Plan(c) PROVE Inv'
  <2>1. c \in {"plan project", "plan architecture", "plan tests"}
    BY DEF Produces
  <2>2. Produces[c] \in Type /\ (Produces[c] = "TestPlan" => c = "plan tests")
        /\ Produces[c] # "ScaffoldPlan"
    BY <2>1 DEF Produces
  <2>3. c = "plan tests" => {"ProjectPlan", "ScaffoldPlan"} \subseteq signed
    BY <1>2, GatedCommands DEF Plan
  <2>4. /\ has' \in [Type -> SUBSET Status]
        /\ \A t \in Type : has'[t] = has[t] \/ has'[t] = has[t] \cup {"draft"}
        /\ \A t \in Type : t # Produces[c] => has'[t] = has[t]
        /\ UNCHANGED <<initialised, files, signed, worked>>
    BY <1>0, <1>2, <2>2 DEF Plan
  <2>5. Chain'
    BY <1>0, <2>2, <2>3, <2>4
  <2> QED
    BY <1>0, <2>4, <2>5 DEF Inv
<1>3. ASSUME NEW stub \in BOOLEAN, NEW confirmed \in BOOLEAN, Scaffold(stub, confirmed)
      PROVE  Inv'
  <2>1. "ProjectPlan" \in signed
    BY <1>3, GatedCommands DEF Scaffold
  <2> QED
    BY <1>0, <1>3, <2>1 DEF Scaffold, Inv
<1>4. ASSUME NEW t \in Type, Approve(t) PROVE Inv'
  <2>1. has' \in [Type -> SUBSET Status] /\ \A u \in Type \ {t} : has'[u] = has[u]
    BY <1>0, <1>4, MoveTyped DEF Approve
  <2>2. /\ has[t] # {} /\ ("locked" \in has[t] => "locked" \in has'[t])
        /\ \A s \in has'[t] : s \in has[t] \/ s = "approved"
        /\ UNCHANGED <<initialised, files, worked>> /\ signed' = signed \cup {t}
    BY SMTT(30), <1>0, <1>4, MoveTyped DEF Approve, Move
  <2>3. TypeOK' /\ Signed'
    BY <1>0, <2>1, <2>2
  <2>4. Chain'
    BY <1>0, <2>1, <2>2
  <2> QED
    BY <2>3, <2>4 DEF Inv
<1>5. ASSUME NEW t \in Type, Revoke(t) PROVE Inv'
  <2>1. has' \in [Type -> SUBSET Status] /\ \A u \in Type \ {t} : has'[u] = has[u]
    BY <1>0, <1>5, MoveTyped DEF Revoke
  <2>2. /\ has[t] # {} /\ ("locked" \in has[t] => "locked" \in has'[t])
        /\ \A s \in has'[t] : s \in has[t] \/ s = "draft"
        /\ UNCHANGED <<initialised, files, worked>> /\ signed' = signed
    BY SMTT(30), <1>0, <1>5, MoveTyped DEF Revoke, Move
  <2>3. TypeOK' /\ Signed'
    BY <1>0, <2>1, <2>2
  <2>4. Chain'
    BY <1>0, <2>1, <2>2
  <2> QED
    BY <2>3, <2>4 DEF Inv
<1>6. CASE Lock \/ WebLock
  <2>1. /\ Move("TestPlan", "approved", "locked")
        /\ UNCHANGED <<initialised, files, signed, worked>>
    BY <1>6 DEF Lock, WebLock
  <2>2. has' \in [Type -> SUBSET Status] /\ \A u \in Type \ {"TestPlan"} : has'[u] = has[u]
    BY <1>0, <2>1, MoveTyped
  <2>3. "approved" \in has["TestPlan"] /\ "locked" \in has'["TestPlan"]
    BY <1>0, <2>1 DEF Move
  <2> QED
    BY <1>0, <2>1, <2>2, <2>3 DEF Inv
<1>7. ASSUME NEW c \in AtTestLocked, Work(c) PROVE Inv'
  <2>1. "locked" \in has["TestPlan"]
    BY <1>7, GatedCommands DEF Work
  <2> QED
    BY <1>0, <1>7, <2>1 DEF Work, Inv
<1>8. CASE UNCHANGED vars
  BY <1>0, <1>8 DEF vars, Inv
<1> QED
  BY <1>1, <1>2, <1>3, <1>4, <1>5, <1>6, <1>7, <1>8 DEF Next

(* The variables keep their types, for every wiring of the commands.       *)
THEOREM GateTyping == Spec => []TypeOK
<1>1. Inv => TypeOK
  BY DEF Inv
<1> QED
  BY <1>1, InitInv, StepInv, PTL DEF Spec

(* The order of the work, for every wiring of the commands.                *)
THEOREM ApprovalsComeFirst == Spec => []ChainOfApprovals
<1>1. Inv => ChainOfApprovals
  BY DEF Inv, Chain
<1> QED
  BY <1>1, InitInv, StepInv, PTL DEF Spec

(* Nothing leads back from the last phase.                                 *)
THEOREM LastPhaseStays == Spec => TestLockedStays
<1>1. Inv /\ [Next]_vars => [Phase = TEST_LOCKED => Phase' = TEST_LOCKED]_vars
  <2> SUFFICES ASSUME Inv, [Next]_vars, Phase = TEST_LOCKED PROVE Phase' = TEST_LOCKED
    OBVIOUS
  <2>1. initialised /\ "locked" \in has["TestPlan"]
    BY DEF Phase, UNINIT, INIT, PLANNING, SCAFFOLDED, TEST_LOCKED
  <2>2. initialised' /\ "locked" \in has'["TestPlan"]
    <3> USE <2>1 DEF Inv, TypeOK, Type, Status
    <3>1. ASSUME NEW t \in Type, NEW from \in {"draft", "approved"}, NEW to \in Status,
                 Move(t, from, to)
          PROVE  "locked" \in has'["TestPlan"]
      BY <3>1 DEF Move
    <3>2. CASE \E t \in Type : Approve(t) \/ Revoke(t)
      BY <3>1, <3>2 DEF Approve, Revoke
    <3>3. CASE Lock \/ WebLock
      BY <3>1, <3>3 DEF Lock, WebLock
    <3>4. CASE \E c \in DOMAIN Produces : Plan(c)
      BY <3>4 DEF Plan
    <3>5. CASE \E stub, confirmed \in BOOLEAN : Scaffold(stub, confirmed)
      BY <3>5 DEF Scaffold
    <3>6. CASE InitProject \/ (\E c \in AtTestLocked : Work(c)) \/ UNCHANGED vars
      BY <3>6 DEF InitProject, Work, vars
    <3> QED
      BY <3>2, <3>3, <3>4, <3>5, <3>6 DEF Next
  <2> QED
    BY <2>2 DEF Phase
<1> QED
  BY <1>1, InitInv, StepInv, PTL DEF Spec, TestLockedStays
=============================================================================
