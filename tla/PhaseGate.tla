----------------------------- MODULE PhaseGate -----------------------------
(***************************************************************************)
(* The order in which a project may be worked on.  Two gates stand before  *)
(* a command:                                                              *)
(*                                                                         *)
(*   - PhaseService derives the project's phase from the artifacts and     *)
(*     refuses a command whose phase has not been reached - but only a     *)
(*     PhaseService that was given an ArtifactService looks at them;       *)
(*   - ContextBuilder refuses a compiler pass that lacks the artifacts it  *)
(*     requires - among those its caller handed to it.                     *)
(*                                                                         *)
(* Informed and Supplies say how the commands are wired to the two.  The   *)
(* web API approves, revokes and locks past both.                          *)
(***************************************************************************)
EXTENDS Naturals

CONSTANTS
    Informed,  \* commands whose PhaseService is given an ArtifactService
    Supplies   \* TRUE: commands hand the stored artifacts to the builder

AtInit       == {"plan project", "approve", "validate", "override", "resume"}
AtPlanning   == {"plan architecture", "scaffold"}
AtScaffolded == {"plan tests", "lock"}
AtTestLocked == {"plan impl", "impl", "review", "apply", "test", "diagnose",
                 "plan refactor", "refactor check", "refactor dry-run",
                 "refactor apply"}
Command      == {"init"} \cup AtInit \cup AtPlanning \cup AtScaffolded \cup AtTestLocked

ASSUME GateAssumption ==
    /\ Informed \subseteq Command
    /\ Supplies \in BOOLEAN

Type   == {"ProjectPlan", "ArchitecturePlan", "ScaffoldPlan", "TestPlan"}
Status == {"draft", "approved", "locked"}

(* Phase, in the order of the enumeration; no state is ever IMPLEMENTING.  *)
UNINIT      == 0
INIT        == 1
PLANNING    == 2
SCAFFOLDED  == 3
TEST_LOCKED == 4

VARIABLES
    initialised,  \* the .project directory exists
    has,          \* has[t]: the statuses artifacts of type t are in
    files,        \* scaffold has created the project's files
    signed,       \* history: the types that had an artifact approved
    worked        \* history: a command of the last phase ran

vars == <<initialised, has, files, signed, worked>>

TypeOK ==
    /\ initialised \in BOOLEAN
    /\ has \in [Type -> SUBSET Status]
    /\ files \in BOOLEAN
    /\ signed \subseteq Type
    /\ worked \in BOOLEAN

-----------------------------------------------------------------------------
(* The phase gate *)

Approved(t) == has[t] \cap {"approved", "locked"} # {}

(* A phase that takes a drafted ScaffoldPlan for an approved one.          *)
PhaseOfDraft ==
    IF ~initialised THEN UNINIT
    ELSE IF "locked" \in has["TestPlan"] THEN TEST_LOCKED
    ELSE IF has["ScaffoldPlan"] # {} THEN SCAFFOLDED
    ELSE IF Approved("ProjectPlan") THEN PLANNING
    ELSE INIT

(* get_current_phase of a PhaseService that sees the artifacts.            *)
Phase ==
    IF ~initialised THEN UNINIT
    ELSE IF "locked" \in has["TestPlan"] THEN TEST_LOCKED
    ELSE IF Approved("ScaffoldPlan") THEN SCAFFOLDED
    ELSE IF Approved("ProjectPlan") THEN PLANNING
    ELSE INIT

(* ... and of the one command c makes.                                     *)
PhaseFor(c) ==
    IF c \in Informed \/ ~initialised THEN Phase ELSE INIT

(* COMMAND_PHASES.                                                         *)
Required(c) ==
    CASE c \in AtInit       -> INIT
      [] c \in AtPlanning   -> PLANNING
      [] c \in AtScaffolded -> SCAFFOLDED
      [] c \in AtTestLocked -> TEST_LOCKED
      [] OTHER              -> UNINIT

(* require_phase does not raise.                                           *)
Admits(c) == PhaseFor(c) >= Required(c)

(* A builder that is handed nothing.                                       *)
ServedAlone(c) == c = "plan project"

(* validate_inputs finds what the pass of command c requires: any artifact *)
(* that was handed over passes for every type.                             *)
Served(c) ==
    \/ c = "plan project"
    \/ Supplies /\ \E t \in Type : has[t] # {}

-----------------------------------------------------------------------------
Init ==
    /\ initialised = FALSE
    /\ has = [t \in Type |-> {}]
    /\ files = FALSE
    /\ signed = {}
    /\ worked = FALSE

InitProject ==
    /\ ~initialised
    /\ initialised' = TRUE
    /\ UNCHANGED <<has, files, signed, worked>>

Produces == [c \in {"plan project", "plan architecture", "plan tests"} |->
                CASE c = "plan project"      -> "ProjectPlan"
                  [] c = "plan architecture" -> "ArchitecturePlan"
                  [] c = "plan tests"        -> "TestPlan"]

(* plan project, plan architecture, plan tests: a draft of their type.     *)
Plan(c) ==
    /\ Admits(c) /\ Served(c)
    /\ has' = [has EXCEPT ![Produces[c]] = @ \cup {"draft"}]
    /\ UNCHANGED <<initialised, files, signed, worked>>

(* scaffold saves its plan, then asks whether to create the files; with    *)
(* --stub no pass is run.                                                  *)
Scaffold(stub, confirmed) ==
    /\ Admits("scaffold")
    /\ stub \/ Served("scaffold")
    /\ has' = [has EXCEPT !["ScaffoldPlan"] = @ \cup {"draft"}]
    /\ files' = (files \/ confirmed)
    /\ UNCHANGED <<initialised, signed, worked>>

(* An artifact of type t goes from one status to another; there may be     *)
(* more of its kind.                                                       *)
Move(t, from, to) ==
    /\ from \in has[t]
    /\ \E rest \in {has[t], has[t] \ {from}} : has' = [has EXCEPT ![t] = rest \cup {to}]

(* approve, by the CLI or the web API.                                     *)
Approve(t) ==
    /\ Admits("approve")
    /\ Move(t, "draft", "approved")
    /\ signed' = signed \cup {t}
    /\ UNCHANGED <<initialised, files, worked>>

(* A revoke that forgets that locks are forever.                           *)
RevokeAny(t) ==
    /\ \E s \in {"approved", "locked"} : Move(t, s, "draft")
    /\ UNCHANGED <<initialised, files, signed, worked>>

(* The web API revokes an approval, in any phase.                          *)
Revoke(t) ==
    /\ Move(t, "approved", "draft")
    /\ UNCHANGED <<initialised, files, signed, worked>>

(* A lock that leaves a status of its own making.                          *)
LockFinal ==
    /\ Admits("lock")
    /\ Move("TestPlan", "approved", "final")
    /\ UNCHANGED <<initialised, files, signed, worked>>

(* lock: the CLI asks the gate, the web API does not.                      *)
Lock ==
    /\ Admits("lock")
    /\ Move("TestPlan", "approved", "locked")
    /\ UNCHANGED <<initialised, files, signed, worked>>

WebLock ==
    /\ Move("TestPlan", "approved", "locked")
    /\ UNCHANGED <<initialised, files, signed, worked>>

(* The commands of the last phase.  Those that plan run a compiler pass    *)
(* (impl too, unless --stub is given).                                     *)
Work(c) ==
    /\ Admits(c)
    /\ c \in {"plan impl", "plan refactor"} => Served(c)
    /\ worked' = TRUE
    /\ UNCHANGED <<initialised, has, files, signed>>

Next ==
    \/ InitProject
    \/ \E c \in DOMAIN Produces : Plan(c)
    \/ \E stub, confirmed \in BOOLEAN : Scaffold(stub, confirmed)
    \/ \E t \in Type : Approve(t) \/ Revoke(t)
    \/ Lock
    \/ WebLock
    \/ \E c \in AtTestLocked : Work(c)

Spec == Init /\ [][Next]_vars

(* A user who follows the tutorial and takes no refusal for an answer:     *)
(* every command it names is tried again and again.  The web API is under  *)
(* no such obligation.                                                     *)
Fairness ==
    /\ SF_vars(InitProject)
    /\ \A c \in DOMAIN Produces : SF_vars(Plan(c))
    /\ SF_vars(Scaffold(FALSE, TRUE))
    /\ \A t \in Type : SF_vars(Approve(t))
    /\ SF_vars(Lock)

FairSpec == Spec /\ Fairness

-----------------------------------------------------------------------------
(* Properties *)

(* The order of the work, however the commands are wired and whatever is   *)
(* revoked in between: files only after a human approved a ProjectPlan,    *)
(* tests only after one also approved a ScaffoldPlan, and nothing is       *)
(* implemented before a TestPlan is locked.                                *)
ChainOfApprovals ==
    /\ files => "ProjectPlan" \in signed
    /\ has["TestPlan"] # {} => {"ProjectPlan", "ScaffoldPlan"} \subseteq signed
    /\ worked => "locked" \in has["TestPlan"] /\ "TestPlan" \in signed

(* The last phase is for good: no step of the CLI or of the web API leads  *)
(* back from it, although the phase is computed anew for every command.    *)
TestLockedStays == [][Phase = TEST_LOCKED => Phase' = TEST_LOCKED]_vars

(* The tutorial's promise: following its steps gets the tests locked,      *)
(* unless the last approval of some type is revoked for ever.              *)
WorkflowCompletes ==
    <>[][\A t \in Type : Approved(t) => Approved(t)']_vars
       => <>("locked" \in has["TestPlan"])
=============================================================================
