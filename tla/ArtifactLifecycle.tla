------------------------- MODULE ArtifactLifecycle -------------------------
(***************************************************************************)
(* What the artifact store promises its users: every artifact walks        *)
(*                                                                         *)
(*      absent -> draft <-> approved -> locked                             *)
(*                                                                         *)
(* its payload changes in draft only, a test plan that is locked never     *)
(* changes again, and what can be lost in a crash is an artifact that      *)
(* nobody has locked.  Where migrations are run, a locked one can be lost  *)
(* too, and a rollback takes any artifact back to what was once kept of    *)
(* it.  ArtifactStore implements this as long as commands do not overlap.  *)
(***************************************************************************)
EXTENDS Naturals

CONSTANTS
    Artifact,    \* artifact ids
    TestPlan,    \* those whose type is TestPlan: the only ones lock() accepts
    MaxRev,      \* bound on payload revisions
    Migrations   \* TRUE: the migration commands are used

VARIABLES
    state,  \* state[a] = [status, rev]: the artifact's status and payload
    kept    \* kept[a]: the states of a that backups hold

Lost == [status |-> "lost", rev |-> 0]

Init ==
    /\ state = [a \in Artifact |-> [status |-> "absent", rev |-> 0]]
    /\ kept = [a \in Artifact |-> {}]

Become(a, to) ==
    /\ state' = [state EXCEPT ![a] = to]
    /\ UNCHANGED kept

Move(a, from, to) ==
    /\ state[a].status = from
    /\ Become(a, [status |-> to, rev |-> state[a].rev])

Create(a)  == state[a].status = "absent" /\ Become(a, [status |-> "draft", rev |-> 0])
Approve(a) == Move(a, "draft", "approved")
Revoke(a)  == Move(a, "approved", "draft")
Lock(a)    == a \in TestPlan /\ Move(a, "approved", "locked")

Modify(a) ==
    /\ state[a].status = "draft"
    /\ state[a].rev < MaxRev
    /\ Become(a, [status |-> "draft", rev |-> state[a].rev + 1])

(* A crash in the middle of a write loses the file.                        *)
Lose(a) ==
    /\ state[a].status = "locked" => Migrations
    /\ Become(a, Lost)

(* A migration keeps a copy, which may itself be cut short.                *)
Keep(a) ==
    /\ Migrations
    /\ state[a].status \in {"draft", "approved", "locked"}
    /\ \E copy \in {state[a], Lost} : kept' = [kept EXCEPT ![a] = @ \cup {copy}]
    /\ UNCHANGED state

Restore(a) ==
    /\ Migrations
    /\ \E copy \in kept[a] : Become(a, copy)

Next == \E a \in Artifact :
           \/ Create(a) \/ Modify(a) \/ Approve(a) \/ Revoke(a) \/ Lock(a)
           \/ Lose(a) \/ Keep(a) \/ Restore(a)

Spec == Init /\ [][Next]_<<state, kept>>
=============================================================================
