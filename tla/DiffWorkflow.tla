---------------------------- MODULE DiffWorkflow ----------------------------
(***************************************************************************)
(* How generated code reaches the repository: `impl` saves a diff,         *)
(* `review` has a human approve or reject it, `apply` runs git apply on    *)
(* it.  The commands are processes that share                              *)
(*                                                                         *)
(*   - audit/diffs/_index.json (DiffService): the status of every diff,    *)
(*     rewritten whole on every change and never locked,                   *)
(*   - audit/diffs/<time>_<target>.diff: the texts.  generate_diff makes   *)
(*     the text out of the target's name alone, so a target has one text   *)
(*     and `texts` is the set of targets with a file of it,                *)
(*   - the repository, where a text applies once.                          *)
(*                                                                         *)
(* All of this happens behind the phase gate, that is, after the TestPlan  *)
(* was locked (see PhaseGate).                                             *)
(***************************************************************************)
EXTENDS Naturals

CONSTANTS
    File,        \* target files
    Test,        \* those that match DiffExecutor.TEST_FILE_PATTERNS
    Flat,        \* those whose path has no directory in it
    Occurs,      \* <<f, g>>: the safe name of f occurs in the name of g's .diff
    Proc,        \* processes that run commands
    Serialised,  \* TRUE: a command starts only when no other is under way
    MaxDiff      \* bound on the number of diffs generated

ASSUME DiffAssumption ==
    /\ File # {}
    /\ Test \subseteq File
    /\ Flat \subseteq File
    /\ Occurs \subseteq File \X File
    /\ \A f \in File : <<f, f>> \in Occurs
    /\ Serialised \in BOOLEAN
    /\ MaxDiff \in Nat

(* No target's name is part of another's.                                  *)
NamesApart == \A f, g \in File : <<f, g>> \in Occurs => f = g

VARIABLES
    index,      \* index[d]: the status of diff d in _index.json
    torn,       \* _index.json is not valid JSON: truncated, or overwritten twice
    texts,      \* the targets that have a .diff file
    target,     \* target[d]: the file diff d is for
    generated,  \* number of diffs generated: diff d is the d-th, by created_at
    repo,       \* repo[f]: "todo" before the text of f is applied, then "done"
    pc,         \* pc[p]: where process p stands
    chosen,     \* chosen[p]: the diff it works on, 0 for none
    path,       \* path[p]: the .diff file it applies, named by its target
    verdict,    \* verdict[p]: the status it is going to write
    snapshot,   \* snapshot[p]: the index it loaded
    endorsed,   \* history: the diffs a human chose to approve
    cut         \* history: a command died between git apply and its last write

shared == <<index, torn, texts, target, generated, repo>>
local  == <<pc, chosen, path, verdict, snapshot>>
history == <<endorsed, cut>>
vars   == <<shared, local, history>>

Diff    == 1 .. MaxDiff
Status  == {"absent", "pending", "approved", "rejected", "applied"}
Steps   == {"off", "generated", "texted", "prompted", "confirming", "applying",
            "patched", "updating", "writing"}

TypeOK ==
    /\ index \in [Diff -> Status]
    /\ torn \in BOOLEAN
    /\ texts \subseteq File
    /\ target \in [Diff -> File]
    /\ generated \in 0 .. MaxDiff
    /\ repo \in [File -> {"todo", "done"}]
    /\ pc \in [Proc -> Steps]
    /\ chosen \in [Proc -> Diff \cup {0}]
    /\ path \in [Proc -> File]
    /\ verdict \in [Proc -> Status]
    /\ snapshot \in [Proc -> [Diff -> Status]]
    /\ endorsed \subseteq Diff
    /\ cut \in BOOLEAN

-----------------------------------------------------------------------------
(* Helpers *)

With(status) == {d \in Diff : index[d] = status}

Newest(S) == {d \in S : \A e \in S : e <= d}

Alone(p) == Serialised => \A q \in Proc \ {p} : pc[q] = "off"

NoDiffs == [d \in Diff |-> "absent"]
AnyFile == CHOOSE f \in File : TRUE

(* The command ends and its process with it.                               *)
Leave(p) ==
    /\ pc' = [pc EXCEPT ![p] = "off"]
    /\ chosen' = [chosen EXCEPT ![p] = 0]
    /\ path' = [path EXCEPT ![p] = AnyFile]
    /\ verdict' = [verdict EXCEPT ![p] = "absent"]
    /\ snapshot' = [snapshot EXCEPT ![p] = NoDiffs]

(* SafetyEnforcer.check_test_lock_intact: the hashes of the test files are *)
(* those of the lock file.                                                 *)
TestsIntact == \A f \in Test : repo[f] = "todo"

(* A lookup that takes any diff for the one the file belongs to.           *)
MatchingAny(g) == IF torn THEN {} ELSE {d \in Diff : index[d] # "absent"}

(* The diffs DiffExecutor._load_diff takes the file of g for: those whose  *)
(* target is part of its path.  A path with a directory in it never is:    *)
(* save_diff has put "_" for every "/".  An index that does not parse      *)
(* counts as empty.                                                        *)
Matching(g) ==
    IF torn THEN {}
    ELSE {d \in Diff : /\ index[d] # "absent"
                       /\ target[d] \in Flat
                       /\ <<target[d], g>> \in Occurs}

-----------------------------------------------------------------------------
Init ==
    /\ index = NoDiffs
    /\ torn = FALSE
    /\ texts = {}
    /\ target = [d \in Diff |-> AnyFile]
    /\ generated = 0
    /\ repo = [f \in File |-> "todo"]
    /\ pc = [p \in Proc |-> "off"]
    /\ chosen = [p \in Proc |-> 0]
    /\ path = [p \in Proc |-> AnyFile]
    /\ verdict = [p \in Proc |-> "absent"]
    /\ snapshot = [p \in Proc |-> NoDiffs]
    /\ endorsed = {}
    /\ cut = FALSE

(* impl: generate a diff and show it.                                      *)
Generate(p, f) ==
    /\ pc[p] = "off" /\ Alone(p)
    /\ TestsIntact
    /\ generated < MaxDiff
    /\ generated' = generated + 1
    /\ target' = [target EXCEPT ![generated + 1] = f]
    /\ chosen' = [chosen EXCEPT ![p] = generated + 1]
    /\ pc' = [pc EXCEPT ![p] = "generated"]
    /\ UNCHANGED <<index, torn, texts, repo, path, verdict, snapshot, history>>

(* save_diff: first the text ...                                           *)
SaveText(p) ==
    /\ pc[p] = "generated"
    /\ texts' = texts \cup {target[chosen[p]]}
    /\ pc' = [pc EXCEPT ![p] = "texted"]
    /\ UNCHANGED <<index, torn, target, generated, repo, chosen, path, verdict,
                   snapshot, history>>

(* ... then its entry in the index (_update_index loads the index).        *)
AddToIndex(p) ==
    /\ pc[p] = "texted"
    /\ ~torn
    /\ snapshot' = [snapshot EXCEPT ![p] = index]
    /\ verdict' = [verdict EXCEPT ![p] = "pending"]
    /\ pc' = [pc EXCEPT ![p] = "updating"]
    /\ UNCHANGED <<shared, chosen, path, history>>

(* A review that offers decided diffs too.                                 *)
ReviewOfAny(p) ==
    /\ pc[p] = "off" /\ Alone(p)
    /\ ~torn
    /\ \E d \in Newest(Diff \ With("absent")) : chosen' = [chosen EXCEPT ![p] = d]
    /\ pc' = [pc EXCEPT ![p] = "prompted"]
    /\ UNCHANGED <<shared, path, verdict, snapshot, history>>

(* review: show the most recent pending diff and ask.                      *)
Review(p) ==
    /\ pc[p] = "off" /\ Alone(p)
    /\ ~torn
    /\ \E d \in Newest(With("pending")) : chosen' = [chosen EXCEPT ![p] = d]
    /\ pc' = [pc EXCEPT ![p] = "prompted"]
    /\ UNCHANGED <<shared, path, verdict, snapshot, history>>

(* The answer.  _update_status loads the index again and does not look at  *)
(* the status the diff has by now.                                         *)
Decide(p, v) ==
    /\ pc[p] = "prompted"
    /\ ~torn
    /\ index[chosen[p]] # "absent"
    /\ snapshot' = [snapshot EXCEPT ![p] = index]
    /\ verdict' = [verdict EXCEPT ![p] = v]
    /\ endorsed' = IF v = "approved" THEN endorsed \cup {chosen[p]} ELSE endorsed
    /\ pc' = [pc EXCEPT ![p] = "updating"]
    /\ UNCHANGED <<shared, chosen, path, cut>>

(* An apply that takes the most recent diff, approved or not.              *)
ApplyOfAny(p) ==
    /\ pc[p] = "off" /\ Alone(p)
    /\ TestsIntact
    /\ ~torn
    /\ \E d \in Newest(Diff \ With("absent")), g \in texts :
          /\ <<target[d], g>> \in Occurs
          /\ chosen' = [chosen EXCEPT ![p] = d]
          /\ path' = [path EXCEPT ![p] = g]
    /\ pc' = [pc EXCEPT ![p] = "confirming"]
    /\ UNCHANGED <<shared, verdict, snapshot, history>>

(* apply: show the most recent approved diff, take a .diff file that has   *)
(* its target's name in its own (whichever the directory lists first) and  *)
(* ask.                                                                    *)
Apply(p) ==
    /\ pc[p] = "off" /\ Alone(p)
    /\ TestsIntact
    /\ ~torn
    /\ \E d \in Newest(With("approved")), g \in texts :
          /\ <<target[d], g>> \in Occurs
          /\ chosen' = [chosen EXCEPT ![p] = d]
          /\ path' = [path EXCEPT ![p] = g]
    /\ pc' = [pc EXCEPT ![p] = "confirming"]
    /\ UNCHANGED <<shared, verdict, snapshot, history>>

(* An executor that leaves out the test lock.                              *)
CheckNoLock(p) ==
    /\ pc[p] = "confirming"
    /\ \/ Matching(path[p]) = {} /\ chosen' = [chosen EXCEPT ![p] = 0]
       \/ \E d \in Newest(Matching(path[p])) :
             index[d] = "approved" /\ chosen' = [chosen EXCEPT ![p] = d]
    /\ pc' = [pc EXCEPT ![p] = "applying"]
    /\ UNCHANGED <<shared, path, verdict, snapshot, history>>

(* DiffExecutor, up to git apply: find the diff the file belongs to, check *)
(* that it is approved and that what it touches is no (locked) test.  When *)
(* no diff is found the file's own text is looked at and nothing asked     *)
(* about approval.                                                         *)
Check(p) ==
    /\ pc[p] = "confirming"
    /\ \/ /\ Matching(path[p]) = {}
          /\ path[p] \notin Test
          /\ chosen' = [chosen EXCEPT ![p] = 0]
       \/ \E d \in Newest(Matching(path[p])) :
             /\ index[d] = "approved"
             /\ target[d] \notin Test
             /\ chosen' = [chosen EXCEPT ![p] = d]
    /\ pc' = [pc EXCEPT ![p] = "applying"]
    /\ UNCHANGED <<shared, path, verdict, snapshot, history>>

(* An executor that never marks what it applied.                           *)
GitApplyOnly(p) ==
    /\ pc[p] = "applying"
    /\ repo[path[p]] = "todo"
    /\ repo' = [repo EXCEPT ![path[p]] = "done"]
    /\ Leave(p)
    /\ UNCHANGED <<index, torn, texts, target, generated, history>>

(* git apply: it succeeds where the text applies.                          *)
GitApply(p) ==
    /\ pc[p] = "applying"
    /\ repo[path[p]] = "todo"
    /\ repo' = [repo EXCEPT ![path[p]] = "done"]
    /\ IF chosen[p] = 0 THEN Leave(p)
       ELSE /\ pc' = [pc EXCEPT ![p] = "patched"]
            /\ UNCHANGED <<chosen, path, verdict, snapshot>>
    /\ UNCHANGED <<index, torn, texts, target, generated, history>>

(* A mark that DiffStatus does not know.                                   *)
MarkDone(p) ==
    /\ pc[p] = "patched"
    /\ ~torn
    /\ snapshot' = [snapshot EXCEPT ![p] = index]
    /\ verdict' = [verdict EXCEPT ![p] = "done"]
    /\ pc' = [pc EXCEPT ![p] = "updating"]
    /\ UNCHANGED <<shared, chosen, path, history>>

(* mark_applied, for the diff the executor found.                          *)
Mark(p) ==
    /\ pc[p] = "patched"
    /\ ~torn
    /\ index[chosen[p]] # "absent"
    /\ snapshot' = [snapshot EXCEPT ![p] = index]
    /\ verdict' = [verdict EXCEPT ![p] = "applied"]
    /\ pc' = [pc EXCEPT ![p] = "updating"]
    /\ UNCHANGED <<shared, chosen, path, history>>

(* _save_index: open(.., "w") truncates ...                                *)
OpenIndex(p) ==
    /\ pc[p] = "updating"
    /\ torn' = TRUE
    /\ pc' = [pc EXCEPT ![p] = "writing"]
    /\ UNCHANGED <<index, texts, target, generated, repo, chosen, path, verdict,
                   snapshot, history>>

(* ... and the index that was loaded goes out with one status changed.  If *)
(* another process has written since the truncation, the tail of its text  *)
(* may be left over.                                                       *)
WriteIndex(p) ==
    /\ pc[p] = "writing"
    /\ index' = [snapshot[p] EXCEPT ![chosen[p]] = verdict[p]]
    /\ torn' \in IF torn THEN {FALSE} ELSE BOOLEAN
    /\ Leave(p)
    /\ UNCHANGED <<texts, target, generated, repo, history>>

(* The command ends where it stands: a dry run, "skip", an answer of no,   *)
(* an index that does not parse, an executor that refuses, a failed git    *)
(* apply - or a crash.                                                     *)
Stop(p) ==
    /\ pc[p] # "off"
    /\ Leave(p)
    /\ cut' = (cut \/ pc[p] \in {"patched", "updating", "writing"})
    /\ UNCHANGED <<shared, endorsed>>

Step(p) ==
    \/ \E f \in File : Generate(p, f)
    \/ SaveText(p)
    \/ AddToIndex(p)
    \/ Review(p)
    \/ \E v \in {"approved", "rejected"} : Decide(p, v)
    \/ Apply(p)
    \/ Check(p)
    \/ GitApply(p)
    \/ Mark(p)
    \/ OpenIndex(p)
    \/ WriteIndex(p)
    \/ Stop(p)

Next == \E p \in Proc : Step(p)

Spec == Init /\ [][Next]_vars

-----------------------------------------------------------------------------
(* Properties *)

(* No file of the repository is changed by a diff unless a human approved  *)
(* a diff of that file, however commands interleave and whatever is lost   *)
(* from the index: the promise of the review step.                         *)
OnlyReviewedCode ==
    \A f \in File : repo[f] = "done" => \E d \in endorsed : target[d] = f

(* "Once locked, tests cannot be modified by automation": a file that the  *)
(* executor takes for a test is never changed by a diff.                   *)
TestsUntouched == \A f \in Test : repo[f] = "todo"

(* A diff the index calls applied is in the repository: mark_applied comes *)
(* after git apply, and the diff it marks is the one git was given.        *)
AppliedIsReal ==
    \A d \in Diff : index[d] = "applied" => repo[target[d]] = "done"

(* A verdict is final: what was rejected or applied stays so.  No status   *)
(* check says so; it takes commands that do not overlap, so that no answer *)
(* at a prompt is older than the index it changes.                         *)
VerdictsFinal ==
    [][\A d \in Diff : index[d] \in {"rejected", "applied"} =>
                          index'[d] = index[d]]_vars

(* Once all commands have run their course, a text that is in the          *)
(* repository has a diff the index calls applied: nothing that was applied *)
(* is still offered as "approved" only ("APPLIED: Diff has been applied to *)
(* the codebase").  The executor achieves it for targets without a         *)
(* directory; it finds no diff for the others, and marks none.             *)
FlatMarkedAtRest ==
    (~cut /\ \A p \in Proc : pc[p] = "off") =>
       \A f \in Flat : repo[f] = "done" =>
          \E d \in Diff : target[d] = f /\ index[d] = "applied"
=============================================================================
