------------------------ MODULE CrossFileRefactorer ------------------------
(***************************************************************************)
(* One transaction of the CrossFileRefactorer: file operations are added,  *)
(* commit executes them in order, and undoes those that were completed, in *)
(* reverse order, when one fails.  What an operation needs to be undone it *)
(* keeps in memory, as text: read and written again, a file has the        *)
(* newlines of the platform, whichever it had.  rollback() undoes a        *)
(* transaction later.  Any call to the file system may fail, before it     *)
(* changes anything or half-way.                                           *)
(***************************************************************************)
EXTENDS Naturals, Sequences

CONSTANTS
    Path,
    MaxOps          \* bound on the operations of a transaction

ASSUME RefactorAssumption == MaxOps \in Nat

VARIABLES
    file,       \* file[p]: its content
    ops,        \* transaction.operations
    state,      \* transaction.state
    at,         \* how many operations are executed, or left to be undone
    completed,  \* the operations marked completed: the first ones
    kept,       \* kept[i]: original_content of operation i
    undoing,    \* _rollback_operations is under way
    result,     \* the state the transaction gets when everything is undone
    before,     \* history: the files when commit began
    lossy       \* history: something happened that cannot be undone

refactorVars == <<file, ops, state, at, completed, kept, undoing, result, before, lossy>>

(* "foreign" is the text of "theirs" with the newlines of another platform. *)
Content == {"absent", "theirs", "foreign", "other", "ours", "torn"}

(* What read_text returns of a file, and write_text then makes of it.      *)
Normal(c) == IF c = "foreign" THEN "theirs" ELSE c

Operation ==
    [type : {"create", "modify", "delete"}, target : Path, source : {"none"}]
        \cup [type : {"rename", "move"}, target : Path, source : Path]

RefactorTypeOK ==
    /\ file \in [Path -> Content]
    /\ ops \in Seq(Operation)
    /\ state \in {"pending", "in_progress", "committed", "failed", "rolled_back"}
    /\ at \in 0 .. Len(ops) /\ completed \in 0 .. Len(ops)
    /\ kept \in [1 .. MaxOps -> Content]
    /\ undoing \in BOOLEAN
    /\ result \in {"failed", "rolled_back"}
    /\ before \in [Path -> Content]
    /\ lossy \in BOOLEAN

Exists(p) == file[p] # "absent"

-----------------------------------------------------------------------------
RefactorInit ==
    /\ file \in [Path -> {"absent", "theirs", "foreign", "other"}]
    /\ ops = <<>>
    /\ state = "pending"
    /\ at = 0 /\ completed = 0
    /\ kept = [i \in 1 .. MaxOps |-> "absent"]
    /\ undoing = FALSE
    /\ result = "failed"
    /\ before = file
    /\ lossy = FALSE

(* Operations may be added later too, but nothing executes them then.      *)
AddOperation(op) ==
    /\ state = "pending" /\ ~undoing
    /\ Len(ops) < MaxOps
    /\ ops' = Append(ops, op)
    /\ UNCHANGED <<file, state, at, completed, kept, undoing, result, before, lossy>>

(* Only a pending transaction can be committed.                            *)
BeginCommit ==
    /\ state = "pending" /\ ~undoing
    /\ state' = "in_progress"
    /\ before' = file
    /\ UNCHANGED <<file, ops, at, completed, kept, undoing, result, lossy>>

Current == ops[at + 1]

(* The checks before an operation.                                         *)
Feasible(op) ==
    CASE op.type = "create"             -> ~Exists(op.target)
      [] op.type \in {"modify", "delete"} -> Exists(op.target)
      [] op.type = "rename"             -> Exists(op.source) /\ ~Exists(op.target)
      [] op.type = "move"               -> Exists(op.source)

Moved(from, to) ==
    [p \in Path |-> IF p = to THEN file[from] ELSE IF p = from THEN "absent" ELSE file[p]]

Effect(op) ==
    CASE op.type \in {"create", "modify"} -> [file EXCEPT ![op.target] = "ours"]
      [] op.type = "delete"               -> [file EXCEPT ![op.target] = "absent"]
      [] op.type \in {"rename", "move"}   -> Moved(op.source, op.target)

Executing == state = "in_progress" /\ ~undoing /\ at < Len(ops)

(* A move does not check its target and overwrites it: that is lost.       *)
ExecuteOperation ==
    /\ Executing
    /\ Feasible(Current)
    /\ file' = Effect(Current)
    /\ kept' = IF Current.type \in {"modify", "delete"}
               THEN [kept EXCEPT ![at + 1] = Normal(file[Current.target])] ELSE kept
    /\ lossy' = (lossy \/ /\ Current.type = "move"
                          /\ Current.source # Current.target
                          /\ Exists(Current.target))
    /\ at' = at + 1
    /\ completed' = at + 1
    /\ UNCHANGED <<ops, state, undoing, result, before>>

(* An operation that is not feasible, or whose first call fails.  All that *)
(* were completed are undone.                                              *)
FailOperation ==
    /\ Executing
    /\ undoing' = TRUE
    /\ result' = "failed"
    /\ UNCHANGED <<file, ops, state, at, completed, kept, before, lossy>>

(* What a write, and a move across file systems, leave when they fail      *)
(* half-way: the move copies, and then removes the source.                 *)
HalfWritten(p) == [file EXCEPT ![p] = "torn"]

HalfMoved(from, to) == {HalfWritten(to), [file EXCEPT ![to] = file[from]]}

HalfDone(op) ==
    CASE op.type \in {"create", "modify"} -> {HalfWritten(op.target)}
      [] op.type = "move" /\ op.source # op.target -> HalfMoved(op.source, op.target)
      [] OTHER -> {}

(* A call that fails half-way: the operation is not one of the completed.  *)
TearOperation ==
    /\ Executing
    /\ Feasible(Current)
    /\ file' \in HalfDone(Current)
    /\ lossy' = TRUE
    /\ undoing' = TRUE
    /\ result' = "failed"
    /\ UNCHANGED <<ops, state, at, completed, kept, before>>

AllExecuted == state = "in_progress" /\ ~undoing /\ at = Len(ops)

Commit ==
    /\ AllExecuted
    /\ state' = "committed"
    /\ UNCHANGED <<file, ops, at, completed, kept, undoing, result, before, lossy>>

(* The backups cannot be removed: an exception after everything was done,  *)
(* and everything is undone.                                               *)
FailCleanup ==
    /\ AllExecuted
    /\ state' = "committed"
    /\ undoing' = TRUE
    /\ result' = "failed"
    /\ UNCHANGED <<file, ops, at, completed, kept, before, lossy>>

(* rollback() undoes every completed operation, whatever became of the     *)
(* transaction: also one whose commit failed and was already undone.       *)
Rollback ==
    /\ ~undoing
    /\ state \in {"pending", "committed", "failed"}
    /\ undoing' = TRUE
    /\ at' = completed
    /\ result' = "rolled_back"
    /\ lossy' = (lossy \/ (state = "failed" /\ completed > 0))
    /\ UNCHANGED <<file, ops, state, completed, kept, before>>

(* How operation i is undone.                                              *)
Undone(i) ==
    LET op == ops[i] IN
    CASE op.type = "create" -> [file EXCEPT ![op.target] = "absent"]
      [] op.type \in {"modify", "delete"} -> [file EXCEPT ![op.target] = kept[i]]
      [] op.type \in {"rename", "move"} ->
           IF Exists(op.target) THEN Moved(op.target, op.source) ELSE file

(* Undoing from the first operation to the last.                           *)
UndoForward ==
    /\ undoing /\ at > 0
    /\ file' = Undone(completed + 1 - at)
    /\ at' = at - 1
    /\ UNCHANGED <<ops, state, completed, kept, undoing, result, before, lossy>>

Undo ==
    /\ undoing /\ at > 0
    /\ file' = Undone(at)
    /\ at' = at - 1
    /\ UNCHANGED <<ops, state, completed, kept, undoing, result, before, lossy>>

HalfUndone(op) ==
    CASE op.type \in {"modify", "delete"} -> {HalfWritten(op.target)}
      [] op.type = "move" /\ Exists(op.target) /\ op.source # op.target ->
           HalfMoved(op.target, op.source)
      [] OTHER -> {}

(* One cannot be undone, or only by half: the others are, and nobody is    *)
(* told.                                                                   *)
FailUndo ==
    /\ undoing /\ at > 0
    /\ file' \in {file} \cup HalfUndone(ops[at])
    /\ at' = at - 1
    /\ lossy' = TRUE
    /\ UNCHANGED <<ops, state, completed, kept, undoing, result, before>>

EndUndo ==
    /\ undoing /\ at = 0
    /\ undoing' = FALSE
    /\ state' = result
    /\ UNCHANGED <<file, ops, at, completed, kept, result, before, lossy>>

RefactorNext ==
    \/ \E op \in Operation : AddOperation(op)
    \/ BeginCommit
    \/ ExecuteOperation \/ FailOperation \/ TearOperation
    \/ Commit \/ FailCleanup
    \/ Rollback
    \/ Undo \/ FailUndo \/ EndUndo

RefactorSpec == RefactorInit /\ [][RefactorNext]_refactorVars

-----------------------------------------------------------------------------
(* Properties *)

(* "If any operation fails, all completed operations are rolled back": a   *)
(* transaction that failed, at whatever operation, or that was rolled back *)
(* leaves every file with the text it had before, in spite of operations   *)
(* on the same files, and with its newlines too when no file was modified  *)
(* or deleted; unless a move overwrote a file, a call or an undo failed    *)
(* half-way, or a failed transaction was rolled back once more.            *)
AllOrNothing ==
    state \in {"failed", "rolled_back"} /\ ~undoing /\ ~lossy =>
        /\ \A p \in Path : Normal(file[p]) = Normal(before[p])
        /\ (\A i \in 1 .. completed : ops[i].type \notin {"modify", "delete"}) =>
               file = before
=============================================================================
