------------------------ MODULE IncrementalValidator ------------------------
(***************************************************************************)
(* Which files have changed since they were last validated                 *)
(* (IncrementalValidator).  A validator remembers a hash of each file, in  *)
(* memory and in file_hashes.json, and reports a file as unchanged when    *)
(* its hash is the one remembered: its user then does not look at it       *)
(* again.  Validators of several processes share the file, which each      *)
(* reads once and writes whole; files are edited at any time; a validation *)
(* may raise or its process may end half way.  A content stands for its    *)
(* hash.                                                                   *)
(***************************************************************************)
EXTENDS Naturals

CONSTANTS
    SourceFile,   \* the files to validate
    Text,      \* what may be in them
    Validator     \* the processes that have a validator

VARIABLES
    content,     \* content[f]: what is in file f, "absent" if there is none
    hashFile,    \* file_hashes.json: a hash of each file, or "absent"
    remembered,  \* remembered[v]: _hash_records of validator v
    validation,  \* validation[v]: the validation under way
    examined,    \* history: [file, content] that were returned as changed
    unreported   \* history: those found by validations that never returned

validatorVars == <<content, hashFile, remembered, validation, examined, unreported>>

Hashes == [SourceFile -> Text \cup {"absent"}]
NoHashes == [f \in SourceFile |-> "absent"]
Found == [file : SourceFile, content : Text]

(* A validation: what it has yet to look at, the file it has looked at and *)
(* not yet remembered, and what it has found changed.                      *)
NoValidation ==
    [step |-> "idle", left |-> {}, seen |-> {}, updates |-> TRUE,
     changed |-> {}]

ValidatorTypeOK ==
    /\ content \in Hashes /\ hashFile \in Hashes
    /\ remembered \in [Validator -> Hashes]
    /\ validation \in [Validator ->
           [step : {"none", "idle", "looking", "saved"}, left : SUBSET SourceFile,
            seen : SUBSET [file : SourceFile, content : Text \cup {"absent"}],
            updates : BOOLEAN, changed : SUBSET Found]]
    /\ examined \subseteq Found /\ unreported \subseteq Found

-----------------------------------------------------------------------------
ValidatorInit ==
    /\ content = NoHashes
    /\ hashFile = NoHashes
    /\ remembered = [v \in Validator |-> NoHashes]
    /\ validation = [v \in Validator |-> [NoValidation EXCEPT !.step = "none"]]
    /\ examined = {} /\ unreported = {}

(* Somebody writes or deletes a file.                                      *)
Edit(f, c) ==
    /\ content[f] # c
    /\ content' = [content EXCEPT ![f] = c]
    /\ UNCHANGED <<hashFile, remembered, validation, examined, unreported>>

(* A validator is made: _load_records.                                     *)
OpenValidator(v) ==
    /\ validation[v].step = "none"
    /\ validation' = [validation EXCEPT ![v] = NoValidation]
    /\ remembered' = [remembered EXCEPT ![v] = hashFile]
    /\ UNCHANGED <<content, hashFile, examined, unreported>>

(* validate, or, without updates, get_changed_files.                       *)
StartValidation(v, files, updates) ==
    /\ validation[v].step = "idle"
    /\ validation' = [validation EXCEPT ![v] =
           [NoValidation EXCEPT !.step = "looking", !.left = files, !.updates = updates]]
    /\ UNCHANGED <<content, hashFile, remembered, examined, unreported>>

Looking(v) == validation[v].step = "looking"

(* check_file: is it there, is its hash remembered?  A deleted file counts *)
(* as changed.                                                             *)
CheckFile(v, f) ==
    /\ Looking(v) /\ validation[v].seen = {}
    /\ f \in validation[v].left
    /\ LET now == [file |-> f, content |-> content[f]] IN
         validation' = [validation EXCEPT
             ![v].left = @ \ {f},
             ![v].seen = IF validation[v].updates THEN {now} ELSE {},
             ![v].changed = IF content[f] \notin {"absent", remembered[v][f]}
                            THEN @ \cup {now} ELSE @]
    /\ UNCHANGED <<content, hashFile, remembered, examined, unreported>>

(* A file that cannot be read, or is gone by then, counts as changed.  Its *)
(* empty hash is not remembered.                                           *)
CannotRead(v, f) ==
    /\ Looking(v) /\ validation[v].seen = {}
    /\ f \in validation[v].left
    /\ validation' = [validation EXCEPT ![v].left = @ \ {f}]
    /\ UNCHANGED <<content, hashFile, remembered, examined, unreported>>

(* Remembering the hash of what is in the file by now.                     *)
RememberNow(v) ==
    /\ Looking(v)
    /\ \E s \in validation[v].seen :
         remembered' = [remembered EXCEPT ![v][s.file] = content[s.file]]
    /\ validation' = [validation EXCEPT ![v].seen = {}]
    /\ UNCHANGED <<content, hashFile, examined, unreported>>

(* The hash that was compared is remembered, or the deletion, if updates   *)
(* are wanted, after a look at the file's size that changes nothing.       *)
Remember(v) ==
    /\ Looking(v)
    /\ \E s \in validation[v].seen :
         remembered' = [remembered EXCEPT ![v][s.file] = s.content]
    /\ validation' = [validation EXCEPT ![v].seen = {}]
    /\ UNCHANGED <<content, hashFile, examined, unreported>>

AllSeen(v) == Looking(v) /\ validation[v].left = {} /\ validation[v].seen = {}

(* _save_records, which does not look what the file holds by now.          *)
SaveHashes(v) ==
    /\ AllSeen(v) /\ validation[v].updates
    /\ hashFile' = remembered[v]
    /\ validation' = [validation EXCEPT ![v].step = "saved"]
    /\ UNCHANGED <<content, remembered, examined, unreported>>

(* The caller gets the result.                                             *)
ReturnResult(v) ==
    /\ \/ validation[v].step = "saved"
       \/ AllSeen(v) /\ ~validation[v].updates
    /\ examined' = examined \cup validation[v].changed
    /\ validation' = [validation EXCEPT ![v] = NoValidation]
    /\ UNCHANGED <<content, hashFile, remembered, unreported>>

(* A path outside the repository, or a file that cannot be written, raises *)
(* and leaves in memory what was remembered so far.                        *)
ValidationRaises(v) ==
    /\ Looking(v)
    /\ unreported' = unreported \cup validation[v].changed
    /\ validation' = [validation EXCEPT ![v] = NoValidation]
    /\ UNCHANGED <<content, hashFile, remembered, examined>>

(* The process ends, also after it has saved and before it has reported,   *)
(* or while it writes, which leaves a file that is taken for an empty one. *)
EndValidator(v, torn) ==
    /\ validation[v].step # "none"
    /\ torn => \/ validation[v].step = "idle"
               \/ AllSeen(v) /\ validation[v].updates
    /\ hashFile' = IF torn THEN NoHashes ELSE hashFile
    /\ unreported' = unreported \cup validation[v].changed
    /\ validation' = [validation EXCEPT ![v] = [NoValidation EXCEPT !.step = "none"]]
    /\ remembered' = [remembered EXCEPT ![v] = NoHashes]
    /\ UNCHANGED <<content, examined>>

(* invalidate, of a file that is remembered, and invalidate_all forget and *)
(* write the whole file.                                                   *)
Forget(v, files) ==
    /\ validation[v].step = "idle"
    /\ files = SourceFile \/ \E f \in SourceFile :
           files = {f} /\ remembered[v][f] # "absent"
    /\ remembered' = [remembered EXCEPT ![v] =
           [f \in SourceFile |-> IF f \in files THEN "absent" ELSE @[f]]]
    /\ hashFile' = remembered'[v]
    /\ UNCHANGED <<content, validation, examined, unreported>>

ValidatorNext ==
    \/ \E f \in SourceFile : \E c \in Text \cup {"absent"} : Edit(f, c)
    \/ \E v \in Validator :
        \/ OpenValidator(v)
        \/ \E files \in SUBSET SourceFile : \E updates \in BOOLEAN :
               StartValidation(v, files, updates)
        \/ \E f \in SourceFile : CheckFile(v, f) \/ CannotRead(v, f)
        \/ Remember(v) \/ SaveHashes(v) \/ ReturnResult(v) \/ ValidationRaises(v)
        \/ \E torn \in BOOLEAN : EndValidator(v, torn)
        \/ \E files \in SUBSET SourceFile : Forget(v, files)

ValidatorSpec == ValidatorInit /\ [][ValidatorNext]_validatorVars

-----------------------------------------------------------------------------
(* Properties *)

(* What is skipped has been examined: a content that a validation would    *)
(* find unchanged, now or in a later process, was once returned to some    *)
(* caller as a change, whatever was edited between a look at a file and    *)
(* the record of it, whichever process wrote its older hashes over newer   *)
(* ones, and whatever was invalidated.  Only a validation that raised, or  *)
(* whose process ended before it returned, may have left a record of a     *)
(* change that it told nobody of.                                          *)
SkippedWasExamined ==
    LET known == examined \cup unreported
                   \cup UNION {validation[v].changed : v \in Validator}
    IN  \A f \in SourceFile :
          \A hash \in {hashFile[f]} \cup {remembered[v][f] : v \in Validator} :
             hash # "absent" => [file |-> f, content |-> hash] \in known
=============================================================================
