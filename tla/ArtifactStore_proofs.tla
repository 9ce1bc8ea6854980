------------------------ MODULE ArtifactStore_proofs ------------------------
(***************************************************************************)
(* Proofs about ArtifactStore, for any set of artifacts and of processes.  *)
(*                                                                         *)
(* Typing and OnlySignedPayloads hold however the processes interleave and *)
(* wherever they crash.  LockedForever, CIPassesAtRest, RecordsBacked and  *)
(* the refinement of ArtifactLifecycle need commands not to overlap        *)
(* (Serialised); RecordsBacked also needs a single web worker (OneWorker). *)
(***************************************************************************)
EXTENDS ArtifactStore, TLAPS

Busy == {"loaded", "saving", "saved", "recording", "recorded"}

(* What an operation writes is a content.                                  *)
LEMMA ResultType ==
    ASSUME NEW k \in Kinds, NEW a \in Artifact, NEW c \in Content, Permits(k, a, c)
    PROVE  Result(k, c) \in Content
<1> USE StoreAssumption DEF Content, Rev, Valid, Torn
<1>1. c.rev \in 0 .. MaxRev /\ (k = "modify" => c.rev + 1 \in 0 .. MaxRev)
  BY DEF Permits
<1>2. CASE k = "modify"
  BY <1>1, <1>2 DEF Result
<1>3. CASE k \in {"create", "approve", "lock", "revoke"}
  BY <1>1, <1>3 DEF Result
<1>4. CASE k \in {"review", "migrate"}
  BY <1>4 DEF Result
<1>5. k # "rollback"
  BY DEF Permits
<1> QED
  BY <1>2, <1>3, <1>4, <1>5 DEF Kinds

(* An operation that is over leaves its locals in their types.             *)
LEMMA ReturnType ==
    ASSUME TypeOK, NEW p \in Proc, Return(p)
    PROVE  /\ kind' \in [Proc -> Kinds] /\ target' \in [Proc -> Artifact]
           /\ seen' \in [Proc -> Content] /\ copy' \in [Proc -> Content]
<1>1. AnyArtifact \in Artifact
  BY StoreAssumption DEF AnyArtifact
<1>2. NoFile \in Content
  BY StoreAssumption DEF NoFile, Content, Rev
<1> QED
  BY <1>1, <1>2 DEF TypeOK, Return, Kinds

(* Type correctness: every step of every process keeps the variables in    *)
(* their types.                                                            *)
THEOREM Typing == Spec => []TypeOK
<1>1. Init => TypeOK
  <2>1. AnyArtifact \in Artifact
    BY StoreAssumption DEF AnyArtifact
  <2>2. NoFile \in Content /\ NoRecords \in Records
    BY StoreAssumption DEF NoFile, Content, Rev, NoRecords, Records
  <2> SUFFICES ASSUME Init PROVE TypeOK
    OBVIOUS
  <2>3. target \in [Proc -> Artifact]
    BY <2>1 DEF Init
  <2>4. /\ file \in [Artifact -> Content] /\ seen \in [Proc -> Content]
        /\ copy \in [Proc -> Content] /\ records \in Records
    BY <2>2 DEF Init
  <2>5. /\ pc \in [Proc -> Steps] /\ kind \in [Proc -> Kinds]
        /\ mem \in [Proc -> SUBSET Artifact] /\ signed \in [Artifact -> SUBSET Rev]
        /\ backups \in [Artifact -> SUBSET Content]
        /\ erased \in SUBSET Artifact /\ restored \in SUBSET Artifact /\ cut \in BOOLEAN
    BY DEF Init, Steps, Kinds
  <2> QED
    BY <2>3, <2>4, <2>5 DEF TypeOK
<1>2. TypeOK /\ [Next]_vars => TypeOK'
  <2> SUFFICES ASSUME TypeOK, [Next]_vars PROVE TypeOK'
    OBVIOUS
  <2> USE DEF TypeOK, files, request, history
  <2>1. ASSUME NEW p \in Proc, Start(p) PROVE TypeOK'
    BY <2>1 DEF Start, Reload, Records, Steps
  <2>2. ASSUME NEW p \in Proc, Exit(p) PROVE TypeOK'
    BY <2>2 DEF Exit, Steps
  <2>3. ASSUME NEW p \in Proc, NEW k \in Offers(p), NEW a \in Artifact, Begin(p, k, a)
        PROVE  TypeOK'
    <3>1. k \in Kinds
      BY DEF Offers, Kinds
    <3>2. file[a] \in Content /\ file[a].rev \in Rev
      BY DEF Content
    <3>3. Result(k, file[a]) \in Content
      BY <2>3, <3>1, <3>2, ResultType DEF Begin
    <3>4. signed' \in [Artifact -> SUBSET Rev]
      BY <2>3, <3>2 DEF Begin
    <3> QED
      BY <2>3, <3>1, <3>2, <3>3, <3>4 DEF Begin, Steps
  <2>4. ASSUME NEW p \in Proc, OpenArtifact(p) PROVE TypeOK'
    BY <2>4, StoreAssumption
    DEF OpenArtifact, EmptyFile, Content, Torn, Rev, Steps
  <2>5. ASSUME NEW p \in Proc, WriteArtifact(p) PROVE TypeOK'
    <3>1. PICK c \in Overwritten(file[target[p]], copy[p], EmptyFile, BadFile) :
            file' = [file EXCEPT ![target[p]] = c]
      BY <2>5 DEF WriteArtifact
    <3>2. c \in Content
      BY <3>1, StoreAssumption DEF Overwritten, BadFile, Content, Torn, Rev
    <3>3. restored' \in SUBSET Artifact
      BY <2>5 DEF WriteArtifact
    <3>4. CASE kind[p] = "approve"
      BY <2>5, <3>1, <3>2, <3>3, <3>4 DEF WriteArtifact, Steps
    <3>5. CASE kind[p] # "approve"
      BY <2>5, <3>1, <3>2, <3>3, <3>5, ReturnType DEF WriteArtifact, Finish, Done, Kept, Steps
    <3> QED
      BY <3>4, <3>5
  <2>6. ASSUME NEW p \in Proc, OpenRecords(p) PROVE TypeOK'
    <3>1. mem' \in [Proc -> SUBSET Artifact]
      BY <2>6 DEF OpenRecords
    <3>2. Missed(p) \in SUBSET Artifact
      BY DEF Missed, Reload, Records
    <3> QED
      BY <2>6, <3>1, <3>2 DEF OpenRecords, EmptyRecords, Records, Torn, Steps
  <2>7. ASSUME NEW p \in Proc, WriteRecords(p) PROVE TypeOK'
    <3>1. records' \in Records
      BY <2>7 DEF WriteRecords, Overwritten, EmptyRecords, BadRecords, Records, Torn
    <3>2. CASE kind[p] = "revoke"
      BY <2>7, <3>1, <3>2 DEF WriteRecords, Steps
    <3>3. CASE kind[p] # "revoke"
      BY <2>7, <3>1, <3>3, ReturnType DEF WriteRecords, Finish, Done, Kept, Steps
    <3> QED
      BY <3>2, <3>3
  <2>8. ASSUME NEW p \in Proc, Crash(p) \/ Fail(p) PROVE TypeOK'
    BY <2>8, ReturnType DEF Crash, Fail, Steps
  <2>9. ASSUME NEW p \in Proc, NEW a \in Artifact, BackUp(p, a) PROVE TypeOK'
    <3>1. EmptyFile \in Content
      BY StoreAssumption DEF EmptyFile, Content, Torn, Rev
    <3>2. backups' \in [Artifact -> SUBSET Content]
      BY <2>9, <3>1 DEF BackUp
    <3>3. pc' \in [Proc -> Steps] /\ cut' \in BOOLEAN
      BY <2>9 DEF BackUp, Steps
    <3> QED
      BY <2>9, <3>2, <3>3 DEF BackUp
  <2>10. ASSUME NEW p \in Proc, NEW a \in Artifact, NEW c \in backups[a],
                BeginRollback(p, a, c)
         PROVE  TypeOK'
    BY <2>10 DEF BeginRollback, Steps, Kinds
  <2>11. CASE UNCHANGED vars
    BY <2>11 DEF vars
  <2> QED
    BY <2>1, <2>2, <2>3, <2>4, <2>5, <2>6, <2>7, <2>8, <2>9, <2>10, <2>11 DEF Next, Step
<1> QED
  BY <1>1, <1>2, PTL DEF Spec

-----------------------------------------------------------------------------
(* The copy a process is about to save has a payload that was signed off,  *)
(* if it is to be approved or locked.                                      *)
SignedCopies ==
    \A p \in Proc :
       pc[p] \in Busy /\ copy[p].status \in {"approved", "locked"}
          => copy[p].rev \in signed[target[p]]

SignedBackups ==
    \A a \in Artifact : \A c \in backups[a] :
       c.status \in {"approved", "locked"} => c.rev \in signed[a]

SignedInv == OnlySignedPayloads /\ SignedCopies /\ SignedBackups

(* Locals that are gone are approved by nobody.                            *)
LEMMA ReturnSigned ==
    ASSUME TypeOK, SignedCopies, NEW p \in Proc, Return(p), signed' = signed,
           \A q \in Proc \ {p} : pc'[q] = pc[q]
    PROVE  SignedCopies'
<1>1. copy'[p].status = "absent"
  BY DEF TypeOK, Return, NoFile
<1>2. \A q \in Proc \ {p} : copy'[q] = copy[q] /\ target'[q] = target[q]
  BY DEF TypeOK, Return
<1> QED
  BY <1>1, <1>2 DEF SignedCopies

(* No payload is approved or locked without an approve() for it, in any    *)
(* interleaving of any number of processes, migrations and rollbacks among *)
(* them, with crashes anywhere.                                            *)
THEOREM SignedPayloads == Spec => []OnlySignedPayloads
<1> USE DEF SignedInv, OnlySignedPayloads, SignedBackups
<1>1. Init => SignedInv
  BY DEF Init, NoFile, SignedCopies, Busy
<1>2. TypeOK /\ SignedInv /\ [Next]_vars => SignedInv'
  <2> SUFFICES ASSUME TypeOK, SignedInv, [Next]_vars PROVE SignedInv'
    OBVIOUS
  <2> USE DEF TypeOK, files, request, history
  <2>1. ASSUME NEW p \in Proc, Start(p) \/ Exit(p) PROVE SignedInv'
    BY <2>1 DEF Start, Exit, SignedCopies, Busy
  <2>2. ASSUME NEW p \in Proc, NEW a \in Artifact, NEW c \in backups[a],
               BeginRollback(p, a, c)
        PROVE  SignedInv'
    <3>1. c.status \in {"approved", "locked"} => c.rev \in signed[a]
      OBVIOUS
    <3>2. SignedCopies'
      BY <2>2, <3>1 DEF BeginRollback, SignedCopies, Busy
    <3> QED
      BY <2>2, <3>2 DEF BeginRollback
  <2>3. ASSUME NEW p \in Proc, NEW k \in Offers(p), NEW a \in Artifact, Begin(p, k, a)
        PROVE  SignedInv'
    <3>1. k \in Kinds \ {"rollback"}
      BY DEF Offers, Kinds
    <3>2. \A b \in Artifact : signed[b] \subseteq signed'[b]
      BY <2>3 DEF Begin
    <3>3. OnlySignedPayloads' /\ SignedBackups'
      BY <2>3, <3>2 DEF Begin
    <3>4. Result(k, file[a]).status \in {"approved", "locked"}
             => Result(k, file[a]).rev \in signed'[a]
      <4>1. CASE k = "approve"
        BY <2>3, <4>1 DEF Begin, Result
      <4>2. CASE k \in {"lock", "review", "migrate"}
        BY <2>3, <3>2, <4>2 DEF Begin, Permits, Result
      <4>3. CASE k \in {"create", "modify", "revoke"}
        BY <4>3 DEF Result
      <4> QED
        BY <3>1, <4>1, <4>2, <4>3 DEF Kinds
    <3>5. ASSUME NEW q \in Proc, (pc[q] \in Busy)', (copy[q].status \in {"approved", "locked"})'
          PROVE  (copy[q].rev \in signed[target[q]])'
      <4>1. CASE q = p
        BY <2>3, <3>4, <3>5, <4>1 DEF Begin
      <4>2. CASE q # p
        BY <2>3, <3>2, <3>5, <4>2 DEF Begin, SignedCopies, Busy
      <4> QED
        BY <4>1, <4>2
    <3> QED
      BY <3>3, <3>5 DEF SignedCopies
  <2>4. ASSUME NEW p \in Proc, OpenArtifact(p) PROVE SignedInv'
    BY <2>4 DEF OpenArtifact, EmptyFile, SignedCopies, Busy
  <2>5. ASSUME NEW p \in Proc, WriteArtifact(p) PROVE SignedInv'
    <3>1. PICK c \in Overwritten(file[target[p]], copy[p], EmptyFile, BadFile) :
            file' = [file EXCEPT ![target[p]] = c]
      BY <2>5 DEF WriteArtifact
    <3>2. c = copy[p] \/ c = BadFile
      BY <3>1 DEF Overwritten
    <3>3. c.status \in {"approved", "locked"} => c.rev \in signed[target[p]]
      BY <2>5, <3>2 DEF WriteArtifact, BadFile, SignedCopies, Busy
    <3>4. OnlySignedPayloads' /\ SignedBackups'
      BY <2>5, <3>1, <3>3 DEF WriteArtifact
    <3>5. SignedCopies'
      <4>1. CASE kind[p] = "approve"
        BY <2>5, <4>1 DEF WriteArtifact, SignedCopies, Busy
      <4>2. CASE kind[p] # "approve"
        BY <2>5, <4>2, ReturnSigned DEF WriteArtifact, Finish
      <4> QED
        BY <4>1, <4>2
    <3> QED
      BY <3>4, <3>5
  <2>6. ASSUME NEW p \in Proc, OpenRecords(p) PROVE SignedInv'
    BY <2>6 DEF OpenRecords, SignedCopies, Busy
  <2>7. ASSUME NEW p \in Proc, WriteRecords(p) PROVE SignedInv'
    <3>1. CASE kind[p] = "revoke"
      BY <2>7, <3>1 DEF WriteRecords, SignedCopies, Busy
    <3>2. CASE kind[p] # "revoke"
      BY <2>7, <3>2, ReturnSigned DEF WriteRecords, Finish
    <3> QED
      BY <3>1, <3>2
  <2>8. ASSUME NEW p \in Proc, Crash(p) \/ Fail(p) PROVE SignedInv'
    BY <2>8, ReturnSigned DEF Crash, Fail
  <2>9. ASSUME NEW p \in Proc, NEW a \in Artifact, BackUp(p, a) PROVE SignedInv'
    <3>1. \A b \in Artifact : \A c \in backups'[b] :
            c \in backups[b] \/ c = file[b] \/ c = EmptyFile
      BY <2>9 DEF BackUp
    <3>2. \A q \in Proc : pc'[q] \in Busy => pc[q] \in Busy
      BY <2>9 DEF BackUp, Busy
    <3>3. SignedCopies'
      BY <2>9, <3>2 DEF BackUp, SignedCopies
    <3> QED
      BY <2>9, <3>1, <3>3 DEF BackUp, EmptyFile
  <2>10. CASE UNCHANGED vars
    BY <2>10 DEF vars, SignedCopies, Busy
  <2> QED
    BY <2>1, <2>2, <2>3, <2>4, <2>5, <2>6, <2>7, <2>8, <2>9, <2>10 DEF Next, Step
<1>3. SignedInv => OnlySignedPayloads
  OBVIOUS
<1> QED
  BY <1>1, <1>2, <1>3, Typing, PTL DEF Spec

-----------------------------------------------------------------------------
(* Commands that do not overlap.                                           *)

Exclusive == \A p, q \in Proc : p # q => Quiet(p) \/ Quiet(q)

(* The artifact's file has not been opened yet by p's operation.           *)
Unopened(p) ==
    \/ pc[p] \in {"loaded", "recorded"}
    \/ pc[p] = "recording" /\ kind[p] = "revoke"

(* What p is about to save comes from what it loaded, or from a backup.    *)
Legitimate(p) ==
    IF kind[p] = "rollback"
    THEN p \in Migrator /\ copy[p] \in backups[target[p]]
    ELSE /\ Permits(kind[p], target[p], seen[p])
         /\ copy[p] = Result(kind[p], seen[p])
         /\ kind[p] \in Offers(p)

(* Where p's operation stands against the file it loaded: nobody else has  *)
(* touched it in between.                                                  *)
Undisturbed(p) ==
    /\ pc[p] \in Busy => Legitimate(p)
    /\ Unopened(p) => file[target[p]] = seen[p]
    /\ pc[p] = "saving" => file[target[p]] = EmptyFile
    /\ pc[p] = "saved" => kind[p] = "approve" /\ file[target[p]] = copy[p]
    /\ pc[p] = "recording" =>
          /\ kind[p] \in {"approve", "revoke"}
          /\ kind[p] = "approve" => file[target[p]] = copy[p]
    /\ pc[p] = "recorded" => kind[p] = "revoke"

SerialInv == Exclusive /\ \A p \in Proc : Undisturbed(p)

LEMMA BusyIsNotQuiet ==
    ASSUME NEW p \in Proc, pc[p] \in Busy PROVE ~Quiet(p)
BY DEF Busy, Quiet

LEMMA Others ==
    ASSUME SerialInv, NEW p \in Proc, pc[p] \in Busy
    PROVE  \A q \in Proc \ {p} : Quiet(q) /\ pc[q] \notin Busy
BY BusyIsNotQuiet DEF SerialInv, Exclusive

LEMMA SerialStep ==
    ASSUME Serialised, TypeOK, SerialInv, [Next]_vars
    PROVE  SerialInv'
<1> USE DEF TypeOK, files, request, history, SerialInv
<1> DEFINE Rest(p) == \A q \in Proc \ {p} : Undisturbed(q)'
(* The steps of p that end its operation, or change only what is not busy. *)
<1>0. ASSUME NEW p \in Proc, \A q \in Proc \ {p} : pc[q] \notin Busy /\ pc'[q] = pc[q]
      PROVE  Rest(p)
  <2> SUFFICES ASSUME NEW q \in Proc \ {p} PROVE Undisturbed(q)'
    OBVIOUS
  <2>1. pc'[q] \notin Busy
    BY <1>0
  <2> QED
    BY <2>1 DEF Undisturbed, Unopened, Busy
<1>1. ASSUME NEW p \in Proc, Start(p) PROVE SerialInv'
  <2>1. Exclusive'
    BY <1>1 DEF Start, Alone, Exclusive, Quiet
  <2>2. \A q \in Proc \ {p} : pc[q] \notin Busy /\ pc'[q] = pc[q]
    BY <1>1 DEF Start, Alone, Quiet, Busy
  <2>3. Undisturbed(p)'
    BY <1>1 DEF Start, Undisturbed, Unopened, Busy
  <2> QED
    BY <1>0, <2>1, <2>2, <2>3
<1>2. ASSUME NEW p \in Proc, Exit(p) PROVE SerialInv'
  <2>1. Exclusive'
    BY <1>2 DEF Exit, Exclusive, Quiet
  <2>2. \A q \in Proc : Undisturbed(q)'
    BY <1>2 DEF Exit, Undisturbed, Unopened, Busy, Legitimate
  <2> QED
    BY <2>1, <2>2
<1>3. ASSUME NEW p \in Proc, NEW k \in Offers(p), NEW a \in Artifact, Begin(p, k, a)
      PROVE  SerialInv'
  <2>1. \A q \in Proc \ {p} : Quiet(q) /\ pc'[q] = pc[q]
    BY <1>3 DEF Begin, Alone
  <2>2. Exclusive'
    BY <1>3, <2>1 DEF Begin, Exclusive, Quiet
  <2>3. k # "rollback"
    BY DEF Offers
  <2>4. /\ pc'[p] = "loaded" /\ kind'[p] = k /\ target'[p] = a /\ seen'[p] = file[a]
        /\ copy'[p] = Result(k, file[a]) /\ file' = file /\ Permits(k, a, file[a])
    BY <1>3 DEF Begin
  <2>5. Undisturbed(p)'
    BY <2>3, <2>4 DEF Undisturbed, Unopened, Busy, Legitimate, Offers
  <2> QED
    BY <1>0, <2>1, <2>2, <2>5 DEF Quiet, Busy
<1>4. ASSUME NEW p \in Proc, NEW a \in Artifact, NEW c \in backups[a], BeginRollback(p, a, c)
      PROVE  SerialInv'
  <2>1. \A q \in Proc \ {p} : Quiet(q) /\ pc'[q] = pc[q]
    BY <1>4 DEF BeginRollback, Alone
  <2>2. Exclusive'
    BY <1>4, <2>1 DEF BeginRollback, Exclusive, Quiet
  <2>3. Undisturbed(p)'
    BY <1>4 DEF BeginRollback, Undisturbed, Unopened, Busy, Legitimate
  <2> QED
    BY <1>0, <2>1, <2>2, <2>3 DEF Quiet, Busy
<1>5. ASSUME NEW p \in Proc, NEW a \in Artifact, BackUp(p, a) PROVE SerialInv'
  <2>1. \A q \in Proc \ {p} : Quiet(q) /\ pc'[q] = pc[q]
    BY <1>5 DEF BackUp, Alone
  <2>2. pc'[p] \in {"idle", "off"} /\ (pc'[p] = "idle" => pc' = pc)
    BY <1>5 DEF BackUp
  <2>3. Exclusive'
    BY <2>1, <2>2 DEF Exclusive, Quiet
  <2>4. Undisturbed(p)'
    BY <2>2 DEF Undisturbed, Unopened, Busy
  <2> QED
    BY <1>0, <2>1, <2>3, <2>4 DEF Quiet, Busy
<1>6. ASSUME NEW p \in Proc, OpenArtifact(p) PROVE SerialInv'
  <2>1. pc[p] \in Busy
    BY <1>6 DEF OpenArtifact, Busy
  <2>2. \A q \in Proc \ {p} : Quiet(q) /\ pc[q] \notin Busy /\ pc'[q] = pc[q]
    BY <1>6, <2>1, Others DEF OpenArtifact
  <2>3. Exclusive'
    BY <1>6, <2>2 DEF OpenArtifact, Exclusive, Quiet
  <2>4. Legitimate(p)'
    BY <1>6, <2>1 DEF OpenArtifact, Undisturbed, Legitimate, Permits, Result, Offers
  <2>5. Undisturbed(p)'
    BY <1>6, <2>4 DEF OpenArtifact, Undisturbed, Unopened, Busy
  <2> QED
    BY <1>0, <2>2, <2>3, <2>5
<1>7. ASSUME NEW p \in Proc, WriteArtifact(p) PROVE SerialInv'
  <2>1. pc[p] \in Busy
    BY <1>7 DEF WriteArtifact, Busy
  <2>2. \A q \in Proc \ {p} : Quiet(q) /\ pc[q] \notin Busy /\ pc'[q] = pc[q]
    BY <1>7, <2>1, Others DEF WriteArtifact, Finish
  <2>3. file' = [file EXCEPT ![target[p]] = copy[p]]
    BY <1>7 DEF WriteArtifact, Overwritten, Undisturbed
  <2>4. Exclusive'
    BY <2>2 DEF Exclusive, Quiet
  <2>5. CASE kind[p] = "approve"
    <3>1. Legitimate(p)'
      BY <1>7, <2>1, <2>5 DEF WriteArtifact, Undisturbed, Legitimate, Permits, Result, Offers
    <3>2. Undisturbed(p)'
      BY <1>7, <2>3, <2>5, <3>1 DEF WriteArtifact, Undisturbed, Unopened, Busy
    <3> QED
      BY <1>0, <2>2, <2>4, <3>2
  <2>6. CASE kind[p] # "approve"
    <3>1. pc'[p] \in {"idle", "off"}
      BY <1>7, <2>6 DEF WriteArtifact, Finish, Done
    <3>2. Undisturbed(p)'
      BY <3>1 DEF Undisturbed, Unopened, Busy
    <3> QED
      BY <1>0, <2>2, <2>4, <3>2
  <2> QED
    BY <2>5, <2>6
<1>8. ASSUME NEW p \in Proc, OpenRecords(p) PROVE SerialInv'
  <2>1. pc[p] \in Busy /\ kind[p] \in {"approve", "revoke"}
    BY <1>8 DEF OpenRecords, Busy
  <2>2. \A q \in Proc \ {p} : Quiet(q) /\ pc[q] \notin Busy /\ pc'[q] = pc[q]
    BY <1>8, <2>1, Others DEF OpenRecords
  <2>3. Exclusive'
    BY <1>8, <2>2 DEF OpenRecords, Exclusive, Quiet
  <2>4. Legitimate(p)'
    BY <1>8, <2>1 DEF OpenRecords, Undisturbed, Legitimate, Permits, Result, Offers
  <2>5. Undisturbed(p)'
    BY <1>8, <2>4 DEF OpenRecords, Undisturbed, Unopened, Busy
  <2> QED
    BY <1>0, <2>2, <2>3, <2>5
<1>9. ASSUME NEW p \in Proc, WriteRecords(p) PROVE SerialInv'
  <2>1. pc[p] \in Busy
    BY <1>9 DEF WriteRecords, Busy
  <2>2. \A q \in Proc \ {p} : Quiet(q) /\ pc[q] \notin Busy /\ pc'[q] = pc[q]
    BY <1>9, <2>1, Others DEF WriteRecords, Finish
  <2>3. Exclusive'
    BY <2>2 DEF Exclusive, Quiet
  <2>4. CASE kind[p] = "revoke"
    <3>1. Legitimate(p)'
      BY <1>9, <2>1, <2>4 DEF WriteRecords, Undisturbed, Legitimate, Permits, Result, Offers
    <3>2. Undisturbed(p)'
      BY <1>9, <2>4, <3>1 DEF WriteRecords, Undisturbed, Unopened, Busy
    <3> QED
      BY <1>0, <2>2, <2>3, <3>2
  <2>5. CASE kind[p] # "revoke"
    <3>1. pc'[p] \in {"idle", "off"}
      BY <1>9, <2>5 DEF WriteRecords, Finish, Done
    <3>2. Undisturbed(p)'
      BY <3>1 DEF Undisturbed, Unopened, Busy
    <3> QED
      BY <1>0, <2>2, <2>3, <3>2
  <2> QED
    BY <2>4, <2>5
<1>10. ASSUME NEW p \in Proc, Crash(p) PROVE SerialInv'
  <2>1. Exclusive'
    BY <1>10 DEF Crash, Exclusive, Quiet
  <2>2. Undisturbed(p)'
    BY <1>10 DEF Crash, Undisturbed, Unopened, Busy
  <2>3. ASSUME NEW q \in Proc \ {p} PROVE Undisturbed(q)'
    <3>1. /\ pc'[q] = pc[q] /\ kind'[q] = kind[q] /\ target'[q] = target[q]
          /\ seen'[q] = seen[q] /\ copy'[q] = copy[q] /\ file' = file /\ backups' = backups
      BY <1>10 DEF Crash, Return
    <3> QED
      BY <3>1 DEF Undisturbed, Unopened, Legitimate, Permits, Result, Offers
  <2> QED
    BY <2>1, <2>2, <2>3
<1>11. ASSUME NEW p \in Proc, Fail(p) PROVE SerialInv'
  <2>1. pc[p] \in Busy /\ pc'[p] = "idle" /\ p \in Resident
    BY <1>11 DEF Fail, Busy
  <2>2. \A q \in Proc \ {p} : Quiet(q) /\ pc[q] \notin Busy /\ pc'[q] = pc[q]
    BY <1>11, <2>1, Others DEF Fail
  <2>3. Exclusive' /\ Undisturbed(p)'
    BY <2>1, <2>2 DEF Exclusive, Quiet, Undisturbed, Unopened, Busy
  <2> QED
    BY <1>0, <2>2, <2>3
<1>12. CASE UNCHANGED vars
  <2>1. Exclusive'
    BY <1>12 DEF vars, Exclusive, Quiet
  <2>2. \A q \in Proc : Undisturbed(q)'
    BY <1>12 DEF vars, Undisturbed, Unopened, Busy, Legitimate, Permits, Result, Offers
  <2> QED
    BY <2>1, <2>2
<1> QED
  BY <1>1, <1>2, <1>3, <1>4, <1>5, <1>6, <1>7, <1>8, <1>9, <1>10, <1>11, <1>12 DEF Next, Step

LEMMA Serial == ASSUME Serialised PROVE Spec => [](TypeOK /\ SerialInv)
<1>1. Init => SerialInv
  BY DEF Init, SerialInv, Exclusive, Quiet, Undisturbed, Unopened, Busy
<1>2. TypeOK /\ SerialInv /\ [Next]_vars => SerialInv'
  BY SerialStep
<1> QED
  BY <1>1, <1>2, Typing, PTL DEF Spec

(* The file of a locked artifact never changes again, crashes included, if *)
(* commands do not overlap, except by a migration command; in particular   *)
(* never at all in a project where none is run.                            *)
THEOREM LockedStays == ASSUME Serialised PROVE Spec => LockedForever
<1>1. TypeOK /\ SerialInv /\ [Next]_vars
         => [\A a \in Artifact : file[a].status = "locked" =>
                file'[a] = file[a] \/ \E p \in Migrator : Rewrites(p, a)]_vars
  <2> SUFFICES ASSUME TypeOK, SerialInv, [Next]_vars, NEW a \in Artifact,
                      file[a].status = "locked", ~\E p \in Migrator : Rewrites(p, a)
               PROVE  file'[a] = file[a]
    BY DEF vars
  <2> USE DEF TypeOK, SerialInv, files
  <2>1. ASSUME NEW p \in Proc, OpenArtifact(p) PROVE file'[a] = file[a]
    <3>1. Legitimate(p) /\ file[target[p]] = seen[p]
      BY <2>1 DEF OpenArtifact, Undisturbed, Unopened, Busy
    <3>2. kind[p] \in {"migrate", "rollback"} => p \in Migrator /\ pc[p] = "loaded"
      BY <2>1, <3>1 DEF OpenArtifact, Legitimate, Offers
    <3>3. target[p] # a
      BY <3>1, <3>2 DEF Legitimate, Permits, Rewrites
    <3> QED
      BY <2>1, <3>3 DEF OpenArtifact
  <2>2. ASSUME NEW p \in Proc, WriteArtifact(p) PROVE file'[a] = file[a]
    <3>1. target[p] # a
      BY <2>2 DEF WriteArtifact, Undisturbed, EmptyFile
    <3> QED
      BY <2>2, <3>1 DEF WriteArtifact
  <2>3. ASSUME NEW p \in Proc, NEW b \in Artifact,
               \/ \E k \in Offers(p) : Begin(p, k, b)
               \/ BackUp(p, b)
               \/ \E c \in backups[b] : BeginRollback(p, b, c)
        PROVE  file' = file
    BY <2>3 DEF Begin, BackUp, BeginRollback
  <2>4. ASSUME NEW p \in Proc,
               \/ Start(p) \/ Exit(p) \/ OpenRecords(p)
               \/ WriteRecords(p) \/ Crash(p) \/ Fail(p)
        PROVE  file' = file
    BY <2>4 DEF Start, Exit, OpenRecords, WriteRecords, Crash, Fail
  <2>5. UNCHANGED vars => file' = file
    BY DEF vars
  <2> QED
    BY <2>1, <2>2, <2>3, <2>4, <2>5 DEF Next, Step
<1> QED
  BY <1>1, Serial, PTL DEF Spec, LockedForever

-----------------------------------------------------------------------------
(* The approvals file, when commands do not overlap and at most one        *)
(* tracker outlives its command.                                           *)

Backed(a) == file[a].status \in {"approved", "locked"} \cup Torn \/ a \in restored

(* Nobody who could save the approvals file has a record of a.             *)
Unrecorded(a) == a \notin Reload /\ \A q \in Approver : a \notin mem[q]

(* What process p's tracker knows, and its operation relies on.            *)
Tracks(p) ==
    /\ pc[p] = "off" => mem[p] = {}
    /\ p \in Approver => \A a \in mem[p] : Backed(a)
    /\ pc[p] = "recording" =>
          records = EmptyRecords /\ (kind[p] = "revoke" => target[p] \notin mem[p])
    /\ pc[p] = "recorded" => target[p] \notin Reload /\ target[p] \notin mem[p]
    /\ pc[p] = "saving" /\ kind[p] # "rollback" /\ copy[p].status = "draft" =>
          target[p] \in restored \/ Unrecorded(target[p])

BackedInv == RecordsBacked /\ \A p \in Proc : Tracks(p)

(* A step that leaves the files alone, and adds to no tracker but from the *)
(* approvals file, keeps the invariant, as far as the process that makes   *)
(* it is not in the middle of an operation afterwards.                     *)
LEMMA BackedQuiet ==
    ASSUME TypeOK, BackedInv, NEW p \in Proc, file' = file, records' = records,
           restored' = restored, pc' = [pc EXCEPT ![p] = pc'[p]],
           pc'[p] \notin {"saving", "recording", "recorded"},
           mem'[p] \subseteq mem[p] \cup Reload, pc'[p] = "off" => mem'[p] = {},
           \A q \in Proc \ {p} : /\ mem'[q] = mem[q] /\ kind'[q] = kind[q]
                                 /\ target'[q] = target[q] /\ copy'[q] = copy[q],
           mem'[p] \subseteq mem[p] \/ \A q \in Proc \ {p} : pc[q] # "saving"
    PROVE  BackedInv'
<1>1. Reload' = Reload /\ \A a \in Reload : Backed(a)
  BY DEF Reload, BackedInv, RecordsBacked, Backed, Records, TypeOK
<1>2. \A a \in Artifact : Backed(a)' <=> Backed(a)
  BY DEF Backed
<1>3. RecordsBacked'
  BY DEF BackedInv, RecordsBacked
<1>4. Tracks(p)'
  <2>1. p \in Approver => \A a \in mem'[p] : Backed(a)'
    BY <1>1 DEF BackedInv, Tracks, Backed
  <2> QED
    BY <2>1 DEF Tracks
<1>5. ASSUME NEW q \in Proc \ {p} PROVE Tracks(q)'
  <2>1. pc'[q] = pc[q]
    BY DEF TypeOK
  <2>2. ASSUME pc[q] = "saving", NEW a \in Artifact, Unrecorded(a) PROVE Unrecorded(a)'
    <3>1. \A r \in Approver : a \notin mem[r] /\ r \in Proc
      BY <2>2, StoreAssumption DEF Unrecorded
    <3>2. mem'[p] \subseteq mem[p]
      BY <2>2
    <3>3. \A r \in Approver : a \notin mem'[r]
      BY <3>1, <3>2
    <3> QED
      BY <1>1, <2>2, <3>3 DEF Unrecorded
  <2>3. Tracks(q) /\ target[q] \in Artifact
    BY DEF BackedInv, TypeOK
  <2>4. q \in Approver => \A a \in mem'[q] : Backed(a)'
    BY <2>3 DEF Tracks, Backed
  <2> QED
    BY <1>1, <2>1, <2>2, <2>3, <2>4 DEF Tracks
<1> QED
  BY <1>3, <1>4, <1>5 DEF BackedInv

LEMMA BackedStep ==
    ASSUME Serialised, OneWorker, TypeOK, SerialInv, BackedInv, [Next]_vars
    PROVE  BackedInv'
<1> USE DEF TypeOK, files, request, history
<1>0. /\ \A a \in Reload : Backed(a)
      /\ Reload \subseteq Artifact
      /\ Approver \subseteq Proc
  BY StoreAssumption DEF Reload, BackedInv, RecordsBacked, Backed, Records
<1>1. ASSUME NEW p \in Proc, Start(p) PROVE BackedInv'
  <2>1. \A q \in Proc \ {p} : pc[q] # "saving"
    BY <1>1 DEF Start, Alone, Quiet
  <2> QED
    BY <1>1, <2>1, BackedQuiet DEF Start
<1>2. ASSUME NEW p \in Proc, Exit(p) PROVE BackedInv'
  BY <1>2, BackedQuiet DEF Exit
<1>3. ASSUME NEW p \in Proc, NEW k \in Offers(p), NEW a \in Artifact, Begin(p, k, a)
      PROVE  BackedInv'
  BY <1>3, BackedQuiet DEF Begin, BackedInv, Tracks
<1>4. ASSUME NEW p \in Proc, NEW a \in Artifact, NEW c \in backups[a], BeginRollback(p, a, c)
      PROVE  BackedInv'
  BY <1>4, BackedQuiet DEF BeginRollback
<1>5. ASSUME NEW p \in Proc, NEW a \in Artifact, BackUp(p, a) PROVE BackedInv'
  <2>1. /\ pc' = [pc EXCEPT ![p] = pc'[p]] /\ pc'[p] \in {"idle", "off"}
        /\ UNCHANGED <<files, request, restored>>
    BY <1>5 DEF BackUp
  <2>2. /\ mem'[p] \subseteq mem[p] /\ (pc'[p] = "off" => mem'[p] = {})
        /\ \A q \in Proc \ {p} : mem'[q] = mem[q]
    BY <1>5 DEF BackUp
  <2> QED
    BY <2>1, <2>2, BackedQuiet
<1>6. ASSUME NEW p \in Proc, OpenArtifact(p) PROVE BackedInv'
  <2>0. pc[p] \in Busy /\ Unopened(p) /\ Tracks(p) /\ Undisturbed(p) /\ target[p] \in Artifact
    BY <1>6 DEF OpenArtifact, Busy, Unopened, BackedInv, SerialInv
  <2>1. \A b \in Artifact : Backed(b) => Backed(b)'
    BY <1>6 DEF OpenArtifact, Backed, EmptyFile, Torn
  <2>2. RecordsBacked'
    BY <1>6, <2>1 DEF OpenArtifact, RecordsBacked, BackedInv, Backed, Records
  <2>3. Reload' = Reload /\ UNCHANGED <<mem, request, restored, records>>
    BY <1>6 DEF OpenArtifact, Reload
  <2>4. \A q \in Proc \ {p} : Quiet(q) /\ pc[q] \notin Busy /\ pc'[q] = pc[q]
    BY <1>6, <2>0, Others DEF OpenArtifact
  <2>5. kind[p] # "rollback" /\ copy[p].status = "draft" =>
           target[p] \in restored \/ Unrecorded(target[p])
    <3>1. CASE kind[p] = "revoke"
      <4>1. pc[p] = "recorded" /\ p \in Approver \cap Resident
        BY <1>6, <2>0, <3>1 DEF OpenArtifact, Undisturbed, Legitimate, Offers
      <4>2. ASSUME NEW q \in Approver, q # p PROVE mem[q] = {}
        <5>1. q \in Proc /\ q \notin Resident
          BY <1>0, <4>1, <4>2 DEF OneWorker
        <5>2. pc[q] = "off"
          BY <2>4, <4>2, <5>1 DEF Quiet
        <5> QED
          BY <5>1, <5>2 DEF BackedInv, Tracks
      <4>3. target[p] \notin Reload /\ target[p] \notin mem[p]
        BY <2>0, <4>1 DEF Tracks
      <4>4. \A q \in Approver : target[p] \notin mem[q]
        BY <4>2, <4>3
      <4> QED
        BY <4>3, <4>4 DEF Unrecorded
    <3>2. CASE kind[p] \notin {"revoke", "rollback"}
      <4>1. /\ file[target[p]] = seen[p]
            /\ Permits(kind[p], target[p], seen[p])
            /\ copy[p] = Result(kind[p], seen[p])
        BY <2>0, <3>2 DEF Undisturbed, Legitimate
      <4>2. copy[p].status = "draft" => seen[p].status \in {"absent", "draft"}
        BY <3>2, <4>1 DEF Permits, Result
      <4>3. copy[p].status = "draft" /\ target[p] \notin restored => ~Backed(target[p])
        BY <4>1, <4>2 DEF Backed, Torn
      <4>4. ~Backed(target[p]) => Unrecorded(target[p])
        BY <1>0 DEF Unrecorded, BackedInv, Tracks
      <4> QED
        BY <4>3, <4>4
    <3> QED
      BY <3>1, <3>2
  <2>6. pc'[p] = "saving"
    BY <1>6 DEF OpenArtifact
  <2>7. Tracks(p)'
    <3>1. p \in Approver => \A a \in mem[p] : Backed(a)'
      BY <2>0, <2>1 DEF Tracks
    <3>2. Unrecorded(target[p]) => Unrecorded(target[p])'
      BY <2>3 DEF Unrecorded
    <3> QED
      BY <2>3, <2>5, <2>6, <3>1, <3>2 DEF Tracks
  <2>8. ASSUME NEW q \in Proc \ {p} PROVE Tracks(q)'
    <3>1. Tracks(q) /\ pc'[q] = pc[q] /\ pc[q] \notin {"saving", "recording", "recorded"}
      BY <2>4 DEF BackedInv, Busy
    <3>2. q \in Approver => \A a \in mem[q] : Backed(a)'
      BY <2>1, <3>1 DEF Tracks
    <3> QED
      BY <2>3, <3>1, <3>2 DEF Tracks
  <2> QED
    BY <2>2, <2>7, <2>8 DEF BackedInv
<1>7. ASSUME NEW p \in Proc, WriteArtifact(p) PROVE BackedInv'
  <2>0. /\ pc[p] = "saving" /\ pc[p] \in Busy /\ Tracks(p) /\ Undisturbed(p)
        /\ target[p] \in Artifact /\ Legitimate(p)
    BY <1>7 DEF WriteArtifact, Busy, BackedInv, SerialInv, Undisturbed
  <2>1. file' = [file EXCEPT ![target[p]] = copy[p]] /\ records' = records
    BY <1>7, <2>0 DEF WriteArtifact, Overwritten, Undisturbed
  <2>2. kind[p] # "rollback" => copy[p].status \in {"draft", "approved", "locked"}
    BY <2>0 DEF Legitimate, Permits, Result, Valid
  <2>3. kind[p] = "approve" => copy[p].status = "approved"
    BY <2>0 DEF Legitimate, Result
  <2>4. ASSUME NEW b \in Artifact, Backed(b),
               b = target[p] => \/ kind[p] = "rollback"
                                \/ copy[p].status # "draft" \/ target[p] \in restored
        PROVE  Backed(b)'
    <3>1. CASE b = target[p]
      <4>1. CASE kind[p] = "rollback"
        BY <1>7, <3>1, <4>1 DEF WriteArtifact, Backed
      <4>2. CASE kind[p] = "approve"
        BY <2>1, <2>3, <3>1, <4>2 DEF Backed
      <4>3. CASE kind[p] \notin {"rollback", "approve"}
        <5>1. restored' = restored
          BY <1>7, <4>3 DEF WriteArtifact
        <5> QED
          BY <2>1, <2>2, <2>4, <3>1, <4>3, <5>1 DEF Backed
      <4> QED
        BY <4>1, <4>2, <4>3
    <3>2. CASE b # target[p]
      <4>1. b \in restored => b \in restored'
        BY <1>7, <3>2 DEF WriteArtifact
      <4> QED
        BY <2>1, <2>4, <3>2, <4>1 DEF Backed
    <3> QED
      BY <3>1, <3>2
  <2>5. kind[p] = "rollback" \/ copy[p].status # "draft" \/ target[p] \in restored
           \/ Unrecorded(target[p])
    BY <2>0 DEF Tracks
  <2>6. \A b \in Reload : Backed(b)'
    BY <1>0, <2>4, <2>5 DEF Unrecorded
  <2>7. RecordsBacked'
    BY <2>1, <2>6 DEF RecordsBacked, Backed, Reload
  <2>8. \A q \in Proc \ {p} : pc[q] \notin Busy /\ pc'[q] = pc[q] /\ mem'[q] = mem[q]
    BY <1>7, <2>0, Others DEF WriteArtifact, Finish
  <2>9. ASSUME NEW q \in Approver PROVE \A b \in mem[q] : Backed(b)'
    <3>1. q \in Proc /\ \A b \in mem[q] : Backed(b) /\ b \in Artifact
      BY <1>0 DEF BackedInv, Tracks
    <3> QED
      BY <2>4, <2>5, <3>1 DEF Unrecorded
  <2>10. mem'[p] \subseteq mem[p] /\ (pc'[p] = "off" => mem'[p] = {})
         /\ pc'[p] \in {"saved", "idle", "off"}
    BY <1>7, <2>0 DEF WriteArtifact, Finish, Done, Kept
  <2>11. Tracks(p)'
    BY <2>9, <2>10 DEF Tracks
  <2>12. \A q \in Proc \ {p} : Tracks(q)'
    <3> SUFFICES ASSUME NEW q \in Proc \ {p} PROVE Tracks(q)'
      OBVIOUS
    <3>1. Tracks(q) /\ pc'[q] \notin {"saving", "recording", "recorded"}
      BY <2>8 DEF BackedInv, Busy
    <3> QED
      BY <2>8, <2>9, <3>1 DEF Tracks
  <2> QED
    BY <2>7, <2>11, <2>12 DEF BackedInv
<1>8. ASSUME NEW p \in Proc, OpenRecords(p) PROVE BackedInv'
  <2>0. pc[p] \in Busy /\ kind[p] \in {"approve", "revoke"} /\ Tracks(p) /\ Undisturbed(p)
    BY <1>8 DEF OpenRecords, Busy, BackedInv, SerialInv
  <2>1. p \in Approver
    BY <2>0 DEF Undisturbed, Legitimate, Offers
  <2>2. kind[p] = "approve" => Backed(target[p])
    BY <1>8, <2>0 DEF OpenRecords, Undisturbed, Legitimate, Backed, Result
  <2>3. UNCHANGED <<file, request, restored>> /\ records' = EmptyRecords /\ Reload' = {}
    BY <1>8 DEF OpenRecords, Reload, EmptyRecords
  <2>4. RecordsBacked'
    BY <2>3 DEF RecordsBacked, EmptyRecords
  <2>5. \A q \in Proc \ {p} : pc[q] \notin Busy /\ pc'[q] = pc[q] /\ mem'[q] = mem[q]
    BY <1>8, <2>0, Others DEF OpenRecords
  <2>6. \A b \in mem'[p] : b \in mem[p] \/ (kind[p] = "approve" /\ b = target[p])
    BY <1>8 DEF OpenRecords
  <2>7. \A b \in mem'[p] : Backed(b)'
    BY <2>0, <2>1, <2>2, <2>3, <2>6 DEF Tracks, Backed
  <2>8. kind[p] = "revoke" => target[p] \notin mem'[p]
    BY <1>8 DEF OpenRecords
  <2>9. pc'[p] = "recording"
    BY <1>8 DEF OpenRecords
  <2>10. Tracks(p)'
    BY <2>3, <2>7, <2>8, <2>9 DEF Tracks
  <2>11. ASSUME NEW q \in Proc \ {p} PROVE Tracks(q)'
    <3>1. Tracks(q) /\ pc'[q] \notin {"saving", "recording", "recorded"}
      BY <2>5 DEF BackedInv, Busy
    <3>2. q \in Approver => \A b \in mem'[q] : Backed(b)'
      BY <2>3, <2>5, <3>1 DEF Tracks, Backed
    <3> QED
      BY <2>5, <3>1, <3>2 DEF Tracks
  <2> QED
    BY <2>4, <2>10, <2>11 DEF BackedInv
<1>9. ASSUME NEW p \in Proc, WriteRecords(p) PROVE BackedInv'
  <2>0. /\ pc[p] = "recording" /\ pc[p] \in Busy /\ Tracks(p) /\ Undisturbed(p)
        /\ kind[p] \in {"approve", "revoke"} /\ mem[p] \subseteq Artifact
    BY <1>9 DEF WriteRecords, Busy, BackedInv, SerialInv, Undisturbed
  <2>1. p \in Approver
    BY <2>0 DEF Undisturbed, Legitimate, Offers
  <2>2. /\ records' = [state |-> "whole", ids |-> mem[p]] /\ Reload' = mem[p]
        /\ UNCHANGED <<file, restored>>
    BY <1>9, <2>0 DEF WriteRecords, Overwritten, Tracks, Reload
  <2>3. \A b \in Artifact : Backed(b)' <=> Backed(b)
    BY <2>2 DEF Backed
  <2>4. RecordsBacked'
    BY <2>0, <2>1, <2>2, <2>3 DEF RecordsBacked, Tracks, Backed
  <2>5. \A q \in Proc \ {p} : pc[q] \notin Busy /\ pc'[q] = pc[q] /\ mem'[q] = mem[q]
    BY <1>9, <2>0, Others DEF WriteRecords, Finish
  <2>6. Tracks(p)'
    <3>1. mem'[p] \subseteq mem[p]
      BY <1>9 DEF WriteRecords, Finish, Kept
    <3>2. \A b \in mem'[p] : Backed(b)'
      BY <2>0, <2>1, <2>3, <3>1 DEF Tracks
    <3>3. CASE kind[p] = "revoke"
      <4>1. pc'[p] = "recorded" /\ target'[p] = target[p] /\ mem' = mem
        BY <1>9, <3>3 DEF WriteRecords
      <4>2. target[p] \notin mem[p]
        BY <2>0, <3>3 DEF Tracks
      <4> QED
        BY <2>2, <3>2, <4>1, <4>2 DEF Tracks
    <3>4. CASE kind[p] # "revoke"
      <4>1. pc'[p] \in {"idle", "off"} /\ (pc'[p] = "off" => mem'[p] = {})
        BY <1>9, <3>4 DEF WriteRecords, Finish, Done, Kept
      <4> QED
        BY <3>2, <4>1 DEF Tracks
    <3> QED
      BY <3>3, <3>4
  <2>7. ASSUME NEW q \in Proc \ {p} PROVE Tracks(q)'
    <3>1. Tracks(q) /\ pc'[q] \notin {"saving", "recording", "recorded"}
      BY <2>5 DEF BackedInv, Busy
    <3>2. q \in Approver => \A b \in mem'[q] : Backed(b)'
      BY <2>3, <2>5, <3>1 DEF Tracks
    <3> QED
      BY <2>5, <3>1, <3>2 DEF Tracks
  <2> QED
    BY <2>4, <2>6, <2>7 DEF BackedInv
<1>10. ASSUME NEW p \in Proc, Crash(p) \/ Fail(p) PROVE BackedInv'
  <2>1. /\ pc' = [pc EXCEPT ![p] = pc'[p]] /\ pc'[p] \in {"off", "idle"}
        /\ UNCHANGED <<files, restored>> /\ mem'[p] \subseteq mem[p]
        /\ pc'[p] = "off" => mem'[p] = {}
    BY <1>10 DEF Crash, Fail
  <2>2. \A q \in Proc \ {p} : /\ mem'[q] = mem[q] /\ kind'[q] = kind[q]
                              /\ target'[q] = target[q] /\ copy'[q] = copy[q]
    BY <1>10 DEF Crash, Fail, Return
  <2> QED
    BY <2>1, <2>2, BackedQuiet
<1>11. CASE UNCHANGED vars
  BY <1>11 DEF vars, BackedInv, RecordsBacked, Tracks, Reload, Backed, Unrecorded
<1> QED
  BY <1>1, <1>2, <1>3, <1>4, <1>5, <1>6, <1>7, <1>8, <1>9, <1>10, <1>11 DEF Next, Step

(* A record in the approvals file is never left standing for a draft, even *)
(* by a crash or a failed write, if commands do not overlap and a single   *)
(* web worker is at work beside any number of CLI commands, and unless a   *)
(* rollback brings the draft back.                                         *)
THEOREM RecordsStayBacked ==
    ASSUME Serialised, OneWorker PROVE Spec => []RecordsBacked
<1>1. Init => BackedInv
  BY DEF Init, BackedInv, RecordsBacked, Tracks, NoRecords
<1>2. TypeOK /\ SerialInv /\ BackedInv /\ [Next]_vars => BackedInv'
  BY BackedStep
<1>3. BackedInv => RecordsBacked
  BY DEF BackedInv
<1> QED
  BY <1>1, <1>2, <1>3, Serial, PTL DEF Spec

-----------------------------------------------------------------------------
(* What CI finds when no operation was ever cut short, for any number of   *)
(* trackers.                                                               *)

(* Process p is about to record artifact a, or was and is to erase it.     *)
Owes(p, a) ==
    \/ pc[p] \in {"saved", "recorded"} /\ target[p] = a
    \/ pc[p] = "recording" /\ (a \in mem[p] \/ (kind[p] = "revoke" /\ target[p] = a))

(* CI finds a record of a, or is excused.                                  *)
Settled(a) == a \in Reload \cup erased \cup restored

(* The approvals file is only empty while a process writes it, what is     *)
(* approved is in it or owed to it, and a CLI command knows all of it.     *)
Owing ==
    /\ records.state # "garbage"
    /\ records.state = "empty" => \E p \in Proc : pc[p] = "recording"
    /\ \A a \in Artifact : file[a].status \in {"approved", "locked"} =>
          Settled(a) \/ \E p \in Proc : Owes(p, a)
    /\ \A p \in Proc :
          /\ pc[p] = "recording" => records = EmptyRecords
          /\ /\ pc[p] = "saving" /\ kind[p] \notin {"approve", "rollback"}
             /\ copy[p].status \in {"approved", "locked"}
             => Settled(target[p])
          /\ p \notin Resident /\ pc[p] \in {"idle", "loaded", "saving", "saved"}
             => mem[p] = Reload

OwingInv == ~cut => Owing

LEMMA OwingStep ==
    ASSUME Serialised, TypeOK, SerialInv, OwingInv, [Next]_vars
    PROVE  OwingInv'
<1> SUFFICES ASSUME ~cut' PROVE Owing'
  BY DEF OwingInv
<1> USE DEF TypeOK, files, request, history
<1>0. Reload \subseteq Artifact
  BY DEF Reload, Records
(* The steps that change neither file and begin or end no debt.            *)
<1>1. ASSUME NEW p \in Proc, Owing, UNCHANGED <<files, erased, restored>>,
             pc[p] \in {"off", "idle"}, pc'[p] \in {"off", "idle", "loaded"},
             pc'[p] # "off" /\ p \notin Resident => mem'[p] = Reload,
             \A q \in Proc \ {p} : /\ pc'[q] = pc[q] /\ mem'[q] = mem[q]
                                   /\ kind'[q] = kind[q] /\ target'[q] = target[q]
                                   /\ copy'[q] = copy[q]
      PROVE  Owing'
  <2>1. \A q \in Proc, a \in Artifact : Owes(q, a) => Owes(q, a)'
    BY <1>1 DEF Owes
  <2>2. Reload' = Reload /\ \A a \in Artifact : Settled(a)' <=> Settled(a)
    BY <1>1 DEF Reload, Settled
  <2>3. ASSUME NEW q \in Proc
        PROVE  (/\ pc[q] = "recording" => records = EmptyRecords
                /\ /\ pc[q] = "saving" /\ kind[q] \notin {"approve", "rollback"}
                   /\ copy[q].status \in {"approved", "locked"}
                   => Settled(target[q])
                /\ q \notin Resident /\ pc[q] \in {"idle", "loaded", "saving", "saved"}
                   => mem[q] = Reload)'
    BY <1>1, <2>2 DEF Owing
  <2>4. (records.state = "empty" => \E q \in Proc : pc[q] = "recording")'
    BY <1>1 DEF Owing
  <2>5. (\A a \in Artifact : file[a].status \in {"approved", "locked"} =>
          Settled(a) \/ \E q \in Proc : Owes(q, a))'
    BY <1>1, <2>1, <2>2 DEF Owing
  <2> QED
    BY <1>1, <2>3, <2>4, <2>5 DEF Owing
<1>2. ASSUME NEW p \in Proc, Start(p) \/ Exit(p) PROVE Owing'
  <2>1. Owing
    BY <1>2 DEF Start, Exit, OwingInv
  <2> QED
    BY <1>1, <1>2, <2>1 DEF Start, Exit
<1>3. ASSUME NEW p \in Proc, NEW k \in Offers(p), NEW a \in Artifact, Begin(p, k, a)
      PROVE  Owing'
  <2>1. Owing
    BY <1>3 DEF Begin, OwingInv
  <2> QED
    BY <1>1, <1>3, <2>1 DEF Begin, Owing
<1>4. ASSUME NEW p \in Proc, NEW a \in Artifact, NEW c \in backups[a], BeginRollback(p, a, c)
      PROVE  Owing'
  <2>1. Owing
    BY <1>4 DEF BeginRollback, OwingInv
  <2> QED
    BY <1>1, <1>4, <2>1 DEF BeginRollback, Owing
<1>5. ASSUME NEW p \in Proc, NEW a \in Artifact, BackUp(p, a) PROVE Owing'
  <2>1. Owing /\ pc' = pc /\ mem' = mem
    BY <1>5 DEF BackUp, OwingInv
  <2> QED
    BY <1>1, <1>5, <2>1 DEF BackUp, Owing
<1>6. ASSUME NEW p \in Proc, OpenArtifact(p) PROVE Owing'
  <2>0. /\ pc[p] \in {"loaded", "recorded"} /\ pc[p] \in Busy /\ Undisturbed(p)
        /\ pc[p] = "recorded" <=> kind[p] = "revoke"
    BY <1>6 DEF OpenArtifact, Busy, SerialInv
  <2>1. /\ Owing /\ UNCHANGED <<records, request, mem, erased, restored>>
        /\ file' = [file EXCEPT ![target[p]] = EmptyFile]
        /\ pc' = [pc EXCEPT ![p] = "saving"]
    BY <1>6 DEF OpenArtifact, OwingInv
  <2>2. \A q \in Proc \ {p} : pc[q] \notin Busy
    BY <2>0, Others
  <2>3. ASSUME kind[p] \notin {"approve", "rollback"},
               copy[p].status \in {"approved", "locked"}
        PROVE  Settled(target[p])
    <3>1. /\ file[target[p]] = seen[p] /\ copy[p] = Result(kind[p], seen[p])
          /\ Permits(kind[p], target[p], seen[p])
      BY <2>0, <2>3 DEF Undisturbed, Legitimate, Unopened
    <3>2. kind[p] # "revoke" /\ file[target[p]].status \in {"approved", "locked"}
      BY <2>3, <3>1 DEF Result, Permits
    <3>3. pc[p] = "loaded"
      BY <2>0, <3>2
    <3>4. \A q \in Proc : ~Owes(q, target[p])
      BY <2>2, <3>3 DEF Owes, Busy
    <3> QED
      BY <2>1, <3>2, <3>4 DEF Owing
  <2>4. \A b \in Artifact \ {target[p]} : \A q \in Proc : Owes(q, b) => Owes(q, b)'
    <3> SUFFICES ASSUME NEW b \in Artifact \ {target[p]}, NEW q \in Proc, Owes(q, b)
                 PROVE  Owes(q, b)'
      OBVIOUS
    <3>1. q # p
      BY <2>0 DEF Owes
    <3> QED
      BY <2>1, <3>1 DEF Owes
  <2>5. \A b \in Artifact : file'[b].status \in {"approved", "locked"}
                               => b # target[p] /\ file'[b] = file[b]
    BY <2>1 DEF EmptyFile
  <2>6. Reload' = Reload /\ \A b \in Artifact : Settled(b)' <=> Settled(b)
    BY <2>1 DEF Reload, Settled
  <2>7. (\A a \in Artifact : file[a].status \in {"approved", "locked"} =>
          Settled(a) \/ \E q \in Proc : Owes(q, a))'
    BY <2>1, <2>4, <2>5, <2>6 DEF Owing
  <2>8. p \notin Resident => pc[p] = "loaded"
    BY <2>0 DEF Undisturbed, Legitimate, Offers
  <2>9. ASSUME NEW q \in Proc
        PROVE  (/\ pc[q] = "recording" => records = EmptyRecords
                /\ /\ pc[q] = "saving" /\ kind[q] \notin {"approve", "rollback"}
                   /\ copy[q].status \in {"approved", "locked"}
                   => Settled(target[q])
                /\ q \notin Resident /\ pc[q] \in {"idle", "loaded", "saving", "saved"}
                   => mem[q] = Reload)'
    <3>1. CASE q = p
      BY <2>1, <2>3, <2>6, <2>8, <3>1 DEF Owing
    <3>2. CASE q # p
      BY <2>1, <2>6, <3>2 DEF Owing
    <3> QED
      BY <3>1, <3>2
  <2>10. (records.state = "empty" => \E q \in Proc : pc[q] = "recording")'
    BY <2>0, <2>1 DEF Owing
  <2> QED
    BY <2>1, <2>7, <2>9, <2>10 DEF Owing
<1>7. ASSUME NEW p \in Proc, WriteArtifact(p) PROVE Owing'
  <2>0. pc[p] = "saving" /\ pc[p] \in Busy /\ Undisturbed(p) /\ Legitimate(p)
    BY <1>7 DEF WriteArtifact, Busy, SerialInv, Undisturbed
  <2>1. /\ Owing /\ UNCHANGED <<records, erased>>
        /\ file' = [file EXCEPT ![target[p]] = copy[p]]
    BY <1>7, <2>0 DEF WriteArtifact, OwingInv, Undisturbed, Overwritten
  <2>2. \A q \in Proc \ {p} : /\ pc[q] \notin Busy /\ pc'[q] = pc[q] /\ mem'[q] = mem[q]
    BY <1>7, <2>0, Others DEF WriteArtifact, Finish
  <2>3. \A q \in Proc, b \in Artifact : ~Owes(q, b)
    BY <2>0, <2>2 DEF Owes, Busy
  <2>4. Reload' = Reload
    BY <2>1 DEF Reload
  <2>5. kind[p] = "approve" =>
           pc'[p] = "saved" /\ target' = target /\ mem' = mem /\ Owes(p, target[p])'
    BY <1>7 DEF WriteArtifact, Owes
  <2>6. kind[p] # "approve" => pc'[p] = Done(p)
    BY <1>7 DEF WriteArtifact, Finish
  <2>7. ASSUME NEW b \in Artifact, file'[b].status \in {"approved", "locked"}
        PROVE  Settled(b)' \/ \E q \in Proc : Owes(q, b)'
    <3>1. CASE b = target[p]
      <4>1. CASE kind[p] = "approve"
        BY <2>5, <3>1, <4>1
      <4>2. CASE kind[p] = "rollback"
        BY <1>7, <3>1, <4>2 DEF WriteArtifact, Settled
      <4>3. CASE kind[p] \notin {"approve", "rollback"}
        <5>1. Settled(b)
          BY <2>0, <2>1, <2>7, <3>1, <4>3 DEF Owing
        <5>2. restored' = restored
          BY <1>7, <4>3 DEF WriteArtifact
        <5> QED
          BY <2>1, <2>4, <5>1, <5>2 DEF Settled
      <4> QED
        BY <4>1, <4>2, <4>3
    <3>2. CASE b # target[p]
      <4>1. Settled(b)
        BY <2>1, <2>3, <2>7, <3>2 DEF Owing
      <4>2. b \in restored => b \in restored'
        BY <1>7, <3>2 DEF WriteArtifact
      <4> QED
        BY <2>1, <2>4, <4>1, <4>2 DEF Settled
    <3> QED
      BY <3>1, <3>2
  <2>8. pc'[p] \in {"saved", "idle", "off"} /\ (p \notin Resident => pc'[p] \in {"saved", "off"})
    BY <2>5, <2>6 DEF Done
  <2>9. ASSUME NEW q \in Proc
        PROVE  (/\ pc[q] = "recording" => records = EmptyRecords
                /\ /\ pc[q] = "saving" /\ kind[q] \notin {"approve", "rollback"}
                   /\ copy[q].status \in {"approved", "locked"}
                   => Settled(target[q])
                /\ q \notin Resident /\ pc[q] \in {"idle", "loaded", "saving", "saved"}
                   => mem[q] = Reload)'
    <3>1. CASE q = p
      <4>1. p \notin Resident /\ pc'[p] = "saved" => mem'[p] = Reload
        BY <2>0, <2>1, <2>5, <2>6 DEF Owing, Done
      <4> QED
        BY <2>4, <2>8, <3>1, <4>1
    <3>2. CASE q # p
      BY <2>1, <2>2, <2>4, <3>2 DEF Owing, Busy
    <3> QED
      BY <3>1, <3>2
  <2>10. (records.state = "empty" => \E q \in Proc : pc[q] = "recording")'
    BY <2>0, <2>1, <2>2 DEF Owing
  <2> QED
    BY <2>1, <2>7, <2>9, <2>10 DEF Owing
<1>8. ASSUME NEW p \in Proc, OpenRecords(p) PROVE Owing'
  <2>0. /\ pc[p] \in {"saved", "loaded"} /\ pc[p] \in Busy /\ Undisturbed(p)
        /\ pc[p] = "loaded" => kind[p] = "revoke"
    BY <1>8 DEF OpenRecords, Busy, SerialInv
  <2>1. /\ Owing /\ UNCHANGED <<file, request, restored>>
        /\ records' = EmptyRecords /\ pc' = [pc EXCEPT ![p] = "recording"]
        /\ erased' = (erased \cup Missed(p)) \ mem'[p]
    BY <1>8 DEF OpenRecords, OwingInv
  <2>2. \A q \in Proc \ {p} : pc[q] \notin Busy /\ pc'[q] = pc[q] /\ mem'[q] = mem[q]
    BY <1>8, <2>0, Others DEF OpenRecords
  <2>3. p \notin Resident => mem[p] = Reload
    BY <2>0, <2>1 DEF Undisturbed, Legitimate, Offers, Owing
  <2>4. \A b \in mem[p] : b \in mem'[p] \/ (kind[p] = "revoke" /\ target[p] = b)
    BY <1>8 DEF OpenRecords
  <2>5. pc'[p] = "recording" /\ target'[p] = target[p] /\ kind'[p] = kind[p]
    BY <2>1
  <2>6. \A b \in Reload : Owes(p, b)' \/ b \in erased'
    <3> SUFFICES ASSUME NEW b \in Reload, b \notin mem'[p], ~(kind[p] = "revoke" /\ target[p] = b)
                 PROVE  b \in erased'
      BY <2>5 DEF Owes
    <3>1. b \notin mem[p]
      BY <2>4
    <3>2. b \in Missed(p)
      BY <2>3, <3>1 DEF Missed
    <3> QED
      BY <2>1, <3>2
  <2>7. \A b \in erased : Owes(p, b)' \/ b \in erased'
    BY <2>1, <2>5 DEF Owes
  <2>8. Owes(p, target[p])'
    BY <1>8, <2>0, <2>5 DEF OpenRecords, Owes
  <2>9. \A b \in Artifact, q \in Proc : Owes(q, b) => b = target[p]
    BY <2>0, <2>2 DEF Owes, Busy
  <2>10. \A b \in Artifact : file'[b].status \in {"approved", "locked"} =>
            Settled(b)' \/ Owes(p, b)'
    BY <2>1, <2>6, <2>7, <2>8, <2>9 DEF Owing, Settled
  <2>11. ASSUME NEW q \in Proc
        PROVE  (/\ pc[q] = "recording" => records = EmptyRecords
                /\ /\ pc[q] = "saving" /\ kind[q] \notin {"approve", "rollback"}
                   /\ copy[q].status \in {"approved", "locked"}
                   => Settled(target[q])
                /\ q \notin Resident /\ pc[q] \in {"idle", "loaded", "saving", "saved"}
                   => mem[q] = Reload)'
    <3>1. CASE q = p
      BY <2>1, <2>5, <3>1
    <3>2. CASE q # p
      <4>1. pc'[q] \in {"off", "idle"} /\ (pc'[q] = "idle" => q \in Resident)
        BY <2>0, <2>1, <3>2, Others DEF Quiet
      <4> QED
        BY <4>1
    <3> QED
      BY <3>1, <3>2
  <2> QED
    BY <2>1, <2>5, <2>10, <2>11 DEF Owing, EmptyRecords
<1>9. ASSUME NEW p \in Proc, WriteRecords(p) PROVE Owing'
  <2>0. /\ pc[p] = "recording" /\ pc[p] \in Busy /\ Undisturbed(p)
        /\ kind[p] \in {"approve", "revoke"}
    BY <1>9 DEF WriteRecords, Busy, SerialInv, Undisturbed
  <2>1. Owing /\ records = EmptyRecords /\ UNCHANGED <<file, erased, restored>>
    BY <1>9, <2>0 DEF WriteRecords, OwingInv, Owing
  <2>2. records' = [state |-> "whole", ids |-> mem[p]] /\ Reload' = mem[p] /\ Reload = {}
    BY <1>9, <2>1 DEF WriteRecords, Overwritten, Reload, EmptyRecords
  <2>3. \A q \in Proc \ {p} : Quiet(q) /\ pc[q] \notin Busy /\ pc'[q] = pc[q]
    BY <1>9, <2>0, Others DEF WriteRecords, Finish
  <2>4. \A b \in Artifact, q \in Proc : Owes(q, b) => q = p
    BY <2>3 DEF Owes, Busy
  <2>5. \A b \in Artifact : Owes(p, b) => b \in mem[p] \/ Owes(p, b)'
    <3> SUFFICES ASSUME NEW b \in Artifact, Owes(p, b), b \notin mem[p] PROVE Owes(p, b)'
      OBVIOUS
    <3>1. kind[p] = "revoke" /\ target[p] = b
      BY <2>0 DEF Owes
    <3> QED
      BY <1>9, <3>1 DEF WriteRecords, Owes
  <2>6. \A b \in Artifact : file'[b].status \in {"approved", "locked"} =>
           Settled(b)' \/ Owes(p, b)'
    BY <2>1, <2>2, <2>4, <2>5 DEF Owing, Settled
  <2>7. pc'[p] \in {"recorded", "idle", "off"} /\ (pc'[p] = "idle" => p \in Resident)
    BY <1>9 DEF WriteRecords, Finish, Done
  <2>8. ASSUME NEW q \in Proc
        PROVE  (/\ pc[q] = "recording" => records = EmptyRecords
                /\ /\ pc[q] = "saving" /\ kind[q] \notin {"approve", "rollback"}
                   /\ copy[q].status \in {"approved", "locked"}
                   => Settled(target[q])
                /\ q \notin Resident /\ pc[q] \in {"idle", "loaded", "saving", "saved"}
                   => mem[q] = Reload)'
    <3>1. pc'[q] \in {"recorded", "idle", "off"} /\ (pc'[q] = "idle" => q \in Resident)
      BY <2>3, <2>7 DEF Quiet
    <3> QED
      BY <3>1
  <2> QED
    BY <2>2, <2>6, <2>8 DEF Owing
<1>10. ASSUME NEW p \in Proc, Crash(p) PROVE Owing'
  <2>1. Owing /\ pc[p] = "idle" /\ pc'[p] = "off"
    BY <1>10 DEF Crash, OwingInv
  <2> QED
    BY <1>1, <1>10, <2>1 DEF Crash, Return
<1>11. ASSUME NEW p \in Proc, Fail(p) PROVE Owing'
  BY <1>11 DEF Fail
<1>12. CASE UNCHANGED vars
  BY <1>12 DEF vars, OwingInv, Owing, Owes, Reload, Settled
<1> QED
  BY <1>2, <1>3, <1>4, <1>5, <1>6, <1>7, <1>8, <1>9, <1>10, <1>11, <1>12 DEF Next, Step

(* CI finds every approved or locked artifact in the approvals file when   *)
(* no operation is under way and none was ever cut short, except what a    *)
(* web worker saved over unread and what a rollback put back: every        *)
(* operation, in whatever order, leaves the two files in agreement.  Any   *)
(* number of CLI commands and web workers approve and revoke.              *)
THEOREM CIPasses == ASSUME Serialised PROVE Spec => []CIPassesAtRest
<1>1. Init => OwingInv
  <2> SUFFICES ASSUME Init PROVE Owing
    BY DEF OwingInv
  <2>1. records.state = "whole" /\ \A p \in Proc : pc[p] = "off"
    BY DEF Init, NoRecords
  <2>2. \A a \in Artifact : file[a].status = "absent"
    BY DEF Init, NoFile
  <2> QED
    BY <2>1, <2>2 DEF Owing
<1>2. TypeOK /\ SerialInv /\ OwingInv /\ [Next]_vars => OwingInv'
  BY OwingStep
<1>3. TypeOK /\ OwingInv => CIPassesAtRest
  <2> SUFFICES ASSUME TypeOK, Owing, \A p \in Proc : Quiet(p)
               PROVE  CIVerifiedBut(erased \cup restored)
    BY DEF OwingInv, CIPassesAtRest, AtRest
  <2>1. \A p \in Proc : pc[p] # "recording" /\ \A a \in Artifact : ~Owes(p, a)
    BY DEF Quiet, Owes
  <2>2. records.state = "whole"
    BY <2>1 DEF Owing, TypeOK, Records, Torn
  <2> QED
    BY <2>1, <2>2 DEF Owing, CIVerifiedBut, Reload, Settled
<1> QED
  BY <1>1, <1>2, <1>3, Serial, PTL DEF Spec

-----------------------------------------------------------------------------
(* The store implements ArtifactLifecycle.                                 *)

LEMMA AbsUnchanged ==
    ASSUME NEW a \in Artifact, file'[a] = file[a], Saving(a)' = Saving(a),
           \A q \in Saving(a) : seen'[q] = seen[q]
    PROVE  Abs(a)' = Abs(a)
<1>1. Saving(a) # {} => (CHOOSE q \in Saving(a) : TRUE) \in Saving(a)
  OBVIOUS
<1> QED
  BY <1>1 DEF Abs

LEMMA AbsStep ==
    ASSUME Serialised, TypeOK, SerialInv, [Next]_vars
    PROVE  [Lifecycle!Next]_<<AbsState, AbsKept>>
<1> USE DEF TypeOK, SerialInv, files, request, history
<1> DEFINE Same(a)  == Abs(a)' = Abs(a)
           Mapped   == [Lifecycle!Next]_<<AbsState, AbsKept>>
<1>0. ASSUME backups' = backups, \A a \in Artifact : Same(a) PROVE Mapped
  BY <1>0 DEF AbsState, AbsKept
<1>1. ASSUME NEW p \in Proc, Start(p) \/ Exit(p) \/ OpenRecords(p) \/ WriteRecords(p)
      PROVE  Mapped
  <2>1. ASSUME NEW a \in Artifact PROVE Same(a)
    <3>1. /\ Saving(a)' = Saving(a) /\ file' = file
          /\ \A q \in Saving(a) : seen'[q] = seen[q]
      BY <1>1 DEF Saving, Start, Exit, OpenRecords, WriteRecords, Finish, Return, Done
    <3> QED
      BY <3>1, AbsUnchanged
  <2>2. backups' = backups
    BY <1>1 DEF Start, Exit, OpenRecords, WriteRecords
  <2> QED
    BY <1>0, <2>1, <2>2
<1>2. ASSUME NEW p \in Proc,
             \/ \E k \in Offers(p), a \in Artifact : Begin(p, k, a)
             \/ \E a \in Artifact : \E c \in backups[a] : BeginRollback(p, a, c)
      PROVE  Mapped
  <2>1. ASSUME NEW a \in Artifact PROVE Same(a)
    <3>1. /\ Saving(a)' = Saving(a) /\ file' = file
          /\ \A q \in Saving(a) : seen'[q] = seen[q]
      BY <1>2 DEF Saving, Begin, BeginRollback
    <3> QED
      BY <3>1, AbsUnchanged
  <2>2. backups' = backups
    BY <1>2 DEF Begin, BeginRollback
  <2> QED
    BY <1>0, <2>1, <2>2
<1>3. ASSUME NEW p \in Proc, NEW t \in Artifact, BackUp(p, t) PROVE Mapped
  <2>1. ASSUME NEW a \in Artifact PROVE Same(a)
    <3>1. /\ Saving(a)' = Saving(a) /\ file' = file
          /\ \A q \in Saving(a) : seen'[q] = seen[q]
      BY <1>3 DEF Saving, BackUp
    <3> QED
      BY <3>1, AbsUnchanged
  <2>2. AbsState' = AbsState
    BY <2>1 DEF AbsState
  <2>3. AbsState[t] = file[t] /\ View(file[t]) = file[t] /\ View(EmptyFile) = Lifecycle!Lost
    BY <1>3 DEF BackUp, AbsState, Abs, View, Valid, Torn, EmptyFile, Lifecycle!Lost
  <2>4. PICK c \in {file[t], EmptyFile} : backups' = [backups EXCEPT ![t] = @ \cup {c}]
    BY <1>3 DEF BackUp
  <2>5. AbsKept' = [AbsKept EXCEPT ![t] = @ \cup {View(c)}]
    BY <2>4 DEF AbsKept
  <2>6. Migrator # {} /\ file[t].status \in {"draft", "approved", "locked"}
    BY <1>3 DEF BackUp, Valid
  <2>7. Lifecycle!Keep(t)
    <3>1. View(c) \in {AbsState[t], Lifecycle!Lost}
      BY <2>3, <2>4
    <3> QED
      BY <2>2, <2>3, <2>5, <2>6, <3>1 DEF Lifecycle!Keep
  <2> QED
    BY <2>7 DEF Lifecycle!Next
<1>4. ASSUME NEW p \in Proc, OpenArtifact(p) PROVE Mapped
  <2>1. \A q \in Proc \ {p} : Quiet(q)
    BY <1>4, Others DEF OpenArtifact, Busy
  <2>2. ASSUME NEW a \in Artifact \ {target[p]} PROVE Same(a)
    <3>1. /\ Saving(a)' = Saving(a) /\ file'[a] = file[a]
          /\ \A q \in Saving(a) : seen'[q] = seen[q]
      BY <1>4 DEF Saving, OpenArtifact
    <3> QED
      BY <3>1, AbsUnchanged
  <2>3. PICK t \in Artifact : t = target[p]
    OBVIOUS
  <2>4. Same(t)
    <3>1. file[t] = seen[p]
      BY <1>4, <2>3 DEF OpenArtifact, Undisturbed, Unopened
    <3>2. Saving(t) = {} /\ Saving(t)' = {p}
      BY <1>4, <2>1, <2>3 DEF Saving, OpenArtifact, Quiet
    <3>3. file'[t] = EmptyFile /\ seen' = seen
      BY <1>4, <2>3 DEF OpenArtifact
    <3>4. Abs(t)' = View(seen[p])
      BY <3>2, <3>3 DEF Abs, EmptyFile, Torn
    <3>5. Abs(t) = View(seen[p])
      BY <3>1, <3>2 DEF Abs
    <3> QED
      BY <3>4, <3>5
  <2> QED
    BY <1>0, <1>4, <2>2, <2>3, <2>4 DEF OpenArtifact
(* The end of a save, written or given up: the state of its artifact is    *)
(* what was loaded before, and that of no other changes.                   *)
<1>5. ASSUME NEW p \in Proc, NEW t \in Artifact, t = target[p], pc[p] = "saving",
             WriteArtifact(p) \/ Crash(p) \/ Fail(p)
      PROVE  /\ AbsState[t] = View(seen[p])
             /\ AbsState' = [AbsState EXCEPT ![t] = View(file'[t])]
             /\ UNCHANGED AbsKept
  <2>1. \A q \in Proc \ {p} : Quiet(q)
    BY <1>5, Others DEF Busy
  <2>2. \A q \in Proc \ {p} : pc'[q] = pc[q] /\ target'[q] = target[q] /\ seen'[q] = seen[q]
    BY <1>5 DEF WriteArtifact, Crash, Fail, Finish, Return
  <2>3. pc'[p] # "saving"
    BY <1>5 DEF WriteArtifact, Crash, Fail, Finish, Done
  <2>4. Saving(t) = {p} /\ Saving(t)' = {}
    BY <1>5, <2>1, <2>2, <2>3 DEF Saving, Quiet
  <2>5. file[t] = EmptyFile
    BY <1>5 DEF Undisturbed
  <2>6. Abs(t) = View(seen[p])
    BY <2>4, <2>5 DEF Abs, EmptyFile, Torn
  <2>7. Abs(t)' = View(file'[t])
    BY <2>4 DEF Abs
  <2>8. ASSUME NEW a \in Artifact \ {t} PROVE Same(a)
    <3>1. Saving(a)' = Saving(a)
      BY <1>5, <2>2, <2>3 DEF Saving
    <3>2. p \notin Saving(a)
      BY <1>5 DEF Saving
    <3>3. file'[a] = file[a]
      BY <1>5 DEF WriteArtifact, Crash, Fail
    <3> QED
      BY <2>2, <3>1, <3>2, <3>3, AbsUnchanged DEF Saving
  <2>9. backups' = backups
    BY <1>5 DEF WriteArtifact, Crash, Fail
  <2> QED
    BY <2>6, <2>7, <2>8, <2>9 DEF AbsState, AbsKept
<1>6. ASSUME NEW p \in Proc, WriteArtifact(p) PROVE Mapped
  <2>0. PICK t \in Artifact : t = target[p]
    OBVIOUS
  <2>1. pc[p] = "saving" /\ Legitimate(p) /\ file[t] = EmptyFile
    BY <1>6, <2>0 DEF WriteArtifact, Undisturbed, Busy
  <2>2. file'[t] = copy[p]
    BY <1>6, <2>0, <2>1 DEF WriteArtifact, Overwritten
  <2>3. /\ AbsState[t] = View(seen[p]) /\ UNCHANGED AbsKept
        /\ AbsState' = [AbsState EXCEPT ![t] = View(copy[p])]
    BY <1>5, <1>6, <2>0, <2>1, <2>2
  <2>4. CASE kind[p] = "rollback"
    <3>1. Migrator # {} /\ View(copy[p]) \in AbsKept[t]
      BY <2>0, <2>1, <2>4 DEF Legitimate, AbsKept
    <3>2. Lifecycle!Restore(t)
      BY <2>3, <3>1 DEF Lifecycle!Restore, Lifecycle!Become
    <3> QED
      BY <3>2 DEF Lifecycle!Next
  <2>5. CASE kind[p] # "rollback"
    <3>1. /\ Permits(kind[p], t, seen[p]) /\ copy[p] = Result(kind[p], seen[p])
          /\ seen[p] \in Content /\ kind[p] \in Kinds
      BY <2>0, <2>1, <2>5 DEF Legitimate
    <3>2. AbsState[t] = seen[p]
      BY <2>3, <2>5, <3>1 DEF Permits, View, Torn, Valid
    <3>3. copy[p].status \notin Torn
      BY <2>5, <3>1 DEF Permits, Result, Torn, Kinds, Valid
    <3>4. AbsState' = [AbsState EXCEPT ![t] = copy[p]]
      BY <2>3, <3>3 DEF View
    <3>5. CASE copy[p] = seen[p]
      <4>1. AbsState' = AbsState
        BY <3>2, <3>4, <3>5 DEF AbsState
      <4> QED
        BY <2>3, <4>1
    <3>6. CASE kind[p] = "create"
      <4>1. Lifecycle!Create(t)
        BY <2>3, <3>1, <3>2, <3>4, <3>6
        DEF Lifecycle!Create, Lifecycle!Become, Permits, Result
      <4> QED
        BY <4>1 DEF Lifecycle!Next
    <3>7. CASE kind[p] = "modify"
      <4>1. Lifecycle!Modify(t)
        BY <2>3, <3>1, <3>2, <3>4, <3>7
        DEF Lifecycle!Modify, Lifecycle!Become, Permits, Result
      <4> QED
        BY <4>1 DEF Lifecycle!Next
    <3>8. CASE kind[p] = "approve"
      <4>1. Lifecycle!Approve(t)
        BY <2>3, <3>1, <3>2, <3>4, <3>8
        DEF Lifecycle!Approve, Lifecycle!Move, Lifecycle!Become, Permits, Result
      <4> QED
        BY <4>1 DEF Lifecycle!Next
    <3>9. CASE kind[p] = "lock"
      <4>1. Lifecycle!Lock(t)
        BY <2>3, <3>1, <3>2, <3>4, <3>9
        DEF Lifecycle!Lock, Lifecycle!Move, Lifecycle!Become, Permits, Result
      <4> QED
        BY <4>1 DEF Lifecycle!Next
    <3>10. CASE kind[p] = "revoke" /\ seen[p].status = "approved"
      <4>1. Lifecycle!Revoke(t)
        BY <2>3, <3>1, <3>2, <3>4, <3>10
        DEF Lifecycle!Revoke, Lifecycle!Move, Lifecycle!Become, Result
      <4> QED
        BY <4>1 DEF Lifecycle!Next
    <3>11. CASE kind[p] = "revoke" /\ seen[p].status # "approved"
      <4>1. copy[p] = seen[p]
        BY <3>1, <3>11 DEF Permits, Result, Content
      <4> QED
        BY <3>5, <4>1
    <3>12. CASE kind[p] \in {"review", "migrate"}
      <4>1. copy[p] = seen[p]
        BY <3>1, <3>12 DEF Result
      <4> QED
        BY <3>5, <4>1
    <3> QED
      BY <2>5, <3>1, <3>6, <3>7, <3>8, <3>9, <3>10, <3>11, <3>12 DEF Kinds
  <2> QED
    BY <2>4, <2>5
(* A save given up loses its artifact, and only a migration had opened the *)
(* file of a locked one.                                                   *)
<1>7. ASSUME NEW p \in Proc, Crash(p) \/ Fail(p) PROVE Mapped
  <2>0. PICK t \in Artifact : t = target[p]
    OBVIOUS
  <2>1. file' = file /\ backups' = backups
    BY <1>7 DEF Crash, Fail
  <2>2. CASE pc[p] # "saving"
    <3>1. ASSUME NEW a \in Artifact PROVE Same(a)
      <4>1. /\ Saving(a)' = Saving(a)
            /\ \A q \in Saving(a) : seen'[q] = seen[q]
        BY <1>7, <2>2 DEF Saving, Crash, Fail, Return
      <4> QED
        BY <2>1, <4>1, AbsUnchanged
    <3> QED
      BY <1>0, <2>1, <3>1
  <2>3. CASE pc[p] = "saving"
    <3>1. file[t] = EmptyFile /\ Legitimate(p)
      BY <2>0, <2>3 DEF Undisturbed, Busy
    <3>2. View(file'[t]) = Lifecycle!Lost
      BY <2>1, <3>1 DEF View, EmptyFile, Torn, Lifecycle!Lost
    <3>3. /\ AbsState[t] = View(seen[p]) /\ UNCHANGED AbsKept
          /\ AbsState' = [AbsState EXCEPT ![t] = Lifecycle!Lost]
      BY <1>5, <1>7, <2>0, <2>3, <3>2
    <3>4. seen[p].status = "locked" => Migrator # {}
      BY <3>1 DEF Legitimate, Permits, Offers
    <3>5. AbsState[t].status = "locked" => Migrator # {}
      BY <3>3, <3>4 DEF View
    <3>6. Lifecycle!Lose(t)
      BY <3>3, <3>5 DEF Lifecycle!Lose, Lifecycle!Become
    <3> QED
      BY <3>6 DEF Lifecycle!Next
  <2> QED
    BY <2>2, <2>3
<1>8. ASSUME UNCHANGED vars PROVE Mapped
  BY <1>8 DEF vars, AbsState, AbsKept, Abs, Saving
<1> QED
  BY <1>1, <1>2, <1>3, <1>4, <1>6, <1>7, <1>8 DEF Next, Step

(* The store implements the promised lifecycle, when commands do not       *)
(* overlap: every step of every operation and every migration is a         *)
(* transition of the lifecycle or changes nothing that a reader can rely   *)
(* on, wherever processes are killed and whichever writes fail.            *)
THEOREM StoreImplementsLifecycle ==
    ASSUME Serialised PROVE Spec => ImplementsLifecycle
<1>1. Init => Lifecycle!Init
  BY DEF Init, Lifecycle!Init, AbsState, AbsKept, Abs, View, NoFile, Torn
<1>2. TypeOK /\ SerialInv /\ [Next]_vars => [Lifecycle!Next]_<<AbsState, AbsKept>>
  BY AbsStep
<1> QED
  BY <1>1, <1>2, Serial, PTL DEF Spec, ImplementsLifecycle, Lifecycle!Spec
=============================================================================
