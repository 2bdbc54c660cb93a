--------------------------- MODULE Retries_proofs ---------------------------
(***************************************************************************)
(* Proofs about the three components where a request is repeated until it  *)
(* has been answered: StatementUpload, for any number of requests,         *)
(* TelegramWebhook, for every set of updates and requests, and             *)
(* TelegramPolling, for every number of updates and crashes.  They share   *)
(* no variable.                                                            *)
(***************************************************************************)
EXTENDS StatementUpload, TelegramWebhook, TelegramPolling, FiniteSets, FiniteSetTheorems, TLAPS

-----------------------------------------------------------------------------
(* StatementUpload: a document has rows only when it says so, a file that  *)
(* is needed stays, a deactivated workspace gets no rows.                  *)

Working(r) == pc[r] \notin {"idle", "done"}

\* Until a document was deleted, the first request is the only one that has
\* begun: without a document nothing has happened but to the storage ...
NothingYet ==
  ~Exists => /\ source = NoFile /\ rows = {}
             /\ \A r \in Request : ~Working(r) /\ attempt[r] = "none"

\* ... and with one the others are answered from it.
OneRequestWorks == \A r, s \in Request : Working(r) /\ Working(s) => r = s

\* What a request relies on at each place, whatever ran beside it: its attempt
\* is the one it started, and a failure it is about to record is not that of a
\* parse whose rows were stored.
PlacesKnown ==
  \A r \in Request :
    /\ pc[r] = "created" => Attempts = {}
    /\ pc[r] \in {"running", "extracted"} => attempt[r] = "running"
    /\ pc[r] = "reloaded" /\ rows # {} => ~MayMove(known[r], "failed_to_parse")

FirstDocument == NothingYet /\ OneRequestWorks /\ PlacesKnown /\ unlinking = {}

UploadIInv ==
  /\ UploadTypeOK
  /\ ~keyUsed => FirstDocument
  /\ RowsOnlyInParsedDocument
  /\ SourceKeptWhileNeeded

-----------------------------------------------------------------------------
\* No document, no request.
LEMMA UploadInitInvariant == UploadInit => UploadIInv
BY NoFileIsNoRequest
   DEF UploadInit, UploadIInv, UploadTypeOK, DocumentStatus, AttemptStatus, PC, FirstDocument,
       NothingYet,
       OneRequestWorks, PlacesKnown, Working, Exists, Attempts, RowsOnlyInParsedDocument,
       SourceKeptWhileNeeded

\* The first commit, and the two ways in which it goes wrong.
LEMMA CreateInvariant ==
  ASSUME UploadIInv, NEW r \in Request,
         Upload(r) \/ UploadReconciled(r) \/ CrashBeforeCommit(r)
  PROVE  UploadIInv'
<1>1. UploadTypeOK'
  BY DEF UploadIInv, UploadTypeOK, Upload, UploadReconciled, CrashBeforeCommit, CreateDocument,
         Goto,
         Know, docVars, DocumentStatus, AttemptStatus, PC
<1>2. ~Exists /\ keyUsed' = keyUsed /\ unlinking' = unlinking /\ rows' = rows
  BY DEF Upload, UploadReconciled, CrashBeforeCommit, CreateDocument, Fresh, docVars
<1>3. ASSUME ~keyUsed
      PROVE  FirstDocument' /\ RowsOnlyInParsedDocument' /\ SourceKeptWhileNeeded'
  <2>1. FirstDocument /\ NothingYet
    BY <1>3 DEF UploadIInv, FirstDocument
  <2>2. CASE Upload(r)
    BY <1>2, <2>1, <2>2, NoFileIsNoRequest
       DEF Upload, CreateDocument, Goto, Know, UploadIInv, UploadTypeOK, FirstDocument,
           NothingYet,
           OneRequestWorks, PlacesKnown, Working, Exists, Attempts,
           RowsOnlyInParsedDocument, SourceKeptWhileNeeded
  <2>3. CASE UploadReconciled(r)
    BY <1>2, <2>1, <2>3, NoFileIsNoRequest
       DEF UploadReconciled, CreateDocument, Goto, Know, UploadIInv, UploadTypeOK,
           FirstDocument, NothingYet,
           OneRequestWorks, PlacesKnown, Working, Exists, Attempts,
           RowsOnlyInParsedDocument, SourceKeptWhileNeeded
  <2>4. CASE CrashBeforeCommit(r)
    BY <1>2, <2>1, <2>4, NoFileIsNoRequest
       DEF CrashBeforeCommit, Goto, docVars, UploadIInv, UploadTypeOK, FirstDocument,
           NothingYet,
           OneRequestWorks, PlacesKnown, Working, Exists, Attempts,
           RowsOnlyInParsedDocument, SourceKeptWhileNeeded
  <2> QED
    BY <2>2, <2>3, <2>4
<1> QED
  BY <1>1, <1>2, <1>3 DEF UploadIInv, RowsOnlyInParsedDocument, SourceKeptWhileNeeded

\* The attempt is stored, and the file handed to the parser.
LEMMA StartInvariant ==
  ASSUME UploadIInv, NEW r \in Request,
         StartAttempt(r) \/ Extract(r)
  PROVE  UploadIInv'
<1>1. UploadTypeOK'
  BY NoFileIsNoRequest
     DEF UploadIInv, UploadTypeOK, StartAttempt, Extract, Goto, Know, docVars, AttemptStatus, PC
<1>2. keyUsed' = keyUsed
  BY DEF StartAttempt, Extract
<1>3. ASSUME ~keyUsed
      PROVE  FirstDocument' /\ RowsOnlyInParsedDocument' /\ SourceKeptWhileNeeded'
  <2>1. FirstDocument
    BY <1>3 DEF UploadIInv
  <2>2. CASE StartAttempt(r)
    BY <1>1, <1>2, <1>3, <2>1, <2>2, NoFileIsNoRequest
       DEF StartAttempt, Goto, Exists, AttemptStatus, UploadIInv, UploadTypeOK, FirstDocument,
           NothingYet,
           OneRequestWorks, PlacesKnown, Working, Exists, Attempts,
           RowsOnlyInParsedDocument, SourceKeptWhileNeeded
  <2>3. CASE Extract(r)
    BY <1>1, <1>2, <1>3, <2>1, <2>3, NoFileIsNoRequest
       DEF Extract, Goto, docVars, UploadIInv, UploadTypeOK, FirstDocument, NothingYet,
           OneRequestWorks, PlacesKnown, Working, Exists, Attempts,
           RowsOnlyInParsedDocument, SourceKeptWhileNeeded
  <2> QED
    BY <2>2, <2>3
<1> QED
  BY <1>1, <1>2, <1>3 DEF UploadIInv, RowsOnlyInParsedDocument, SourceKeptWhileNeeded

\* The third commit goes wrong and is rolled back.
LEMMA RollbackInvariant == ASSUME UploadIInv, NEW r \in Request, CompleteFails(r) PROVE UploadIInv'
<1>1. UploadTypeOK'
  BY DEF UploadIInv, UploadTypeOK, CompleteFails, Goto, docVars, PC
<1>2. ~keyUsed => FirstDocument'
  BY DEF CompleteFails, Goto, docVars, UploadIInv, UploadTypeOK, FirstDocument, NothingYet,
         OneRequestWorks, PlacesKnown, Working, Exists, Attempts
<1> QED
  BY <1>1, <1>2 DEF CompleteFails, docVars, UploadIInv, Exists, Attempts,
                    RowsOnlyInParsedDocument, SourceKeptWhileNeeded

\* The third commit persists, whether the request hears of it or not.
LEMMA CompleteInvariant ==
  ASSUME UploadIInv, NEW r \in Request, Complete(r) \/ CompleteReportsError(r) PROVE UploadIInv'
<1>1. PICK outcome \in Outcomes :
        /\ attempt' = [attempt EXCEPT ![r] = outcome[1]]
        /\ doc' = outcome[2]
        /\ rows' = IF outcome[3] THEN rows \cup {r} ELSE rows
  BY DEF Complete, CompleteReportsError, Outcomes, PreservedOutcome
<1>2. /\ outcome[1] \in {"success", "requires_review", "needs_mapping"}
      /\ outcome[2] \in {"parsed", "requires_review"}
      /\ outcome[3] \in BOOLEAN
  <2>1. CASE outcome = <<"success", "parsed", TRUE>>
    BY <2>1
  <2>2. CASE outcome = <<"requires_review", "requires_review", TRUE>>
    BY <2>2
  <2>3. CASE outcome = <<"requires_review", "requires_review", FALSE>>
    BY <2>3
  <2>4. CASE outcome = <<"needs_mapping", "requires_review", FALSE>>
    BY <2>4
  <2> QED
    BY <2>1, <2>2, <2>3, <2>4 DEF Outcomes
<1>3. /\ pc[r] = "extracted" /\ Exists
      /\ \/ pc' = [pc EXCEPT ![r] = "completed"] /\ known' = [known EXCEPT ![r] = doc']
         \/ pc' = [pc EXCEPT ![r] = "failing"] /\ known' = known
      /\ UNCHANGED <<source, files, old, active, unlinking, keyUsed>>
  BY DEF Complete, CompleteReportsError, Goto, Know, Persisted
<1>4. UploadTypeOK'
  BY <1>1, <1>2, <1>3 DEF UploadIInv, UploadTypeOK, DocumentStatus, AttemptStatus, PC
<1>5. ASSUME ~keyUsed
      PROVE  FirstDocument' /\ RowsOnlyInParsedDocument' /\ SourceKeptWhileNeeded'
  <2>1. OneRequestWorks /\ PlacesKnown /\ unlinking = {} /\ attempt[r] = "running"
    BY <1>3, <1>5 DEF UploadIInv, FirstDocument, PlacesKnown
  <2>2. /\ \A s \in Request \ {r} : ~Working(s) /\ pc'[s] = pc[s] /\ attempt'[s] = attempt[s]
        /\ pc'[r] \in {"completed", "failing"} /\ attempt'[r] = outcome[1]
    BY <1>1, <1>3, <2>1 DEF UploadIInv, UploadTypeOK, OneRequestWorks, Working
  <2>3. Exists' /\ NothingYet' /\ OneRequestWorks' /\ PlacesKnown'
    BY <1>1, <1>2, <2>2 DEF Exists, NothingYet, OneRequestWorks, PlacesKnown, Working
  <2>4. RowsOnlyInParsedDocument'
    BY <1>1, <1>2 DEF RowsOnlyInParsedDocument
  <2>5. SourceKeptWhileNeeded'
    BY <1>2, <1>3, <1>5, <2>1, <2>2 DEF UploadIInv, SourceKeptWhileNeeded, Attempts
  <2> QED
    BY <1>3, <2>1, <2>3, <2>4, <2>5 DEF FirstDocument
<1> QED
  BY <1>3, <1>4, <1>5 DEF UploadIInv, RowsOnlyInParsedDocument, SourceKeptWhileNeeded

\* The failure of an attempt is recorded.
LEMMA FailureInvariant ==
  ASSUME UploadIInv, NEW r \in Request,
         Reload(r) \/ RecordFailure(r)
  PROVE  UploadIInv'
<1>1. UploadTypeOK'
  BY NoFileIsNoRequest
     DEF UploadIInv, UploadTypeOK, Reload, RecordFailure, Goto, Know, docVars, AttemptStatus,
         DocumentStatus, PC
<1>2. keyUsed' = keyUsed
  BY DEF Reload, RecordFailure
<1>3. ASSUME ~keyUsed
      PROVE  FirstDocument' /\ RowsOnlyInParsedDocument' /\ SourceKeptWhileNeeded'
  <2>1. FirstDocument
    BY <1>3 DEF UploadIInv
  <2>2. CASE Reload(r)
    BY <1>1, <1>2, <1>3, <2>1, <2>2, NoFileIsNoRequest
       DEF Reload, Goto, Know, docVars, Persisted, MayMove, AllowedTransitions, UploadIInv,
           UploadTypeOK, FirstDocument, NothingYet,
           OneRequestWorks, PlacesKnown, Working, Exists, Attempts,
           RowsOnlyInParsedDocument, SourceKeptWhileNeeded
  <2>3. CASE RecordFailure(r)
    BY <1>1, <1>2, <1>3, <2>1, <2>3, NoFileIsNoRequest
       DEF RecordFailure, Goto, Persisted, MayMove, AllowedTransitions, UploadIInv,
           UploadTypeOK, FirstDocument, NothingYet,
           OneRequestWorks, PlacesKnown, Working, Exists, Attempts,
           RowsOnlyInParsedDocument, SourceKeptWhileNeeded
  <2> QED
    BY <2>2, <2>3
<1> QED
  BY <1>1, <1>2, <1>3 DEF UploadIInv, RowsOnlyInParsedDocument, SourceKeptWhileNeeded

\* The processed file is removed, its key dropped, or the request just ends.
LEMMA FinishInvariant ==
  ASSUME UploadIInv, NEW r \in Request,
         DeleteProcessedSource(r) \/ DropStorageKey(r) \/ Stop(r)
  PROVE  UploadIInv'
<1>1. UploadTypeOK'
  BY NoFileIsNoRequest
     DEF UploadIInv, UploadTypeOK, DeleteProcessedSource, DropStorageKey, Stop, Goto, Know,
         docVars, AttemptStatus, DocumentStatus, PC
<1>2. keyUsed' = keyUsed
  BY DEF DeleteProcessedSource, DropStorageKey, Stop
<1>3. ASSUME ~keyUsed
      PROVE  FirstDocument' /\ RowsOnlyInParsedDocument' /\ SourceKeptWhileNeeded'
  <2>1. FirstDocument
    BY <1>3 DEF UploadIInv
  <2>2. CASE DeleteProcessedSource(r)
    BY <1>1, <1>2, <1>3, <2>1, <2>2, NoFileIsNoRequest
       DEF DeleteProcessedSource, Goto, docVars, ShouldRetain, AttemptStatus, UploadIInv,
           UploadTypeOK, FirstDocument, NothingYet,
           OneRequestWorks, PlacesKnown, Working, Exists, Attempts,
           RowsOnlyInParsedDocument, SourceKeptWhileNeeded
  <2>3. CASE DropStorageKey(r)
    BY <1>1, <1>2, <1>3, <2>1, <2>3, NoFileIsNoRequest
       DEF DropStorageKey, Goto, UploadIInv, UploadTypeOK, FirstDocument, NothingYet,
           OneRequestWorks, PlacesKnown, Working, Exists, Attempts,
           RowsOnlyInParsedDocument, SourceKeptWhileNeeded
  <2>4. CASE Stop(r)
    BY <1>1, <1>2, <1>3, <2>1, <2>4, NoFileIsNoRequest
       DEF Stop, Goto, docVars, UploadIInv, UploadTypeOK, FirstDocument, NothingYet,
           OneRequestWorks, PlacesKnown, Working, Exists, Attempts,
           RowsOnlyInParsedDocument, SourceKeptWhileNeeded
  <2> QED
    BY <2>2, <2>3, <2>4
<1> QED
  BY <1>1, <1>2, <1>3 DEF UploadIInv, RowsOnlyInParsedDocument, SourceKeptWhileNeeded

\* Time passes and the cleanup runs; files of deleted documents go.
LEMMA CleanupInvariant ==
  ASSUME UploadIInv, NEW r \in Request,
         GrowOld(r) \/ CleanDocument(r) \/ CleanOrphan(r) \/ FinishDeletion(r)
  PROVE  UploadIInv'
<1>1. UploadTypeOK'
  BY NoFileIsNoRequest
     DEF UploadIInv, UploadTypeOK, GrowOld, CleanDocument, CleanOrphan, FinishDeletion,
         requestVars, docVars
<1>2. keyUsed' = keyUsed
  BY DEF GrowOld, CleanDocument, CleanOrphan, FinishDeletion
<1>3. ASSUME ~keyUsed
      PROVE  FirstDocument' /\ RowsOnlyInParsedDocument' /\ SourceKeptWhileNeeded'
  <2>1. FirstDocument
    BY <1>3 DEF UploadIInv
  <2>2. CASE GrowOld(r)
    BY <1>1, <1>2, <1>3, <2>1, <2>2, NoFileIsNoRequest
       DEF GrowOld, requestVars, docVars, UploadIInv, UploadTypeOK, FirstDocument, NothingYet,
           OneRequestWorks, PlacesKnown, Working, Exists, Attempts,
           RowsOnlyInParsedDocument, SourceKeptWhileNeeded
  <2>3. CASE CleanDocument(r)
    BY <1>1, <1>2, <1>3, <2>1, <2>3, NoFileIsNoRequest
       DEF CleanDocument, requestVars, MustWait, ShouldRetain, UploadIInv, UploadTypeOK,
           FirstDocument, NothingYet,
           OneRequestWorks, PlacesKnown, Working, Exists, Attempts,
           RowsOnlyInParsedDocument, SourceKeptWhileNeeded
  <2>4. CASE CleanOrphan(r)
    BY <1>1, <1>2, <1>3, <2>1, <2>4, NoFileIsNoRequest
       DEF CleanOrphan, requestVars, docVars, UploadIInv, UploadTypeOK, FirstDocument,
           NothingYet,
           OneRequestWorks, PlacesKnown, Working, Exists, Attempts,
           RowsOnlyInParsedDocument, SourceKeptWhileNeeded
  <2>5. CASE FinishDeletion(r)
    BY <1>1, <1>2, <1>3, <2>1, <2>5, NoFileIsNoRequest
       DEF FinishDeletion, requestVars, docVars, UploadIInv, UploadTypeOK, FirstDocument,
           NothingYet,
           OneRequestWorks, PlacesKnown, Working, Exists, Attempts,
           RowsOnlyInParsedDocument, SourceKeptWhileNeeded
  <2> QED
    BY <2>2, <2>3, <2>4, <2>5
<1> QED
  BY <1>1, <1>2, <1>3 DEF UploadIInv, RowsOnlyInParsedDocument, SourceKeptWhileNeeded

\* What members do to the document and the workspace meanwhile.
LEMMA CommandInvariant ==
  ASSUME UploadIInv, IgnoreDocument \/ DeleteDocument \/ ToggleWorkspace PROVE UploadIInv'
<1>1. UploadTypeOK'
  BY NoFileIsNoRequest
     DEF UploadIInv, UploadTypeOK, IgnoreDocument, DeleteDocument, ToggleWorkspace,
         requestVars, docVars,
         DocumentStatus, AttemptStatus
<1>2. CASE IgnoreDocument
  BY <1>1, <1>2
     DEF IgnoreDocument, requestVars, UploadIInv, FirstDocument, NothingYet, OneRequestWorks,
         PlacesKnown, Working, Exists, Attempts, RowsOnlyInParsedDocument, SourceKeptWhileNeeded
<1>3. CASE DeleteDocument
  BY <1>1, <1>3 DEF DeleteDocument, UploadIInv, RowsOnlyInParsedDocument, SourceKeptWhileNeeded
<1>4. CASE ToggleWorkspace
  BY <1>1, <1>4
     DEF ToggleWorkspace, docVars, requestVars, UploadIInv, FirstDocument, NothingYet,
         OneRequestWorks,
         PlacesKnown, Working, Exists, Attempts, RowsOnlyInParsedDocument, SourceKeptWhileNeeded
<1> QED
  BY <1>2, <1>3, <1>4

-----------------------------------------------------------------------------
LEMMA StutterInvariant == UploadIInv /\ UNCHANGED uploadVars => UploadIInv'
BY DEF uploadVars, docVars, requestVars, UploadIInv, UploadTypeOK, FirstDocument, NothingYet,
       OneRequestWorks,
       PlacesKnown, Working, Exists, Attempts, RowsOnlyInParsedDocument, SourceKeptWhileNeeded

\* Every step keeps the invariant.
LEMMA UploadStepInvariant == UploadIInv /\ [UploadNext]_uploadVars => UploadIInv'
<1> SUFFICES ASSUME UploadIInv, UploadNext PROVE UploadIInv'
  BY StutterInvariant
<1>1. ASSUME NEW r \in Request, Step(r) PROVE UploadIInv'
  BY <1>1, CreateInvariant, StartInvariant, RollbackInvariant, CompleteInvariant,
     FailureInvariant, FinishInvariant DEF Step
<1>2. ASSUME NEW r \in Request, FinishDeletion(r) \/ GrowOld(r) \/ Cleanup(r) PROVE UploadIInv'
  BY <1>2, CleanupInvariant DEF Cleanup
<1> QED
  BY <1>1, <1>2, CommandInvariant DEF UploadNext

THEOREM UploadInvariant == UploadSpec => []UploadIInv
BY UploadInitInvariant, UploadStepInvariant, PTL DEF UploadSpec

\* Documents, attempts and files keep their types, and a document the user is
\* told has failed or is being processed has no rows, whatever a commit reports
\* and however many requests there are.
THEOREM UploadsConsistent == UploadSpec => []UploadConsistent
<1>1. UploadIInv => UploadConsistent
  BY DEF UploadIInv, UploadConsistent
<1> QED
  BY <1>1, UploadInvariant, PTL

\* Neither the cleanup nor another step takes a file away that a parse or a
\* mapping still needs.
THEOREM SourcesKept == UploadSpec => []SourceKeptWhileNeeded
<1>1. UploadIInv => SourceKeptWhileNeeded
  BY DEF UploadIInv
<1> QED
  BY <1>1, UploadInvariant, PTL

\* Rows are stored by a completion only, and a completion looks at the
\* workspace again, after a parse of any length.
THEOREM InactiveGetsNoRows == UploadSpec => NoRowsWhileInactive
<1>1. ASSUME [UploadNext]_uploadVars, ~active PROVE rows' \subseteq rows
  <2>1. CASE UNCHANGED uploadVars
    BY <2>1 DEF uploadVars, docVars
  <2>2. ASSUME NEW r \in Request, Complete(r) \/ CompleteReportsError(r)
        PROVE  rows' \subseteq rows
    <3>1. PreservedOutcome[3] = FALSE
      BY DEF PreservedOutcome
    <3>2. rows' = IF PreservedOutcome[3] THEN rows \cup {r} ELSE rows
      BY <1>1, <2>2 DEF Complete, CompleteReportsError
    <3> QED
      BY <3>1, <3>2
  <2>3. ASSUME NEW r \in Request,
               \/ StartAttempt(r) \/ Extract(r) \/ CompleteFails(r) \/ Reload(r)
               \/ RecordFailure(r) \/ DeleteProcessedSource(r) \/ DropStorageKey(r) \/ Stop(r)
        PROVE  rows' \subseteq rows
    BY <2>3 DEF StartAttempt, Extract, CompleteFails, Reload, RecordFailure,
                DeleteProcessedSource, DropStorageKey, Stop, docVars
  <2>4. ASSUME NEW r \in Request,
               \/ Upload(r) \/ UploadReconciled(r) \/ CrashBeforeCommit(r)
               \/ FinishDeletion(r) \/ GrowOld(r) \/ CleanDocument(r) \/ CleanOrphan(r)
        PROVE  rows' \subseteq rows
    BY <2>4 DEF Upload, UploadReconciled, CrashBeforeCommit, CreateDocument, FinishDeletion,
                GrowOld, CleanDocument, CleanOrphan, docVars
  <2>5. CASE IgnoreDocument \/ DeleteDocument \/ ToggleWorkspace
    BY <2>5 DEF IgnoreDocument, DeleteDocument, ToggleWorkspace, docVars
  <2> QED
    BY <1>1, <2>1, <2>2, <2>3, <2>4, <2>5 DEF UploadNext, Step, Cleanup
<1>2. [UploadNext]_uploadVars => [~active /\ ~active' => rows' \subseteq rows]_uploadVars
  BY <1>1
<1> QED
  BY <1>2, PTL DEF UploadSpec, NoRowsWhileInactive

-----------------------------------------------------------------------------
(* TelegramWebhook: what is acknowledged was applied, an attempt has a     *)
(* cause, a lease has one handler.                                         *)

\* The requests that may still commit the command of u.
Handling(u) == {w \in Worker : phase[w] = "handling" /\ handles[w] = u}

Handler(w) == phase[w] \in {"handling", "applied"}

\* Whatever says that a command was committed says so rightly.
MarksHonest ==
  /\ \A w \in Worker : phase[w] \in {"applied", "completed"} => applied[handles[w]] > 0
  /\ \A u \in Update : status[u] = "completed" => applied[u] > 0

\* An update that may be claimed has a failure or an expiry to spare.
AttemptsPaid ==
  \A u \in Update :
    /\ attempts[u] <= 1 + failures[u] + expiries[u]
    /\ status[u] = "none" => attempts[u] = 0
    /\ status[u] = "failed" \/ u \notin leased =>
         attempts[u] <= failures[u] + expiries[u]

\* Every attempt has committed the command, may still do so, or never will.
CommitsCounted ==
  \A u \in Update : /\ IsFiniteSet(Handling(u))
                    /\ applied[u] + Cardinality(Handling(u)) <= attempts[u]

\* Until a lease runs out, an update that is handled is kept from others.
LeaseHeld ==
  \A w \in Worker : Handler(w) /\ expiries[handles[w]] = 0 =>
    status[handles[w]] = "processing" /\ handles[w] \in leased

WebhookIInv ==
  /\ WebhookTypeOK /\ MarksHonest /\ AttemptsPaid /\ CommitsCounted /\ LeaseHeld
  /\ AcknowledgedOnlyIfApplied /\ OneHandlerPerLease

\* Nothing is claimed at first.
LEMMA WebhookInitInvariant == WebhookInit => WebhookIInv
<1> SUFFICES ASSUME WebhookInit PROVE WebhookIInv
  OBVIOUS
<1>1. WebhookTypeOK
  BY MaxFaultsIsNatural DEF WebhookInit, WebhookTypeOK, Status, Phase
<1>2. \A u \in Update : Handling(u) = {}
  BY DEF WebhookInit, Handling
<1>3. CommitsCounted
  <2> SUFFICES ASSUME NEW u \in Update
               PROVE  /\ IsFiniteSet(Handling(u))
                      /\ applied[u] + Cardinality(Handling(u)) <= attempts[u]
    BY DEF CommitsCounted
  <2>1. IsFiniteSet(Handling(u)) /\ Cardinality(Handling(u)) = 0
    BY <1>2, FS_EmptySet
  <2>2. applied[u] = 0 /\ attempts[u] = 0
    BY DEF WebhookInit
  <2>3. QED
    BY <2>1, <2>2
<1>4. QED
  BY <1>1, <1>3
     DEF WebhookInit, WebhookIInv, MarksHonest, AttemptsPaid, LeaseHeld, Handler,
         AcknowledgedOnlyIfApplied, OneHandlerPerLease

\* Requests that stop handling an update leave its commits counted.
LEMMA HandlingShrinks ==
  ASSUME WebhookTypeOK, CommitsCounted, WebhookTypeOK', UNCHANGED <<attempts, applied>>,
         \A u \in Update : Handling(u)' \subseteq Handling(u)
  PROVE  CommitsCounted'
<1> SUFFICES ASSUME NEW u \in Update
             PROVE  /\ IsFiniteSet(Handling(u)')
                    /\ applied'[u] + Cardinality(Handling(u)') <= attempts'[u]
  BY DEF CommitsCounted
<1>1. IsFiniteSet(Handling(u)) /\ applied[u] + Cardinality(Handling(u)) <= attempts[u]
  BY DEF CommitsCounted
<1>2. /\ IsFiniteSet(Handling(u)')
      /\ Cardinality(Handling(u)') <= Cardinality(Handling(u))
  BY <1>1, FS_Subset
<1>3. /\ Cardinality(Handling(u)) \in Nat /\ Cardinality(Handling(u)') \in Nat
      /\ applied[u] \in Nat /\ attempts[u] \in Nat
  BY <1>1, <1>2, FS_CardinalityType DEF WebhookTypeOK
<1>4. QED
  BY <1>1, <1>2, <1>3

\* A claim is paid for and finds no other handler under a living lease.
LEMMA ClaimInvariant ==
  ASSUME WebhookIInv, NEW u \in Update, NEW w \in Worker, Claim(u, w)
  PROVE  WebhookIInv'
<1>1. /\ Claimable(u) /\ phase[w] = "idle"
      /\ status' = [status EXCEPT ![u] = "processing"]
      /\ attempts' = [attempts EXCEPT ![u] = @ + 1]
      /\ leased' = leased \cup {u}
      /\ phase' = [phase EXCEPT ![w] = "handling"]
      /\ handles' = [handles EXCEPT ![w] = u]
      /\ awaiting' = [awaiting EXCEPT ![u] = w]
      /\ UNCHANGED <<acked, applied, failures, expiries, finished, faults>>
  BY DEF Claim, historyVars
<1>2. WebhookTypeOK'
  BY <1>1 DEF WebhookIInv, WebhookTypeOK, Status, Phase
<1>3. \A x \in Worker \ {w} : phase'[x] = phase[x] /\ handles'[x] = handles[x]
  BY <1>1 DEF WebhookIInv, WebhookTypeOK
<1>4. phase'[w] = "handling" /\ handles'[w] = u
  BY <1>1 DEF WebhookIInv, WebhookTypeOK
<1>5. MarksHonest' /\ AcknowledgedOnlyIfApplied'
  BY <1>1, <1>3, <1>4 DEF WebhookIInv, WebhookTypeOK, MarksHonest, AcknowledgedOnlyIfApplied
<1>6. AttemptsPaid'
  BY <1>1 DEF WebhookIInv, WebhookTypeOK, AttemptsPaid, Claimable, Status
<1>7. CommitsCounted'
  <2> SUFFICES ASSUME NEW v \in Update
               PROVE  /\ IsFiniteSet(Handling(v)')
                      /\ applied'[v] + Cardinality(Handling(v)') <= attempts'[v]
    BY DEF CommitsCounted
  <2>1. /\ IsFiniteSet(Handling(v)) /\ Cardinality(Handling(v)) \in Nat
        /\ applied[v] + Cardinality(Handling(v)) <= attempts[v]
        /\ applied[v] \in Nat /\ attempts[v] \in Nat
    BY FS_CardinalityType DEF WebhookIInv, CommitsCounted, WebhookTypeOK
  <2>2. CASE v = u
    <3>1. Handling(u)' = Handling(u) \cup {w} /\ w \notin Handling(u)
      BY <1>1, <1>3, <1>4 DEF Handling
    <3>2. /\ IsFiniteSet(Handling(u)')
          /\ Cardinality(Handling(u)') = Cardinality(Handling(u)) + 1
      BY <2>1, <2>2, <3>1, FS_AddElement
    <3>3. attempts'[u] = attempts[u] + 1
      BY <1>1 DEF WebhookIInv, WebhookTypeOK
    <3>4. QED
      BY <1>1, <2>1, <2>2, <3>2, <3>3
  <2>3. CASE v # u
    <3>1. Handling(v)' = Handling(v)
      BY <1>1, <1>3, <1>4, <2>3 DEF Handling
    <3>2. attempts'[v] = attempts[v]
      BY <1>1, <2>3 DEF WebhookIInv, WebhookTypeOK
    <3>3. QED
      BY <1>1, <2>1, <3>1, <3>2
  <2>4. QED
    BY <2>2, <2>3
<1>8. \A x \in Worker : x # w /\ Handler(x) /\ handles[x] = u => expiries[u] # 0
  BY <1>1 DEF WebhookIInv, LeaseHeld, Claimable
<1>9. LeaseHeld'
  BY <1>1, <1>3, <1>4 DEF WebhookIInv, WebhookTypeOK, LeaseHeld, Handler
<1>10. OneHandlerPerLease'
  BY <1>1, <1>3, <1>4, <1>8 DEF WebhookIInv, OneHandlerPerLease, Handler
<1>11. QED
  BY <1>2, <1>5, <1>6, <1>7, <1>9, <1>10 DEF WebhookIInv

\* A commit moves an attempt from those that may to those that have.
LEMMA ApplyInvariant == ASSUME WebhookIInv, NEW w \in Worker, Apply(w) PROVE WebhookIInv'
<1> DEFINE u == handles[w]
<1>1. /\ phase[w] = "handling"
      /\ phase' = [phase EXCEPT ![w] = "applied"]
      /\ applied' = [applied EXCEPT ![u] = @ + 1]
      /\ UNCHANGED <<rowVars, telegramVars, handles, failures, expiries, finished, faults>>
  BY DEF Apply
<1>2. u \in Update
  BY <1>1 DEF WebhookIInv, WebhookTypeOK
<1> HIDE DEF u
<1>3. WebhookTypeOK'
  BY <1>1, <1>2 DEF WebhookIInv, WebhookTypeOK, Phase, rowVars, telegramVars
<1>4. /\ phase'[w] = "applied" /\ \A x \in Worker \ {w} : phase'[x] = phase[x]
      /\ applied'[u] = applied[u] + 1 /\ \A v \in Update \ {u} : applied'[v] = applied[v]
  BY <1>1, <1>2 DEF WebhookIInv, WebhookTypeOK
<1>5. \A v \in Update : applied[v] \in Nat /\ applied'[v] \in Nat /\ applied'[v] >= applied[v]
  BY <1>3, <1>4 DEF WebhookIInv, WebhookTypeOK
<1>6. MarksHonest' /\ AcknowledgedOnlyIfApplied'
  <2>1. \A x \in Worker : phase'[x] \in {"applied", "completed"} => applied'[handles[x]] > 0
    <3>1. \A x \in Worker : phase[x] # "idle" => handles[x] \in Update
      BY DEF WebhookIInv, WebhookTypeOK
    <3>2. QED
      BY <1>1, <1>4, <1>5, <3>1, <1>2 DEF WebhookIInv, MarksHonest, u
  <2>2. QED
    BY <1>1, <1>5, <2>1
       DEF WebhookIInv, WebhookTypeOK, MarksHonest, AcknowledgedOnlyIfApplied, rowVars,
           telegramVars
<1>7. AttemptsPaid'
  BY <1>1 DEF WebhookIInv, AttemptsPaid, rowVars
<1>8. CommitsCounted'
  <2> SUFFICES ASSUME NEW v \in Update
               PROVE  /\ IsFiniteSet(Handling(v)')
                      /\ applied'[v] + Cardinality(Handling(v)') <= attempts'[v]
    BY DEF CommitsCounted
  <2>1. /\ IsFiniteSet(Handling(v)) /\ Cardinality(Handling(v)) \in Nat
        /\ applied[v] + Cardinality(Handling(v)) <= attempts[v]
        /\ applied[v] \in Nat /\ attempts[v] \in Nat /\ attempts'[v] = attempts[v]
    BY <1>1, FS_CardinalityType DEF WebhookIInv, CommitsCounted, WebhookTypeOK, rowVars
  <2>2. CASE v = u
    <3>1. Handling(v)' = Handling(v) \ {w} /\ w \in Handling(v)
      BY <1>1, <1>4, <2>2 DEF Handling, u
    <3>2. /\ IsFiniteSet(Handling(v)')
          /\ Cardinality(Handling(v)') = Cardinality(Handling(v)) - 1
      BY <2>1, <3>1, FS_RemoveElement
    <3>3. applied'[v] = applied[v] + 1
      BY <1>4, <2>2
    <3>4. QED
      BY <2>1, <3>2, <3>3
  <2>3. CASE v # u
    <3>1. Handling(v)' = Handling(v)
      BY <1>1, <1>4, <2>3 DEF Handling, u
    <3>2. QED
      BY <1>4, <2>1, <2>3, <3>1
  <2>4. QED
    BY <2>2, <2>3
<1>9. LeaseHeld' /\ OneHandlerPerLease'
  BY <1>1, <1>4 DEF WebhookIInv, LeaseHeld, OneHandlerPerLease, Handler, rowVars
<1>10. QED
  BY <1>3, <1>6, <1>7, <1>8, <1>9 DEF WebhookIInv

\* The mark of a request that has committed is honest.
LEMMA MarkCompletedInvariant ==
  ASSUME WebhookIInv, NEW w \in Worker, MarkCompleted(w) PROVE WebhookIInv'
<1> DEFINE u == handles[w]
<1>1. /\ phase[w] = "applied"
      /\ phase' = [phase EXCEPT ![w] = "completed"]
      /\ status' = [status EXCEPT ![u] = "completed"]
      /\ finished' = finished \cup {u}
      /\ UNCHANGED <<attempts, leased, telegramVars, handles, applied, failures,
                     expiries, faults>>
  BY DEF MarkCompleted
<1>2. u \in Update /\ applied[u] > 0
  BY <1>1 DEF WebhookIInv, WebhookTypeOK, MarksHonest
<1>3. u = handles[w]
  OBVIOUS
<1> HIDE DEF u
<1>4. WebhookTypeOK'
  BY <1>1, <1>2 DEF WebhookIInv, WebhookTypeOK, Phase, Status, telegramVars
<1>5. /\ phase'[w] = "completed" /\ \A x \in Worker \ {w} : phase'[x] = phase[x]
      /\ status'[u] = "completed" /\ \A v \in Update \ {u} : status'[v] = status[v]
  BY <1>1, <1>2 DEF WebhookIInv, WebhookTypeOK
<1>6. MarksHonest' /\ AcknowledgedOnlyIfApplied'
  BY <1>1, <1>2, <1>3, <1>5
     DEF WebhookIInv, MarksHonest, AcknowledgedOnlyIfApplied, telegramVars
<1>7. AttemptsPaid'
  BY <1>1, <1>2, <1>5 DEF WebhookIInv, AttemptsPaid
<1>8. CommitsCounted'
  <2>1. \A v \in Update : Handling(v)' \subseteq Handling(v)
    BY <1>1, <1>5 DEF Handling
  <2>2. QED
    BY <1>1, <1>4, <2>1, HandlingShrinks DEF WebhookIInv
<1>9. LeaseHeld' /\ OneHandlerPerLease'
  <2>1. \A x \in Worker \ {w} : Handler(x) /\ expiries[handles[x]] = 0 => handles[x] # u
    BY <1>1, <1>3 DEF WebhookIInv, OneHandlerPerLease, Handler
  <2>2. \A x \in Worker : phase[x] # "idle" => handles[x] \in Update
    BY DEF WebhookIInv, WebhookTypeOK
  <2>3. QED
    BY <1>1, <1>5, <2>1, <2>2 DEF WebhookIInv, LeaseHeld, OneHandlerPerLease, Handler
<1>10. QED
  BY <1>4, <1>6, <1>7, <1>8, <1>9 DEF WebhookIInv

\* An answer of success follows the mark.
LEMMA RespondInvariant == ASSUME WebhookIInv, NEW w \in Worker, Respond(w) PROVE WebhookIInv'
<1>1. /\ phase[w] = "completed"
      /\ phase' = [phase EXCEPT ![w] = "idle"]
      /\ acked' = acked \/ acked' = acked \cup {handles[w]}
      /\ awaiting' = [v \in Update |-> IF awaiting[v] = w THEN NoWorker ELSE awaiting[v]]
      /\ UNCHANGED <<rowVars, handles, historyVars>>
  BY DEF Respond, StopWaitingFor
<1>2. handles[w] \in Update /\ applied[handles[w]] > 0
  BY <1>1 DEF WebhookIInv, WebhookTypeOK, MarksHonest
<1>3. WebhookTypeOK'
  BY <1>1, <1>2 DEF WebhookIInv, WebhookTypeOK, Phase, rowVars, historyVars
<1>4. phase'[w] = "idle" /\ \A x \in Worker \ {w} : phase'[x] = phase[x]
  BY <1>1 DEF WebhookIInv, WebhookTypeOK
<1>5. MarksHonest' /\ AcknowledgedOnlyIfApplied' /\ AttemptsPaid'
  BY <1>1, <1>2, <1>4
     DEF WebhookIInv, MarksHonest, AcknowledgedOnlyIfApplied, AttemptsPaid, rowVars, historyVars
<1>6. CommitsCounted'
  <2>1. \A v \in Update : Handling(v)' \subseteq Handling(v)
    BY <1>1, <1>4 DEF Handling
  <2>2. QED
    BY <1>1, <1>3, <2>1, HandlingShrinks DEF WebhookIInv, rowVars, historyVars
<1>7. LeaseHeld' /\ OneHandlerPerLease'
  BY <1>1, <1>4 DEF WebhookIInv, LeaseHeld, OneHandlerPerLease, Handler, rowVars, historyVars
<1>8. QED
  BY <1>3, <1>5, <1>6, <1>7 DEF WebhookIInv

\* A failure pays for the next attempt; under a living lease nobody else
\* handles the update.
LEMMA FailInvariant == ASSUME WebhookIInv, NEW w \in Worker, Fail(w) PROVE WebhookIInv'
<1> DEFINE u == handles[w]
<1>1. /\ Handler(w) /\ faults < MaxFaults
      /\ phase' = [phase EXCEPT ![w] = "idle"]
      /\ status' = [status EXCEPT ![u] = "failed"]
      /\ failures' = [failures EXCEPT ![u] = @ + 1]
      /\ faults' = faults + 1
      /\ awaiting' = [v \in Update |-> IF awaiting[v] = w THEN NoWorker ELSE awaiting[v]]
      /\ UNCHANGED <<attempts, leased, handles, acked, applied, expiries, finished>>
  BY DEF Fail, StopWaitingFor, Handler
<1>2. u \in Update
  BY <1>1 DEF WebhookIInv, WebhookTypeOK, Handler
<1>3. u = handles[w]
  OBVIOUS
<1> HIDE DEF u
<1>4. WebhookTypeOK'
  BY <1>1, <1>2, MaxFaultsIsNatural DEF WebhookIInv, WebhookTypeOK, Phase, Status
<1>5. /\ phase'[w] = "idle" /\ \A x \in Worker \ {w} : phase'[x] = phase[x]
      /\ status'[u] = "failed" /\ \A v \in Update \ {u} : status'[v] = status[v]
      /\ failures'[u] = failures[u] + 1
      /\ \A v \in Update \ {u} : failures'[v] = failures[v]
  BY <1>1, <1>2 DEF WebhookIInv, WebhookTypeOK
<1>6. MarksHonest' /\ AcknowledgedOnlyIfApplied'
  BY <1>1, <1>2, <1>5 DEF WebhookIInv, MarksHonest, AcknowledgedOnlyIfApplied
<1>7. AttemptsPaid'
  <2>1. \A v \in Update : attempts[v] \in Nat /\ failures[v] \in Nat /\ expiries[v] \in Nat
    BY DEF WebhookIInv, WebhookTypeOK
  <2>2. QED
    BY <1>1, <1>2, <1>5, <2>1 DEF WebhookIInv, AttemptsPaid
<1>8. CommitsCounted'
  <2>1. \A v \in Update : Handling(v)' \subseteq Handling(v)
    BY <1>1, <1>5 DEF Handling
  <2>2. QED
    BY <1>1, <1>4, <2>1, HandlingShrinks DEF WebhookIInv
<1>9. LeaseHeld' /\ OneHandlerPerLease'
  <2>1. \A x \in Worker \ {w} : Handler(x) /\ expiries[handles[x]] = 0 => handles[x] # u
    BY <1>1, <1>3 DEF WebhookIInv, OneHandlerPerLease, Handler
  <2>2. \A x \in Worker : phase[x] # "idle" => handles[x] \in Update
    BY DEF WebhookIInv, WebhookTypeOK
  <2>3. QED
    BY <1>1, <1>5, <2>1, <2>2 DEF WebhookIInv, LeaseHeld, OneHandlerPerLease, Handler
<1>10. QED
  BY <1>4, <1>6, <1>7, <1>8, <1>9 DEF WebhookIInv

\* A dead request handles nothing any more.
LEMMA CrashInvariant == ASSUME WebhookIInv, NEW w \in Worker, Crash(w) PROVE WebhookIInv'
<1>1. /\ faults < MaxFaults
      /\ phase' = [phase EXCEPT ![w] = "idle"]
      /\ faults' = faults + 1
      /\ awaiting' = [v \in Update |-> IF awaiting[v] = w THEN NoWorker ELSE awaiting[v]]
      /\ UNCHANGED <<rowVars, handles, acked, applied, failures, expiries, finished>>
  BY DEF Crash, StopWaitingFor
<1>2. WebhookTypeOK'
  BY <1>1, MaxFaultsIsNatural DEF WebhookIInv, WebhookTypeOK, Phase, rowVars
<1>3. phase'[w] = "idle" /\ \A x \in Worker \ {w} : phase'[x] = phase[x]
  BY <1>1 DEF WebhookIInv, WebhookTypeOK
<1>4. MarksHonest' /\ AcknowledgedOnlyIfApplied' /\ AttemptsPaid'
  BY <1>1, <1>3
     DEF WebhookIInv, MarksHonest, AcknowledgedOnlyIfApplied, AttemptsPaid, rowVars
<1>5. CommitsCounted'
  <2>1. \A v \in Update : Handling(v)' \subseteq Handling(v)
    BY <1>1, <1>3 DEF Handling
  <2>2. QED
    BY <1>1, <1>2, <2>1, HandlingShrinks DEF WebhookIInv, rowVars
<1>6. LeaseHeld' /\ OneHandlerPerLease'
  BY <1>1, <1>3 DEF WebhookIInv, LeaseHeld, OneHandlerPerLease, Handler, rowVars
<1>7. QED
  BY <1>2, <1>4, <1>5, <1>6 DEF WebhookIInv

\* The end of a lease pays for the next attempt.
LEMMA ExpireInvariant == ASSUME WebhookIInv, NEW u \in Update, Expire(u) PROVE WebhookIInv'
<1>1. /\ leased' = leased \ {u}
      /\ expiries' = [expiries EXCEPT ![u] = @ + 1]
      /\ UNCHANGED <<status, attempts, telegramVars, phase, handles, applied,
                     failures, finished, faults>>
  BY DEF Expire
<1>2. WebhookTypeOK'
  BY <1>1 DEF WebhookIInv, WebhookTypeOK, telegramVars
<1>3. expiries'[u] = expiries[u] + 1 /\ \A v \in Update \ {u} : expiries'[v] = expiries[v]
  BY <1>1 DEF WebhookIInv, WebhookTypeOK
<1>4. \A v \in Update : attempts[v] \in Nat /\ failures[v] \in Nat /\ expiries[v] \in Nat
  BY DEF WebhookIInv, WebhookTypeOK
<1>5. MarksHonest' /\ AcknowledgedOnlyIfApplied'
  BY <1>1 DEF WebhookIInv, MarksHonest, AcknowledgedOnlyIfApplied, telegramVars
<1>6. AttemptsPaid'
  BY <1>1, <1>3, <1>4 DEF WebhookIInv, AttemptsPaid
<1>7. CommitsCounted'
  <2>1. \A v \in Update : Handling(v)' \subseteq Handling(v)
    BY <1>1 DEF Handling
  <2>2. QED
    BY <1>1, <1>2, <2>1, HandlingShrinks DEF WebhookIInv
<1>8. LeaseHeld' /\ OneHandlerPerLease'
  <2>1. \A x \in Worker : phase[x] # "idle" => handles[x] \in Update
    BY DEF WebhookIInv, WebhookTypeOK
  <2>2. expiries'[u] # 0
    BY <1>3, <1>4
  <2>3. QED
    BY <1>1, <1>3, <2>1, <2>2 DEF WebhookIInv, LeaseHeld, OneHandlerPerLease, Handler
<1>9. QED
  BY <1>2, <1>5, <1>6, <1>7, <1>8 DEF WebhookIInv

\* Telegram's patience and its repeated questions change no request.
LEMMA WaitingInvariant ==
  ASSUME WebhookIInv, NEW u \in Update, AcknowledgeCompleted(u) \/ TimeOut(u)
  PROVE  WebhookIInv'
<1>1. /\ \/ acked' = acked
         \/ status[u] = "completed" /\ acked' = acked \cup {u}
      /\ awaiting' = awaiting \/ awaiting' = [awaiting EXCEPT ![u] = NoWorker]
      /\ UNCHANGED <<rowVars, historyVars, phase, handles>>
  BY DEF AcknowledgeCompleted, TimeOut
<1>2. WebhookTypeOK'
  BY <1>1 DEF WebhookIInv, WebhookTypeOK, rowVars, historyVars
<1>3. AcknowledgedOnlyIfApplied'
  BY <1>1 DEF WebhookIInv, MarksHonest, AcknowledgedOnlyIfApplied, historyVars
<1>4. CommitsCounted'
  <2>1. \A v \in Update : Handling(v)' \subseteq Handling(v)
    BY <1>1 DEF Handling
  <2>2. QED
    BY <1>1, <1>2, <2>1, HandlingShrinks DEF WebhookIInv, rowVars, historyVars
<1>5. MarksHonest' /\ AttemptsPaid' /\ LeaseHeld' /\ OneHandlerPerLease'
  BY <1>1 DEF WebhookIInv, MarksHonest, AttemptsPaid, LeaseHeld, OneHandlerPerLease, Handler,
              rowVars, historyVars
<1>6. QED
  BY <1>2, <1>3, <1>4, <1>5 DEF WebhookIInv

\* Every step keeps the invariant.
LEMMA WebhookStepInvariant == WebhookIInv /\ [WebhookNext]_webhookVars => WebhookIInv'
<1> SUFFICES ASSUME WebhookIInv, [WebhookNext]_webhookVars PROVE WebhookIInv'
  OBVIOUS
<1>1. CASE \E u \in Update : Deliver(u) \/ TimeOut(u) \/ Expire(u)
  BY <1>1, ClaimInvariant, WaitingInvariant, ExpireInvariant DEF Deliver
<1>2. CASE \E w \in Worker : Progress(w) \/ Fail(w) \/ Crash(w)
  BY <1>2, ApplyInvariant, MarkCompletedInvariant, RespondInvariant, FailInvariant,
     CrashInvariant DEF Progress
<1>3. CASE UNCHANGED webhookVars
  BY <1>3 DEF webhookVars, rowVars, telegramVars, historyVars, WebhookIInv, WebhookTypeOK,
              MarksHonest,
              AttemptsPaid, CommitsCounted, Handling, LeaseHeld, Handler,
              AcknowledgedOnlyIfApplied, OneHandlerPerLease
<1>4. QED
  BY <1>1, <1>2, <1>3 DEF WebhookNext

\* The table and the requests keep their types.
THEOREM WebhookTypeCorrect == WebhookSpec => []WebhookTypeOK
<1>1. WebhookIInv => WebhookTypeOK
  BY DEF WebhookIInv
<1>2. QED
  BY <1>1, WebhookInitInvariant, WebhookStepInvariant, PTL DEF WebhookSpec

\* Telegram hears success only for an update whose command was committed.
THEOREM NothingAcknowledgedEarly == WebhookSpec => []AcknowledgedOnlyIfApplied
<1>1. WebhookIInv => AcknowledgedOnlyIfApplied
  BY DEF WebhookIInv
<1>2. QED
  BY <1>1, WebhookInitInvariant, WebhookStepInvariant, PTL DEF WebhookSpec

\* Every attempt but the first has a failure or an expired lease behind it, and
\* commits its command once at most.
THEOREM AttemptsAreJustified == WebhookSpec => []AttemptsJustified
<1>1. WebhookIInv => AttemptsJustified
  <2> SUFFICES ASSUME WebhookIInv, NEW u \in Update
               PROVE  /\ attempts[u] <= 1 + failures[u] + expiries[u]
                      /\ applied[u] <= attempts[u]
    BY DEF AttemptsJustified
  <2>1. Cardinality(Handling(u)) \in Nat /\ applied[u] \in Nat /\ attempts[u] \in Nat
    BY FS_CardinalityType DEF WebhookIInv, CommitsCounted, WebhookTypeOK
  <2>2. QED
    BY <2>1 DEF WebhookIInv, AttemptsPaid, CommitsCounted
<1>2. QED
  BY <1>1, WebhookInitInvariant, WebhookStepInvariant, PTL DEF WebhookSpec

\* Until a lease of an update runs out, one request at most handles it.
THEOREM LeasesExclude == WebhookSpec => []OneHandlerPerLease
<1>1. WebhookIInv => OneHandlerPerLease
  BY DEF WebhookIInv
<1>2. QED
  BY <1>1, WebhookInitInvariant, WebhookStepInvariant, PTL DEF WebhookSpec

\* While no lease of it ran out, a completed update stays completed.
FinishedStands == \A u \in finished : expiries[u] = 0 => status[u] = "completed"

\* Only a request that outlived a lease can take a completion back.
LEMMA FinishedStandsStep ==
  WebhookIInv /\ FinishedStands /\ [WebhookNext]_webhookVars => FinishedStands'
<1> SUFFICES ASSUME WebhookIInv, FinishedStands, [WebhookNext]_webhookVars PROVE FinishedStands'
  OBVIOUS
<1> USE DEF FinishedStands
<1>1. /\ finished \subseteq Update /\ status \in [Update -> Status]
      /\ expiries \in [Update -> Nat]
  BY DEF WebhookIInv, WebhookTypeOK
<1>2. ASSUME NEW u \in Update, NEW w \in Worker, Claim(u, w) PROVE FinishedStands'
  <2>1. status[u] # "completed"
    BY <1>2 DEF Claim, Claimable
  <2>2. /\ status' = [status EXCEPT ![u] = "processing"]
        /\ UNCHANGED <<finished, expiries>>
    BY <1>2 DEF Claim, historyVars
  <2>3. QED
    BY <1>1, <2>1, <2>2
<1>3. ASSUME NEW w \in Worker, MarkCompleted(w) PROVE FinishedStands'
  <2>1. /\ status' = [status EXCEPT ![handles[w]] = "completed"]
        /\ finished' = finished \cup {handles[w]} /\ UNCHANGED expiries
    BY <1>3 DEF MarkCompleted
  <2>2. handles[w] \in Update
    BY <1>3 DEF MarkCompleted, WebhookIInv, WebhookTypeOK
  <2>3. QED
    BY <1>1, <2>1, <2>2
<1>4. ASSUME NEW w \in Worker, Fail(w) PROVE FinishedStands'
  <2>1. /\ status' = [status EXCEPT ![handles[w]] = "failed"]
        /\ UNCHANGED <<finished, expiries>>
    BY <1>4 DEF Fail
  <2>2. expiries[handles[w]] = 0 => status[handles[w]] = "processing"
    BY <1>4 DEF Fail, Handler, WebhookIInv, LeaseHeld
  <2>3. QED
    BY <1>1, <2>1, <2>2
<1>5. ASSUME NEW u \in Update, Expire(u) PROVE FinishedStands'
  <2>1. /\ expiries' = [expiries EXCEPT ![u] = @ + 1]
        /\ UNCHANGED <<finished, status>>
    BY <1>5 DEF Expire
  <2>2. QED
    BY <1>1, <2>1
<1>6. ASSUME UNCHANGED <<finished, expiries, status>> PROVE FinishedStands'
  BY <1>6
<1>7. ASSUME NEW u \in Update, AcknowledgeCompleted(u) \/ TimeOut(u) PROVE FinishedStands'
  BY <1>6, <1>7 DEF AcknowledgeCompleted, TimeOut, rowVars, historyVars
<1>8. ASSUME NEW w \in Worker, Apply(w) \/ Respond(w) \/ Crash(w) PROVE FinishedStands'
  BY <1>6, <1>8 DEF Apply, Respond, Crash, rowVars, historyVars
<1>9. CASE UNCHANGED webhookVars
  BY <1>6, <1>9 DEF webhookVars, rowVars, historyVars
<1>10. QED
  BY <1>2, <1>3, <1>4, <1>5, <1>7, <1>8, <1>9 DEF WebhookNext, Deliver, Progress

\* A completed update is claimed again only after one of its leases ran out.
THEOREM CompletedAreRepeatedLate == WebhookSpec => CompletedRepeatsJustified
<1>1. WebhookInit => FinishedStands
  BY DEF WebhookInit, FinishedStands
<1>2. WebhookIInv /\ FinishedStands /\ [WebhookNext]_webhookVars
        => [\A u \in finished : attempts'[u] # attempts[u] => expiries[u] > 0]_webhookVars
  <2> SUFFICES ASSUME WebhookIInv, FinishedStands, [WebhookNext]_webhookVars, NEW u \in finished,
                      attempts'[u] # attempts[u]
               PROVE  expiries[u] > 0
    OBVIOUS
  <2>1. u \in Update /\ expiries[u] \in Nat /\ attempts \in [Update -> Nat]
    BY DEF WebhookIInv, WebhookTypeOK
  <2>2. CASE \E v \in Update, w \in Worker : Claim(v, w)
    <3> PICK v \in Update, w \in Worker : Claim(v, w)
      BY <2>2
    <3>1. Claimable(v) /\ attempts' = [attempts EXCEPT ![v] = @ + 1]
      BY DEF Claim
    <3>2. v = u
      BY <2>1, <3>1
    <3>3. status[u] # "completed"
      BY <3>1, <3>2 DEF Claimable
    <3>4. QED
      BY <2>1, <3>3 DEF FinishedStands
  <2>3. CASE ~\E v \in Update, w \in Worker : Claim(v, w)
    <3>1. attempts' = attempts
      BY <2>3 DEF WebhookNext, Deliver, Progress, AcknowledgeCompleted, TimeOut, Expire, Apply,
                  MarkCompleted, Respond, Fail, Crash, rowVars, webhookVars
    <3>2. QED
      BY <3>1
  <2>4. QED
    BY <2>2, <2>3
<1>3. QED
  BY <1>1, <1>2, WebhookInitInvariant, WebhookStepInvariant, FinishedStandsStep, PTL
     DEF WebhookSpec, CompletedRepeatsJustified

\* Whatever is repeated has a failure or an expired lease behind it.
THEOREM LeasesConsistent == WebhookSpec => []WebhookConsistent
<1>1. WebhookTypeOK /\ AttemptsJustified /\ OneHandlerPerLease => WebhookConsistent
  BY DEF WebhookConsistent
<1>2. QED
  BY <1>1, WebhookTypeCorrect, AttemptsAreJustified, LeasesExclude, PTL

-----------------------------------------------------------------------------
(* TelegramPolling: no update is lost, repeats have a crash behind them,   *)
(* first effects keep their order.                                         *)

Applied(u) == effects[u] > 0

\* What the worker has passed it has handled, but for the update in its hands.
PassedHandled ==
  /\ \A u \in 1..lastOffset : Applied(u) \/ u = pending
  /\ \A u \in seen : Applied(u) \/ u = pending
  /\ next <= last => \A u \in 1..(next - 1) : Applied(u) \/ u = pending

\* Where the worker stands in its batch.
Position ==
  /\ lastOffset <= arrived
  /\ pending # 0 => pending = lastOffset /\ pending = next - 1 /\ pending \in seen

\* An update seen by this worker has one effect more than the crashes explain.
RepeatsCounted ==
  \A u \in UpdateId :
    effects[u] <= IF u \in seen /\ u # pending THEN crashes + 1 ELSE crashes

PollingIInv ==
  /\ PollingTypeOK /\ Position /\ PassedHandled /\ RepeatsCounted
  /\ ConfirmedOnlyIfApplied /\ FirstEffectsInOrder

\* At first nothing has arrived.
LEMMA PollingInitInvariant == PollingInit => PollingIInv
BY BoundsAreNatural
   DEF PollingInit, PollingIInv, PollingTypeOK, Position, PassedHandled, RepeatsCounted,
       ConfirmedOnlyIfApplied, FirstEffectsInOrder, UpdateId

\* A new update changes nothing for the worker.
LEMMA ArriveInvariant == PollingIInv /\ Arrive => PollingIInv'
BY BoundsAreNatural
   DEF Arrive, PollingIInv, PollingTypeOK, Position, PassedHandled, RepeatsCounted, Applied,
       ConfirmedOnlyIfApplied, FirstEffectsInOrder, UpdateId

\* The offset that is sent lies above handled updates only: the batch is done.
LEMMA GetUpdatesInvariant == PollingIInv /\ GetUpdates => PollingIInv'
<1> SUFFICES ASSUME PollingIInv, GetUpdates PROVE PollingIInv'
  OBVIOUS
<1> DEFINE kept == IF lastOffset > confirmed THEN lastOffset ELSE confirmed
<1>1. /\ pending = 0 /\ confirmed' = kept /\ next' = kept + 1
      /\ last' \in kept..arrived
      /\ UNCHANGED <<arrived, lastOffset, seen, effects, pending, crashes>>
  BY DEF GetUpdates, BatchDone
<1>2. /\ arrived \in 0..MaxUpdate /\ kept \in 0..arrived
      /\ kept = lastOffset \/ kept = confirmed
  BY BoundsAreNatural DEF PollingIInv, PollingTypeOK, Position
<1>3. \A u \in 1..kept : Applied(u)
  BY <1>1, <1>2, BoundsAreNatural
     DEF PollingIInv, PollingTypeOK, PassedHandled, ConfirmedOnlyIfApplied, Applied, UpdateId
<1> HIDE DEF kept
<1>4. PollingTypeOK' /\ Position'
  BY <1>1, <1>2, BoundsAreNatural DEF PollingIInv, PollingTypeOK, Position, UpdateId
<1>5. ConfirmedOnlyIfApplied' /\ FirstEffectsInOrder' /\ RepeatsCounted'
  BY <1>1, <1>3
     DEF PollingIInv, ConfirmedOnlyIfApplied, FirstEffectsInOrder, RepeatsCounted, Applied
<1>6. PassedHandled'
  BY <1>1, <1>2, <1>3 DEF PollingIInv, PassedHandled, Applied
<1>7. QED
  BY <1>4, <1>5, <1>6 DEF PollingIInv

\* Taking up an update moves the offset over it; it was handled, or it is the
\* one in the worker's hands now.
LEMMA TakeUpInvariant == PollingIInv /\ TakeUp => PollingIInv'
<1> SUFFICES ASSUME PollingIInv, TakeUp PROVE PollingIInv'
  OBVIOUS
<1>1. next \in UpdateId /\ next <= arrived /\ next <= MaxUpdate /\ next # 0
  BY BoundsAreNatural DEF PollingIInv, PollingTypeOK, TakeUp, UpdateId
<1>2. /\ pending = 0 /\ next <= last
      /\ lastOffset' = next /\ next' = next + 1
      /\ \/ next \in seen /\ seen' = seen /\ pending' = 0
         \/ next \notin seen /\ seen' = seen \cup {next} /\ pending' = next
      /\ UNCHANGED <<arrived, confirmed, last, effects, crashes>>
  BY DEF TakeUp
<1>3. PollingTypeOK' /\ Position'
  <2>1. next + 1 \in 1..(MaxUpdate + 1) /\ next \in 0..MaxUpdate /\ next \in Nat
    BY <1>1, BoundsAreNatural DEF UpdateId
  <2>2. PollingTypeOK'
    BY <1>1, <1>2, <2>1 DEF PollingIInv, PollingTypeOK
  <2>3. Position'
    BY <1>1, <1>2, <2>1 DEF Position
  <2>4. QED
    BY <2>2, <2>3
<1>4. PassedHandled'
  <2>1. \A u \in seen : Applied(u)
    BY <1>1, <1>2, BoundsAreNatural DEF PollingIInv, PollingTypeOK, PassedHandled, UpdateId
  <2>2. \A u \in 1..(next - 1) : Applied(u)
    BY <1>1, <1>2, BoundsAreNatural DEF PollingIInv, PollingTypeOK, PassedHandled, UpdateId
  <2>3. Applied(next) \/ next = pending'
    BY <1>2, <2>1
  <2>4. \A u \in 1..next : Applied(u) \/ u = pending'
    BY <1>1, <2>2, <2>3 DEF UpdateId
  <2>5. \A u \in seen' : Applied(u) \/ u = pending'
    BY <1>2, <2>1, <2>3
  <2>6. lastOffset' = next /\ next' - 1 = next /\ effects' = effects
    BY <1>1, <1>2, BoundsAreNatural DEF UpdateId
  <2>7. QED
    BY <2>4, <2>5, <2>6 DEF PassedHandled, Applied
<1>5. RepeatsCounted'
  BY <1>1, BoundsAreNatural DEF PollingIInv, PollingTypeOK, RepeatsCounted, TakeUp, UpdateId
<1>6. ConfirmedOnlyIfApplied' /\ FirstEffectsInOrder'
  BY DEF PollingIInv, ConfirmedOnlyIfApplied, FirstEffectsInOrder, TakeUp
<1>7. QED
  BY <1>3, <1>4, <1>5, <1>6 DEF PollingIInv

\* Everything below the update that is handled has been handled before.
LEMMA HandleInvariant == PollingIInv /\ Handle => PollingIInv'
<1> SUFFICES ASSUME PollingIInv, Handle PROVE PollingIInv'
  OBVIOUS
<1>1. pending \in UpdateId /\ pending = lastOffset /\ pending \in seen
  BY BoundsAreNatural DEF PollingIInv, PollingTypeOK, Position, Handle, UpdateId
<1>2. /\ effects' = [effects EXCEPT ![pending] = @ + 1] /\ pending' = 0
      /\ UNCHANGED <<arrived, confirmed, lastOffset, seen, next, last, crashes>>
  BY DEF Handle
<1>3. /\ effects' \in [UpdateId -> Nat]
      /\ \A u \in UpdateId : effects'[u] = IF u = pending THEN effects[u] + 1 ELSE effects[u]
  BY <1>1, <1>2 DEF PollingIInv, PollingTypeOK
<1>4. \A u \in UpdateId : Applied(u) \/ u = pending => Applied(u)'
  BY <1>3 DEF PollingIInv, PollingTypeOK, Applied
<1>5. PollingTypeOK' /\ Position'
  BY <1>2, <1>3, BoundsAreNatural DEF PollingIInv, PollingTypeOK, Position
<1>6. PassedHandled'
  BY <1>2, <1>4, BoundsAreNatural DEF PollingIInv, PollingTypeOK, Position, PassedHandled,
                                      UpdateId
<1>7. RepeatsCounted'
  BY <1>1, <1>2, <1>3 DEF PollingIInv, PollingTypeOK, RepeatsCounted, UpdateId
<1>8. ConfirmedOnlyIfApplied'
  BY <1>2, <1>3, BoundsAreNatural DEF PollingIInv, PollingTypeOK, ConfirmedOnlyIfApplied,
                                      UpdateId
<1>9. FirstEffectsInOrder'
  <2>1. \A u \in UpdateId : u < pending => Applied(u)
    BY <1>1 DEF PollingIInv, PollingTypeOK, PassedHandled, UpdateId
  <2>2. QED
    BY <1>1, <1>3, <2>1 DEF PollingIInv, PollingTypeOK, FirstEffectsInOrder, Applied, UpdateId
<1>10. QED
  BY <1>5, <1>6, <1>7, <1>8, <1>9 DEF PollingIInv

\* A crash empties the memory; the command in hand may have been committed.
LEMMA WorkerFailsInvariant == PollingIInv /\ WorkerFails => PollingIInv'
<1> SUFFICES ASSUME PollingIInv, WorkerFails PROVE PollingIInv'
  OBVIOUS
<1>1. pending # 0 => pending \in UpdateId /\ pending = lastOffset /\ pending \in seen
  BY BoundsAreNatural DEF PollingIInv, PollingTypeOK, Position, UpdateId
<1>2. /\ \/ effects' = effects
         \/ pending # 0 /\ effects' = [effects EXCEPT ![pending] = @ + 1]
      /\ lastOffset' = 0 /\ seen' = {} /\ next' = 1 /\ last' = 0 /\ pending' = 0
      /\ crashes < MaxCrashes /\ crashes' = crashes + 1
      /\ UNCHANGED <<arrived, confirmed>>
  BY DEF WorkerFails
<1>3. /\ effects' \in [UpdateId -> Nat]
      /\ \A u \in UpdateId : \/ effects'[u] = effects[u]
                             \/ u = pending /\ pending # 0 /\ effects'[u] = effects[u] + 1
  BY <1>1, <1>2 DEF PollingIInv, PollingTypeOK
<1>4. PollingTypeOK' /\ Position' /\ PassedHandled'
  BY <1>2, <1>3, BoundsAreNatural DEF PollingIInv, PollingTypeOK, Position, PassedHandled
<1>5. RepeatsCounted'
  BY <1>1, <1>2, <1>3, BoundsAreNatural DEF PollingIInv, PollingTypeOK, RepeatsCounted
<1>6. ConfirmedOnlyIfApplied'
  BY <1>2, <1>3, BoundsAreNatural DEF PollingIInv, PollingTypeOK, ConfirmedOnlyIfApplied,
                                      UpdateId
<1>7. FirstEffectsInOrder'
  <2>1. pending # 0 => \A u \in UpdateId : u < pending => Applied(u)
    BY <1>1 DEF PollingIInv, PollingTypeOK, PassedHandled, UpdateId
  <2>2. QED
    BY <1>1, <1>3, <2>1 DEF PollingIInv, PollingTypeOK, FirstEffectsInOrder, Applied, UpdateId
<1>8. QED
  BY <1>4, <1>5, <1>6, <1>7 DEF PollingIInv

\* Every step keeps the invariant.
LEMMA PollingStepInvariant == PollingIInv /\ [PollingNext]_pollingVars => PollingIInv'
<1>1. PollingIInv /\ UNCHANGED pollingVars => PollingIInv'
  BY DEF pollingVars, PollingIInv, PollingTypeOK, Position, PassedHandled, RepeatsCounted,
         Applied,
         ConfirmedOnlyIfApplied, FirstEffectsInOrder
<1>2. QED
  BY <1>1, ArriveInvariant, GetUpdatesInvariant, TakeUpInvariant, HandleInvariant,
     WorkerFailsInvariant DEF PollingNext

\* The worker's memory and Telegram's side keep their types.
THEOREM PollingTypeCorrect == PollingSpec => []PollingTypeOK
<1>1. PollingIInv => PollingTypeOK
  BY DEF PollingIInv
<1>2. QED
  BY <1>1, PollingInitInvariant, PollingStepInvariant, PTL DEF PollingSpec

\* Telegram drops no update whose command was not committed, however many
\* updates there are and however often the worker dies.
THEOREM NoUpdateLost == PollingSpec => []ConfirmedOnlyIfApplied
<1>1. PollingIInv => ConfirmedOnlyIfApplied
  BY DEF PollingIInv
<1>2. QED
  BY <1>1, PollingInitInvariant, PollingStepInvariant, PTL DEF PollingSpec

\* A command is committed at most once more than the worker died.
THEOREM RepeatsAreJustified == PollingSpec => []RepeatsJustified
<1>1. PollingIInv => RepeatsJustified
  BY BoundsAreNatural DEF PollingIInv, PollingTypeOK, RepeatsCounted, RepeatsJustified
<1>2. QED
  BY <1>1, PollingInitInvariant, PollingStepInvariant, PTL DEF PollingSpec

\* First effects come in the order the updates were sent.
THEOREM OrderKept == PollingSpec => []FirstEffectsInOrder
<1>1. PollingIInv => FirstEffectsInOrder
  BY DEF PollingIInv
<1>2. QED
  BY <1>1, PollingInitInvariant, PollingStepInvariant, PTL DEF PollingSpec

\* No update is lost, repeated without a crash, or overtaken by a later one.
THEOREM UpdatesConsistent == PollingSpec => []PollingConsistent
<1>1. PollingTypeOK /\ ConfirmedOnlyIfApplied /\ RepeatsJustified /\ FirstEffectsInOrder
        => PollingConsistent
  BY DEF PollingConsistent
<1>2. QED
  BY <1>1, PollingTypeCorrect, NoUpdateLost, RepeatsAreJustified, OrderKept, PTL
=============================================================================
