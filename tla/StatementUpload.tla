--------------------------- MODULE StatementUpload ---------------------------
(***************************************************************************)
(* One statement upload, from the stored file to the parsed document:      *)
(* features/imports/documents/commands/upload.py with the commands that    *)
(* run beside it, the retention cleanup and deactivation of the workspace. *)
(*                                                                         *)
(* The requests carry one Idempotency-Key, so one document identifier.  An *)
(* upload commits four times and parses the file between the second and    *)
(* the third without any lock; it keeps working on the document it read at *)
(* the start (expire_on_commit is off).  The rest of the document's life   *)
(* is ImportReview, for which Complete here is ImportParsed there.         *)
(***************************************************************************)
EXTENDS Integers, FiniteSets

CONSTANTS Request,        \* uploads under the key (a bound); each has a file
          NoFile,
          KeyReused       \* may a key return after its document is deleted?

ASSUME NoFileIsNoRequest == NoFile \notin Request
ASSUME KeyReusedIsBoolean == KeyReused \in BOOLEAN

VARIABLES doc,       \* status of the document row, absent when there is none
          source,    \* storage_key: the file the row refers to
          attempt,   \* parse attempts of the document, by request
          rows,      \* requests whose extracted rows the document has
          files,     \* files in the upload storage, by request
          old,       \* files and rows past the retention cutoff
          active,    \* the workspace is not deactivated
          pc,        \* how far each request is
          known,     \* the document status each request last read
          unlinking, \* files a committed deletion still has to remove
          keyUsed    \* the key has had a document that was deleted

docVars == <<doc, source, attempt, rows>>
requestVars == <<pc, known>>
uploadVars == <<docVars, files, old, active, requestVars, unlinking, keyUsed>>

DocumentStatus ==
  {"absent", "uploaded", "parsed", "requires_review", "failed_to_parse", "ignored"}

\* needs_mapping is a requires_review attempt whose report asks for a mapping.
AttemptStatus ==
  {"none", "running", "success", "requires_review", "needs_mapping", "failed"}

PC == {"idle", "created", "running", "extracted", "failing", "reloaded",
       "completed", "unlinked", "done"}

UploadTypeOK ==
  /\ doc \in DocumentStatus
  /\ source \in Request \cup {NoFile}
  /\ attempt \in [Request -> AttemptStatus]
  /\ rows \subseteq Request
  /\ files \subseteq Request
  /\ old \subseteq Request
  /\ active \in BOOLEAN
  /\ pc \in [Request -> PC]
  /\ known \in [Request -> DocumentStatus]
  /\ unlinking \subseteq Request
  /\ keyUsed \in BOOLEAN

UploadInit ==
  /\ doc = "absent"
  /\ source = NoFile
  /\ attempt = [r \in Request |-> "none"]
  /\ rows = {}
  /\ files = {}
  /\ old = {}
  /\ active = TRUE
  /\ pc = [r \in Request |-> "idle"]
  /\ known = [r \in Request |-> "absent"]
  /\ unlinking = {}
  /\ keyUsed = FALSE

Exists == doc # "absent"

\* The rows of _ALLOWED_DOCUMENT_STATUS_TRANSITIONS an upload can meet.
AllowedTransitions ==
  {<<"uploaded", "parsed">>,          <<"uploaded", "requires_review">>,
   <<"uploaded", "failed_to_parse">>, <<"uploaded", "ignored">>,
   <<"parsed", "requires_review">>,   <<"parsed", "ignored">>,
   <<"requires_review", "ignored">>,  <<"failed_to_parse", "ignored">>,
   <<"ignored", "requires_review">>}

MayMove(from, to) == from = to \/ <<from, to>> \in AllowedTransitions

Goto(r, place) == pc' = [pc EXCEPT ![r] = place]
Know(r, status) == known' = [known EXCEPT ![r] = status]

-----------------------------------------------------------------------------
(* The upload.  Until its first commit a request holds the workspace lock, *)
(* so the check for an earlier document and the creation are one step; a   *)
(* request that finds the document is answered from it and has no step.    *)

Fresh == active /\ ~Exists /\ (KeyReused \/ ~keyUsed)

CreateDocument(r, status) ==
  /\ Fresh
  /\ pc[r] = "idle"
  /\ doc' = status
  /\ source' = r
  /\ files' = files \cup {r}
  /\ Know(r, status)
  /\ UNCHANGED <<rows, old, active, unlinking, keyUsed>>

\* First commit.
Upload(r) ==
  /\ CreateDocument(r, "uploaded")
  /\ Goto(r, "created")
  /\ UNCHANGED attempt

\* The first commit persists and reports an error: _reconcile_initial_commit.
UploadReconciled(r) ==
  /\ CreateDocument(r, "failed_to_parse")
  /\ attempt' = [attempt EXCEPT ![r] = "failed"]
  /\ Goto(r, "done")

\* The process dies between the write of the file and the first commit.
CrashBeforeCommit(r) ==
  /\ Fresh
  /\ pc[r] = "idle"
  /\ files' = files \cup {r}
  /\ Goto(r, "done")
  /\ UNCHANGED <<docVars, old, active, known, unlinking, keyUsed>>

\* Second commit: the attempt row; its foreign key needs the document.
StartAttempt(r) ==
  /\ pc[r] = "created"
  /\ IF Exists THEN /\ attempt' = [attempt EXCEPT ![r] = "running"]
                    /\ Goto(r, "running")
               ELSE Goto(r, "done") /\ UNCHANGED attempt
  /\ UNCHANGED <<doc, source, rows, files, old, active, known, unlinking, keyUsed>>

\* The parser sidecar reads the file, no lock held.
Extract(r) ==
  /\ pc[r] = "running"
  /\ \/ r \in files /\ Goto(r, "extracted")
     \/ Goto(r, "failing")
  /\ UNCHANGED <<docVars, files, old, active, known, unlinking, keyUsed>>

\* Both rows the completion updates are still there; otherwise the flush
\* fails and the request goes on to record a failure.
Persisted(r) == Exists /\ attempt[r] # "none"

\* What a successful extraction may end in: the attempt, the document and
\* whether rows are stored.
Outcomes ==
  {<<"success", "parsed", TRUE>>, <<"requires_review", "requires_review", TRUE>>,
   <<"requires_review", "requires_review", FALSE>>,
   <<"needs_mapping", "requires_review", FALSE>>}

PreservedOutcome == <<"requires_review", "requires_review", FALSE>>

\* Mutant: the workspace is not looked at again after the parse.
CompleteUnlocked(r) ==
  /\ pc[r] = "extracted"
  /\ Persisted(r)
  /\ \E outcome \in Outcomes :
       /\ MayMove(known[r], outcome[2])
       /\ attempt' = [attempt EXCEPT ![r] = outcome[1]]
       /\ doc' = outcome[2]
       /\ rows' = IF outcome[3] THEN rows \cup {r} ELSE rows
       /\ Know(r, outcome[2])
  /\ Goto(r, "completed")
  /\ UNCHANGED <<source, files, old, active, unlinking, keyUsed>>

\* Third commit, under the workspace lock.  The move is checked against the
\* status the request knows, not against the status in the table.
Complete(r) ==
  /\ pc[r] = "extracted"
  /\ Persisted(r)
  /\ \E outcome \in IF active THEN Outcomes ELSE {PreservedOutcome} :
       /\ MayMove(known[r], outcome[2])
       /\ attempt' = [attempt EXCEPT ![r] = outcome[1]]
       /\ doc' = outcome[2]
       /\ rows' = IF outcome[3] THEN rows \cup {r} ELSE rows
       /\ Know(r, outcome[2])
  /\ Goto(r, "completed")
  /\ UNCHANGED <<source, files, old, active, unlinking, keyUsed>>

\* Any exception on the way to the third commit rolls it back.
CompleteFails(r) ==
  /\ pc[r] = "extracted"
  /\ Goto(r, "failing")
  /\ UNCHANGED <<docVars, files, old, active, known, unlinking, keyUsed>>

\* The third commit persists and reports an error.
CompleteReportsError(r) ==
  /\ pc[r] = "extracted"
  /\ Persisted(r)
  /\ \E outcome \in IF active THEN Outcomes ELSE {PreservedOutcome} :
       /\ MayMove(known[r], outcome[2])
       /\ attempt' = [attempt EXCEPT ![r] = outcome[1]]
       /\ doc' = outcome[2]
       /\ rows' = IF outcome[3] THEN rows \cup {r} ELSE rows
  /\ Goto(r, "failing")
  /\ UNCHANGED <<source, files, old, active, known, unlinking, keyUsed>>

\* Mutant: the failure is recorded on the document the request already has.
ReloadStale(r) ==
  /\ pc[r] = "failing"
  /\ Goto(r, IF Persisted(r) THEN "reloaded" ELSE "done")
  /\ UNCHANGED <<docVars, files, old, active, known, unlinking, keyUsed>>

\* _commit_terminal_failure reads document and attempt again, without a lock.
Reload(r) ==
  /\ pc[r] = "failing"
  /\ IF Persisted(r) THEN Goto(r, "reloaded") /\ Know(r, doc)
                     ELSE Goto(r, "done") /\ UNCHANGED known
  /\ UNCHANGED <<docVars, files, old, active, unlinking, keyUsed>>

\* A status the table does not let fail, or a row deleted meanwhile, rolls
\* the whole record back: the attempt stays running.
RecordFailure(r) ==
  /\ pc[r] = "reloaded"
  /\ IF Persisted(r) /\ MayMove(known[r], "failed_to_parse")
     THEN /\ attempt' = [attempt EXCEPT ![r] = "failed"]
          /\ doc' = "failed_to_parse"
     ELSE UNCHANGED <<doc, attempt>>
  /\ Goto(r, "done")
  /\ UNCHANGED <<source, rows, files, old, active, known, unlinking, keyUsed>>

ShouldRetain(status) == status \notin {"success", "requires_review"}

\* The processed file goes first, then the fourth commit drops its key.
DeleteProcessedSource(r) ==
  /\ pc[r] = "completed"
  /\ ~ShouldRetain(attempt[r])
  /\ files' = files \ {r}
  /\ Goto(r, "unlinked")
  /\ UNCHANGED <<docVars, old, active, known, unlinking, keyUsed>>

DropStorageKey(r) ==
  /\ pc[r] = "unlinked"
  /\ source' = NoFile
  /\ Goto(r, "done")
  /\ UNCHANGED <<doc, attempt, rows, files, old, active, known, unlinking, keyUsed>>

\* The request ends here, or dies, or fails in a way that changes nothing more.
Stop(r) ==
  /\ pc[r] \notin {"idle", "done"}
  /\ Goto(r, "done")
  /\ UNCHANGED <<docVars, files, old, active, known, unlinking, keyUsed>>

-----------------------------------------------------------------------------
(* Commands beside the upload                                              *)

IgnoreDocument ==
  /\ active /\ Exists
  /\ MayMove(doc, "ignored")
  /\ doc' = "ignored"
  /\ UNCHANGED <<source, attempt, rows, files, old, active, requestVars,
                 unlinking, keyUsed>>

\* Attempts and rows go with the document; its file after the commit.
DeleteDocument ==
  /\ active /\ Exists
  /\ doc' = "absent"
  /\ source' = NoFile
  /\ attempt' = [r \in Request |-> "none"]
  /\ rows' = {}
  /\ unlinking' = unlinking \cup ({source} \ {NoFile})
  /\ keyUsed' = TRUE
  /\ UNCHANGED <<files, old, active, requestVars>>

\* A deletion that dies here leaves its file to the cleanup.
FinishDeletion(r) ==
  /\ r \in unlinking
  /\ unlinking' = unlinking \ {r}
  /\ files' \in {files, files \ {r}}
  /\ UNCHANGED <<docVars, old, active, requestVars, keyUsed>>

\* The workspace lifecycle commands, under the workspace lock.
ToggleWorkspace ==
  /\ active' = ~active
  /\ UNCHANGED <<docVars, files, old, requestVars, unlinking, keyUsed>>

-----------------------------------------------------------------------------
(* Retention: source_cleanup.py, run on a schedule                         *)

GrowOld(r) ==
  /\ r \in files \ old
  /\ old' = old \cup {r}
  /\ UNCHANGED <<docVars, files, active, requestVars, unlinking, keyUsed>>

Attempts == {r \in Request : attempt[r] # "none"}

\* The cleanup keeps a present file until the cutoff while the document has
\* no attempt or may need the file again.  It reads the latest attempt.
MustWait(r) ==
  /\ r \in files \ old
  /\ \/ Attempts = {}
     \/ \E latest \in Attempts : ShouldRetain(attempt[latest])

\* Mutant: a file whose row was not committed yet is fair game.
CleanAnyDocument(r) ==
  /\ source = r
  /\ files' = files \ {r}
  /\ source' \in {NoFile, r}
  /\ <<files', source'>> # <<files, source>>
  /\ UNCHANGED <<doc, attempt, rows, old, active, requestVars, unlinking, keyUsed>>

\* The file goes first; a cleanup that dies before its commit leaves the key.
CleanDocument(r) ==
  /\ source = r
  /\ ~MustWait(r)
  /\ files' = files \ {r}
  /\ source' \in {NoFile, r}
  /\ <<files', source'>> # <<files, source>>
  /\ UNCHANGED <<doc, attempt, rows, old, active, requestVars, unlinking, keyUsed>>

\* Mutant: orphans are looked for among the documents' files only.
CleanReferenced(r) ==
  /\ r \in files \cap old
  /\ source = r
  /\ files' = files \ {r}
  /\ UNCHANGED <<docVars, old, active, requestVars, unlinking, keyUsed>>

CleanOrphan(r) ==
  /\ r \in files \cap old
  /\ source # r
  /\ files' = files \ {r}
  /\ UNCHANGED <<docVars, old, active, requestVars, unlinking, keyUsed>>

-----------------------------------------------------------------------------
Step(r) ==
  \/ Upload(r) \/ UploadReconciled(r) \/ CrashBeforeCommit(r)
  \/ StartAttempt(r) \/ Extract(r)
  \/ Complete(r) \/ CompleteFails(r) \/ CompleteReportsError(r)
  \/ Reload(r) \/ RecordFailure(r)
  \/ DeleteProcessedSource(r) \/ DropStorageKey(r) \/ Stop(r)

Cleanup(r) == CleanDocument(r) \/ CleanOrphan(r)

UploadNext ==
  \/ \E r \in Request : Step(r) \/ FinishDeletion(r) \/ GrowOld(r) \/ Cleanup(r)
  \/ IgnoreDocument \/ DeleteDocument \/ ToggleWorkspace

UploadSpec == UploadInit /\ [][UploadNext]_uploadVars

\* Time passes and the scheduled cleanup runs; it need not survive a commit.
UploadFairness == \A r \in Request : WF_uploadVars(GrowOld(r)) /\ WF_uploadVars(Cleanup(r))

UploadFairSpec == UploadSpec /\ UploadFairness

-----------------------------------------------------------------------------
(* Properties                                                              *)

\* A document the user is told has failed, or is still being processed, never
\* has rows, although a commit may succeed and report an error, and although
\* the completion overwrites whatever status it finds.  When the key comes back
\* after a deletion, a parse of the first request may complete the new document.
RowsOnlyInParsedDocument ==
  ~keyUsed /\ rows # {} => doc \in {"parsed", "requires_review", "ignored"}

\* A deactivated workspace gets no rows from a parse that began before, and
\* the completed attempt is kept for review.
NoRowsWhileInactive == [][~active /\ ~active' => rows' \subseteq rows]_uploadVars

\* While a document waits for a mapping, or its parse is under way, the file
\* is there until the retention cutoff: neither the cleanup nor another step
\* takes it away.  Stated for the first document of the key.
SourceKeptWhileNeeded ==
  ~keyUsed => \A r \in Request :
    /\ Exists /\ source = r /\ r \notin old
    /\ Attempts = {} \/ attempt[r] \in {"running", "needs_mapping"}
    => r \in files

\* Every file leaves the storage in the end: processed, deleted, orphaned by
\* a crash before the first commit or after a deletion, or retained.
FilesExpire == \A r \in Request : r \in files ~> r \notin files

\* The document is well formed and has rows only when it says so, however the
\* steps of two requests, their failures and the cleanup are mixed.
UploadConsistent == UploadTypeOK /\ RowsOnlyInParsedDocument
=============================================================================
