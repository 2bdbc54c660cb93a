---------------------------- MODULE ImportReview ----------------------------
(***************************************************************************)
(* Statement rows, their documents and the operations posted from them:    *)
(* features/import_review, the row importers of features/imports and the   *)
(* ledger commands of Ledger, in one workspace.                            *)
(*                                                                         *)
(* A command runs with the workspace row locked and commits once, so it is *)
(* one step; a command the code refuses or answers as a replay changes     *)
(* nothing and has no step.  A row keeps its document, amount, dedupe hash *)
(* and duplicate fingerprint for life.  The dates of an instance lie       *)
(* within one three-day matching window and a row is in the currency of    *)
(* its document's account.  Categories, properties and validation totals   *)
(* are left out.                                                           *)
(***************************************************************************)
EXTENDS Ledger

CONSTANTS Document, Row,
          DocumentOf,       \* the document of each row
          DocumentAccount,  \* the account of each document
          AmountOf,         \* the signed amount of each row
          Unreadable,       \* rows whose amount, currency or date did not parse
          Hash, NoHash,
          HashOf,           \* dedupe_hash, NoHash where a fact is missing
          FingerprintOf,    \* equal for rows that may be duplicates
          NoRow, NoAccount, NoOperation

AccountOf(r) == DocumentAccount[DocumentOf[r]]

ASSUME RowsBelongToDocuments ==
  /\ DocumentOf \in [Row -> Document]
  /\ DocumentAccount \in [Document -> Account]
  /\ AmountOf \in [Row -> Int]
  /\ Unreadable \subseteq Row

\* build_dedupe_hash hashes the account, date, amount and currency too.
ASSUME HashesFixFacts ==
  /\ HashOf \in [Row -> Hash \cup {NoHash}]
  /\ NoHash \notin Hash
  /\ \A r \in Row : r \in Unreadable <=> HashOf[r] = NoHash
  /\ \A r, s \in Row : HashOf[r] = HashOf[s] /\ HashOf[r] # NoHash
       => /\ FingerprintOf[r] = FingerprintOf[s]
          /\ AccountOf(r) = AccountOf(s)
          /\ AmountOf[r] = AmountOf[s]

ASSUME NullsAreNotValues ==
  NoRow \notin Row /\ NoAccount \notin Account /\ NoOperation \notin Operation

VARIABLES rowStatus,     \* absent before import and after deletion
          rowLink,       \* linked_operation_id
          suggestedRows, \* the rows whose suggested_by_rule_id is set
          docStatus      \* of the uploaded document

reviewVars == <<rowStatus, rowLink, suggestedRows, docStatus>>
vars == <<ledgerVars, reviewVars>>

\* extracted and failed exist in the enumeration; no parser writes them.
RowStatus ==
  {"absent", "normalized", "suggested", "needs_review", "matched", "ignored",
   "duplicate", "possible_duplicate", "confirmed"}

\* Documents from the end of their parse on; StatementUpload has the rest.
DocumentStatus ==
  {"absent", "parsed", "requires_review", "imported", "ignored", "deleted"}

\* An operation's request is the command that created it, as its fingerprint
\* hashes it and as its metadata record it.
Request(command, row, matched, account) ==
  [command |-> command, row |-> row, matched |-> matched, account |-> account]

ConfirmRequest(r) == Request("confirm", r, NoRow, NoAccount)
NewTransferRequest(r, a) == Request("new_transfer", r, NoRow, a)
MatchRequest(r, m) == Request("raw_row_match", r, m, NoAccount)

ImportRequests ==
  [command : {"confirm", "new_transfer", "raw_row_match"}, row : Row,
   matched : Row \cup {NoRow}, account : Account \cup {NoAccount}]

TypeOK ==
  /\ LedgerTypeOK
  /\ opRequest \in [Operation -> ImportRequests \cup {ManualRequest}]
  /\ rowStatus \in [Row -> RowStatus]
  /\ rowLink \in [Row -> Operation \cup {NoOperation}]
  /\ suggestedRows \subseteq Row
  /\ docStatus \in [Document -> DocumentStatus]

Init ==
  /\ LedgerInit
  /\ rowStatus = [r \in Row |-> "absent"]
  /\ rowLink = [r \in Row |-> NoOperation]
  /\ suggestedRows = {}
  /\ docStatus = [d \in Document |-> "absent"]

RowsOf(d) == {r \in Row : DocumentOf[r] = d}
Stored(d) == docStatus[d] \notin {"absent", "deleted"}
Linked(r) == rowLink[r] # NoOperation

-----------------------------------------------------------------------------
(* Status policies                                                         *)

\* COMPLETE_RAW_TRANSACTION_STATUSES, and TERMINAL_REVIEW_STATUSES.
Complete == {"confirmed", "ignored", "duplicate"}
AllComplete(d, status) ==
  \A r \in RowsOf(d) : status[r] \in Complete \cup {"absent"}

AllowedTransitions ==
  {<<"parsed", "requires_review">>,   <<"parsed", "imported">>,
   <<"parsed", "ignored">>,           <<"requires_review", "imported">>,
   <<"requires_review", "ignored">>,  <<"imported", "requires_review">>,
   <<"imported", "ignored">>,         <<"ignored", "requires_review">>}

\* transition_document_status: a command that asks for a move the table does
\* not have is rolled back as a whole.
MayMove(from, to) == from = to \/ <<from, to>> \in AllowedTransitions

MoveDocument(d, to) ==
  /\ MayMove(docStatus[d], to)
  /\ docStatus' = [docStatus EXCEPT ![d] = to]

\* sync_review_status, after the rows have changed.
SyncReviewStatus(d) ==
  MoveDocument(d, IF AllComplete(d, rowStatus') THEN "imported"
                                                ELSE "requires_review")

\* mark_imported_if_complete for every affected document of a transfer.
MarkImportedIfComplete(documents) ==
  LET done == {d \in documents : AllComplete(d, rowStatus')}
  IN /\ \A d \in done : MayMove(docStatus[d], "imported")
     /\ docStatus' = [d \in Document |->
                        IF d \in done THEN "imported" ELSE docStatus[d]]

\* restored_review_status_after_unlink
RestoredStatus(r) == IF r \in suggestedRows THEN "suggested" ELSE "normalized"

\* Mutant: the documents keep their status.
UnlinkRowsOnly(rows) ==
  /\ rowStatus' = [r \in Row |->
                     IF r \in rows THEN RestoredStatus(r) ELSE rowStatus[r]]
  /\ rowLink' = [r \in Row |-> IF r \in rows THEN NoOperation ELSE rowLink[r]]
  /\ UNCHANGED <<docStatus, suggestedRows>>

\* Undo and deletion write the status without consulting the table.
UnlinkRows(rows) ==
  /\ rowStatus' = [r \in Row |->
                     IF r \in rows THEN RestoredStatus(r) ELSE rowStatus[r]]
  /\ rowLink' = [r \in Row |-> IF r \in rows THEN NoOperation ELSE rowLink[r]]
  /\ docStatus' = [d \in Document |->
                     IF \E r \in rows : DocumentOf[r] = d
                     THEN "requires_review" ELSE docStatus[d]]
  /\ UNCHANGED suggestedRows

\* Mutant: the index covers one document.
HashFreeInDocument(r) ==
  \A s \in RowsOf(DocumentOf[r]) \ {r} :
    HashOf[s] = HashOf[r] /\ HashOf[r] # NoHash => rowStatus[s] # "confirmed"

\* The unique index over confirmed rows: at most one row per dedupe hash.
HashFree(r) ==
  \A s \in Row \ {r} :
    HashOf[s] = HashOf[r] /\ HashOf[r] # NoHash => rowStatus[s] # "confirmed"

LinkRows(rows, o) ==
  /\ rowStatus' = [r \in Row |-> IF r \in rows THEN "confirmed" ELSE rowStatus[r]]
  /\ rowLink' = [r \in Row |-> IF r \in rows THEN o ELSE rowLink[r]]

-----------------------------------------------------------------------------
(* Rules: which rows the active rules match depends on texts the model     *)
(* does not have, so any suggestable rows may match.                       *)

RuleSuggestable ==
  {"normalized", "suggested", "matched", "needs_review", "possible_duplicate"}

RuleRows(rows, status) ==
  {r \in rows : status[r] \in RuleSuggestable /\ ~Linked(r)}

\* Clear the old suggestion, then apply the best matching rule if there is one.
RuledStatus(status, matches) ==
  IF status \in {"normalized", "suggested"}
  THEN IF matches THEN "suggested" ELSE "normalized"
  ELSE status

ApplyRulesTo(rows, matched, status) ==
  LET targets == RuleRows(rows, status)
  IN /\ matched \subseteq targets
     /\ rowStatus' = [r \in Row |-> IF r \in targets
                                    THEN RuledStatus(status[r], r \in matched)
                                    ELSE status[r]]
     /\ suggestedRows' = (suggestedRows \ targets) \cup matched

-----------------------------------------------------------------------------
(* Importing rows                                                          *)

\* Rows a new row of d may duplicate: other documents' rows still in play.
Known(d) ==
  {s \in Row : /\ DocumentOf[s] # d
               /\ rowStatus[s] \notin {"absent", "duplicate", "ignored"}}

ImportedStatus(r) ==
  LET known == Known(DocumentOf[r]) \ Unreadable
  IN IF r \in Unreadable THEN "needs_review"
     ELSE IF \E s \in known : HashOf[s] = HashOf[r] THEN "duplicate"
     ELSE IF \E s \in known : FingerprintOf[s] = FingerprintOf[r]
          THEN "possible_duplicate"
     ELSE "normalized"

\* Create rows, flag duplicates, run the rules on the new rows.
CreateRows(created, matched, status) ==
  /\ ApplyRulesTo(created, matched,
       [r \in Row |-> IF r \in created THEN ImportedStatus(r) ELSE status[r]])
  /\ UNCHANGED rowLink

UnusedRows(d) == {r \in RowsOf(d) : rowStatus[r] = "absent"}

\* The end of a successful parse: no rows, or rows whose control totals did
\* or did not agree.
ImportParsed(d, created, matched) ==
  /\ docStatus[d] = "absent"
  /\ created \subseteq RowsOf(d)
  /\ CreateRows(created, matched, rowStatus)
  /\ \E to \in {"parsed", "requires_review"} :
       /\ created = {} => to = "requires_review"
       /\ docStatus' = [docStatus EXCEPT ![d] = to]
  /\ UNCHANGED ledgerVars

\* A mapping replaces the unconfirmed rows: the rows still in review become
\* duplicates and the table's rows are created next to them.
ImportMapped(d, created, matched) ==
  /\ Stored(d)
  /\ \A r \in RowsOf(d) : rowStatus[r] # "confirmed"
  /\ created # {}
  /\ created \subseteq UnusedRows(d)
  /\ CreateRows(created, matched,
       [r \in Row |->
          IF DocumentOf[r] = d /\ rowStatus[r] \notin Complete \cup {"absent"}
          THEN "duplicate" ELSE rowStatus[r]])
  /\ MoveDocument(d, "requires_review")
  /\ UNCHANGED ledgerVars

-----------------------------------------------------------------------------
(* Review commands                                                         *)

\* evaluate_review_confirmability and POSTABLE_RAW_STATUSES together: what is
\* ignored, duplicate or possibly duplicate must be released first.
Confirmable == {"normalized", "suggested", "matched", "needs_review"}

Confirm(r, o, key, remember, matched) ==
  LET type == IF AmountOf[r] > 0 THEN "income" ELSE "expense"
      linked == [rowStatus EXCEPT ![r] = "confirmed"]
  IN /\ ~Linked(r)
     /\ rowStatus[r] \in Confirmable
     /\ r \notin Unreadable
     /\ AmountOf[r] # 0
     /\ HashFree(r)
     /\ Post(o, "bank_pdf", type, {Entry(AccountOf(r), AmountOf[r])},
             key, ConfirmRequest(r))
     /\ rowLink' = [rowLink EXCEPT ![r] = o]
     /\ IF remember
        THEN ApplyRulesTo(RowsOf(DocumentOf[r]), matched, linked)
        ELSE matched = {} /\ rowStatus' = linked /\ UNCHANGED suggestedRows
     /\ SyncReviewStatus(DocumentOf[r])

\* TRANSFER_POSTABLE_RAW_STATUSES: ignored and possibly duplicate rows too.
TransferPostable == Confirmable \cup {"possible_duplicate", "ignored"}

CanPostAsTransfer(r) ==
  /\ ~Linked(r)
  /\ rowStatus[r] \in TransferPostable
  /\ r \notin Unreadable

\* Mutant: the row's account always pays.
OutgoingEntries(r, account) ==
  LET amount == IF AmountOf[r] < 0 THEN -AmountOf[r] ELSE AmountOf[r]
  IN TransferEntries(AccountOf(r), account, amount)

NewTransferEntries(r, account) ==
  {Entry(AccountOf(r), AmountOf[r]), Entry(account, -AmountOf[r])}

\* The counterparty account has no statement row.
PostNewTransfer(r, account, o, key) ==
  /\ CanPostAsTransfer(r)
  /\ account # AccountOf(r)
  /\ SameCurrency(account, AccountOf(r))
  /\ HashFree(r)
  /\ Post(o, "bank_pdf", "transfer", NewTransferEntries(r, account),
          key, NewTransferRequest(r, account))
  /\ LinkRows({r}, o)
  /\ MarkImportedIfComplete({DocumentOf[r]})
  /\ UNCHANGED suggestedRows

TransferCandidates(r) ==
  {m \in Row \ {r} : /\ ~Linked(m)
                     /\ rowStatus[m] \in TransferPostable \ {"ignored"}
                     /\ m \notin Unreadable
                     /\ AccountOf(m) # AccountOf(r)
                     /\ SameCurrency(AccountOf(m), AccountOf(r))
                     /\ AmountOf[m] = -AmountOf[r]}

\* Both sides of the transfer were imported.
PostMatchedTransfer(r, m, o, key) ==
  /\ CanPostAsTransfer(r)
  /\ m \in TransferCandidates(r)
  /\ HashFree(r) /\ HashFree(m)
  /\ Post(o, "bank_pdf", "transfer",
          {Entry(AccountOf(r), AmountOf[r]), Entry(AccountOf(m), AmountOf[m])},
          key, MatchRequest(r, m))
  /\ LinkRows({r, m}, o)
  /\ MarkImportedIfComplete({DocumentOf[r], DocumentOf[m]})
  /\ UNCHANGED suggestedRows

RowsOfAccountLinkedTo(o, account) ==
  {s \in Row : rowLink[s] = o /\ AccountOf(s) = account}

HasRowsEntry(o, r) == Entry(AccountOf(r), AmountOf[r]) \in opEntries[o]

\* Mutant: imported transfers are candidates too.
AnyTransferCandidate(o, r) ==
  /\ opType[o] = "transfer"
  /\ opStatus[o] = "confirmed"
  /\ HasRowsEntry(o, r)
  /\ RowsOfAccountLinkedTo(o, AccountOf(r)) = {}

ManualTransferCandidate(o, r) ==
  /\ opSource[o] = "manual" /\ opType[o] = "transfer"
  /\ opStatus[o] = "confirmed"
  /\ HasRowsEntry(o, r)
  /\ RowsOfAccountLinkedTo(o, AccountOf(r)) = {}

LinkExistingTransfer(r, o) ==
  /\ CanPostAsTransfer(r)
  /\ ManualTransferCandidate(o, r)
  /\ HashFree(r)
  /\ LinkRows({r}, o)
  /\ MarkImportedIfComplete({DocumentOf[r]})
  /\ UNCHANGED <<suggestedRows, ledgerVars>>

\* Unlike the candidate list shown to the user, the query the command uses
\* does not leave out operations that already have a row of this account.
ManualIncomeExpenseCandidate(o, r) ==
  /\ opSource[o] = "manual" /\ opType[o] \in {"income", "expense"}
  /\ opStatus[o] = "confirmed"
  /\ HasRowsEntry(o, r)

\* REVIEW_QUEUE_STATUSES without failed.
Reviewable == Confirmable \cup {"possible_duplicate"}

LinkExistingOperation(r, o) ==
  /\ ~Linked(r)
  /\ rowStatus[r] \in Reviewable
  /\ r \notin Unreadable
  /\ ManualIncomeExpenseCandidate(o, r)
  /\ HashFree(r)
  /\ LinkRows({r}, o)
  /\ SyncReviewStatus(DocumentOf[r])
  /\ UNCHANGED <<suggestedRows, ledgerVars>>

\* An imported operation is ignored and lets go of every row; a manual one
\* stays and lets go of this row.
UndoPosting(r) ==
  LET o == rowLink[r]
  IN /\ Linked(r)
     /\ opStatus[o] = "confirmed"
     /\ IF opSource[o] = "bank_pdf"
        THEN /\ opStatus' = [opStatus EXCEPT ![o] = "ignored"]
             /\ UnlinkRows({s \in Row : rowLink[s] = o})
        ELSE /\ opSource[o] = "manual"
             /\ UNCHANGED opStatus
             /\ UnlinkRows({r})
     /\ UNCHANGED <<opSource, opType, opEntries, opKey, opRequest>>

\* _TARGET_STATUS and _ALLOWED_ACTIONS.
LifecycleTarget(action) ==
  CASE action = "mark_unique"    -> "matched"
    [] action = "mark_duplicate" -> "duplicate"
    [] action = "ignore"         -> "ignored"
    [] action = "needs_review"   -> "needs_review"

LifecycleActions(status) ==
  CASE status \in {"normalized", "suggested"} -> {"needs_review", "ignore"}
    [] status = "needs_review"       -> {"ignore"}
    [] status = "matched"            -> {"mark_duplicate", "needs_review", "ignore"}
    [] status = "possible_duplicate" -> {"mark_unique", "mark_duplicate",
                                         "needs_review", "ignore"}
    [] status = "duplicate"          -> {"mark_unique", "needs_review", "ignore"}
    [] status \in {"ignored", "confirmed"} -> {"needs_review"}
    [] OTHER                         -> {}

\* A repeated action leaves the row and still brings the document in line.
ChangeLifecycle(r, action) ==
  LET to == LifecycleTarget(action)
  IN /\ rowStatus[r] # "absent"
     /\ ~Linked(r)
     /\ rowStatus[r] = to \/ action \in LifecycleActions(rowStatus[r])
     /\ rowStatus' = [rowStatus EXCEPT ![r] = to]
     /\ SyncReviewStatus(DocumentOf[r])
     /\ UNCHANGED <<rowLink, suggestedRows, ledgerVars>>

ApplyRules(d, matched) ==
  /\ Stored(d)
  /\ ApplyRulesTo(RowsOf(d), matched, rowStatus)
  /\ UNCHANGED <<rowLink, docStatus, ledgerVars>>

-----------------------------------------------------------------------------
(* Documents                                                               *)

NoLinkedRows(d) == \A r \in RowsOf(d) : ~Linked(r)

SetRows(d, status) ==
  [r \in Row |-> IF DocumentOf[r] = d /\ rowStatus[r] # "absent"
                 THEN status ELSE rowStatus[r]]

IgnoreDocument(d) ==
  /\ Stored(d)
  /\ NoLinkedRows(d)
  /\ rowStatus' = SetRows(d, "ignored")
  /\ MoveDocument(d, "ignored")
  /\ UNCHANGED <<rowLink, suggestedRows, ledgerVars>>

\* The rows go with their document.
DeleteDocument(d) ==
  /\ Stored(d)
  /\ NoLinkedRows(d)
  /\ rowStatus' = SetRows(d, "absent")
  /\ suggestedRows' = suggestedRows \ RowsOf(d)
  /\ docStatus' = [docStatus EXCEPT ![d] = "deleted"]
  /\ UNCHANGED <<rowLink, ledgerVars>>

\* Mutant: the rows of the deleted operation are forgotten.
DeleteManualOnly(o) ==
  /\ Erase(o)
  /\ UNCHANGED reviewVars

\* ManualOperationWriter.delete: the operation's rows go back to review.
DeleteManual(o) ==
  /\ Erase(o)
  /\ UnlinkRows({r \in Row : rowLink[r] = o})

-----------------------------------------------------------------------------
ReviewCommand ==
  \E r \in Row :
    \/ \E o \in Operation, key \in Key :
         \/ \E remember \in BOOLEAN, matched \in SUBSET RowsOf(DocumentOf[r]) :
              Confirm(r, o, key, remember, matched)
         \/ \E account \in Account : PostNewTransfer(r, account, o, key)
         \/ \E m \in Row : PostMatchedTransfer(r, m, o, key)
    \/ \E o \in Operation :
         \/ LinkExistingTransfer(r, o)
         \/ LinkExistingOperation(r, o)
    \/ UndoPosting(r)
    \/ \E action \in {"mark_unique", "mark_duplicate", "ignore", "needs_review"} :
         ChangeLifecycle(r, action)

DocumentCommand ==
  \E d \in Document :
    \/ \E created, matched \in SUBSET RowsOf(d) :
         \/ ImportParsed(d, created, matched)
         \/ ImportMapped(d, created, matched)
    \/ \E matched \in SUBSET RowsOf(d) : ApplyRules(d, matched)
    \/ IgnoreDocument(d)
    \/ DeleteDocument(d)

LedgerCommand ==
  \/ ManualCommand /\ UNCHANGED reviewVars
  \/ \E o \in Operation : DeleteManual(o)

Next == ReviewCommand \/ DocumentCommand \/ LedgerCommand

Spec == Init /\ [][Next]_vars

-----------------------------------------------------------------------------
(* Properties                                                              *)

LinkedRows(o) == {r \in Row : rowLink[r] = o}
RequestRows(request) == {request.row, request.matched} \ {NoRow}
Imported(o) == Recorded(o) /\ opSource[o] = "bank_pdf"

\* A row is confirmed exactly while it is linked, and what it is linked to
\* exists.  Undo, deletion, re-mapping, ignoring and lifecycle commands each
\* change one of the two columns of many rows.
LinkedIffConfirmed ==
  \A r \in Row : /\ Linked(r) <=> rowStatus[r] = "confirmed"
                 /\ Linked(r) => Recorded(rowLink[r])

\* While an imported operation counts in the ledger, exactly the rows it was
\* posted from are linked to it, and once it is ignored no row is.  This is
\* what makes the answer to a repeated confirmation true, and what keeps money
\* with no statement row behind it out of the balances.
ImportedOperationBacked ==
  \A o \in Operation : Imported(o) =>
    LinkedRows(o) = IF opStatus[o] = "confirmed"
                    THEN RequestRows(opRequest[o]) ELSE {}

\* o counts in the ledger and stands for the statement row r.
CountsFor(o, r) ==
  /\ opStatus[o] = "confirmed"
  /\ rowLink[r] = o \/ (Imported(o) /\ r \in RequestRows(opRequest[o]))

\* DOMAIN_MODEL.md, invariant 7: no double count.  Over every history of
\* imports, re-imports, confirmations, links, transfers and undos, the
\* operations that count and stand for rows with one dedupe hash are one
\* operation.
MoneyCountedOnce ==
  \A r, s \in Row : HashOf[r] = HashOf[s] /\ HashOf[r] # NoHash =>
    \A o, p \in Operation : CountsFor(o, r) /\ CountsFor(p, s) => o = p

\* What the statement prints is what the ledger holds: the imported operation a
\* row is linked to has an entry with the row's account and amount.
StatementMoneyPosted ==
  \A r \in Row : Linked(r) /\ opSource[rowLink[r]] = "bank_pdf"
                   => HasRowsEntry(rowLink[r], r)

\* An imported document has no row left to review, and an ignored document has
\* nothing but ignored rows.  Transfers never reopen a document, undo and
\* deletion bypass the transition table, and a transfer command may touch the
\* rows of a second document it did not lock.
DocumentStatusAgrees ==
  \A d \in Document :
    /\ docStatus[d] = "imported" => AllComplete(d, rowStatus)
    /\ docStatus[d] = "ignored" =>
         \A r \in RowsOf(d) : rowStatus[r] \in {"ignored", "absent"}

\* DOMAIN_MODEL.md, import rule 4, and UNKNOWN_STATEMENT_IMPORTER.md, import:
\* a linked row is never ignored, superseded, reviewed again or deleted, and
\* its document never ignored or deleted, unless the step unlinks it.
LinkedRowsPreserved ==
  [][\A r \in Row : Linked(r) =>
       /\ rowLink'[r] \in {rowLink[r], NoOperation}
       /\ rowStatus'[r] \in {"confirmed", "suggested", "normalized"}
       /\ docStatus'[DocumentOf[r]] \notin {"ignored", "deleted", "absent"}]_vars

\* DOMAIN_MODEL.md, status and correction: an imported operation keeps its
\* entries and its origin for ever, is never deleted, and an undone one never
\* counts again.
ImportedOperationsFinal ==
  [][\A o \in Operation : Imported(o) =>
       /\ opSource'[o] = opSource[o] /\ opType'[o] = opType[o]
       /\ opEntries'[o] = opEntries[o]
       /\ opKey'[o] = opKey[o] /\ opRequest'[o] = opRequest[o]
       /\ opStatus'[o] \in {"ignored", opStatus[o]}]_vars

-----------------------------------------------------------------------------
(* The inductive invariant the proofs use.                                 *)

OneConfirmedRowPerHash ==
  \A r, s \in Row :
    /\ HashOf[r] = HashOf[s] /\ HashOf[r] # NoHash
    /\ rowStatus[r] = "confirmed" /\ rowStatus[s] = "confirmed"
    => r = s

\* Ignored operations included: they keep their entries and their request.
RequestRowsPosted ==
  \A o \in Operation : Imported(o) =>
    /\ opRequest[o] \in ImportRequests
    /\ \A r \in RequestRows(opRequest[o]) : HasRowsEntry(o, r)

RowsHaveDocuments ==
  \A r \in Row : rowStatus[r] # "absent" => Stored(DocumentOf[r])

\* The invariant behind the theorems: the safety properties above together
\* with the facts about hashes, requests and documents they rest on.
IInv ==
  /\ TypeOK
  /\ LinkedIffConfirmed
  /\ ImportedOperationBacked
  /\ OneConfirmedRowPerHash
  /\ RequestRowsPosted
  /\ RowsHaveDocuments
  /\ DocumentStatusAgrees

\* The tables agree with each other and with the ledger: what IInv says of rows,
\* documents and imported operations, entries that fit their operation's type,
\* transfers that balance, and a key that finds the one operation it created.
Consistent == IInv /\ EntriesFitType /\ OneOperationPerKey
=============================================================================
