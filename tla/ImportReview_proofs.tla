------------------------ MODULE ImportReview_proofs ------------------------
(***************************************************************************)
(* Theorems about ImportReview for every set of documents, rows, accounts, *)
(* operations and keys, and its refinement of StatementBooking.            *)
(***************************************************************************)
EXTENDS ImportBooking, TLAPS

\* A posting of a well-typed operation keeps the columns of the ledger typed.
LEMMA PostTypeOK ==
  ASSUME LedgerTypeOK,
         NEW o \in Operation, NEW source \in OperationSource,
         NEW type \in OperationType, NEW entries \in SUBSET MoneyEntry,
         NEW key \in Key \cup {NoKey}, NEW request,
         Post(o, source, type, entries, key, request)
  PROVE  LedgerTypeOK'
BY DEF LedgerTypeOK, Post, OperationStatus

\* So does every manual command.
LEMMA ManualTypeOK == LedgerTypeOK /\ ManualCommand => LedgerTypeOK'
<1> SUFFICES ASSUME LedgerTypeOK, ManualCommand PROVE LedgerTypeOK'
  OBVIOUS
<1>1. ASSUME NEW o \in Operation, NEW type \in {"income", "expense"},
             NEW account \in Account, NEW amount \in ManualAmount,
             NEW key \in Key \cup {NoKey},
             CreateIncomeExpense(o, type, account, amount, key)
      PROVE  LedgerTypeOK'
  <2>1. IncomeExpenseEntries(type, account, amount) \in SUBSET MoneyEntry
    BY ManualAmountsPositive DEF IncomeExpenseEntries, Entry, MoneyEntry
  <2>2. QED
    BY <1>1, <2>1, PostTypeOK
       DEF CreateIncomeExpense, OperationSource, OperationType
<1>2. ASSUME NEW o \in Operation, NEW type \in {"income", "expense"},
             NEW account \in Account, NEW amount \in ManualAmount,
             UpdateAsIncomeExpense(o, type, account, amount)
      PROVE  LedgerTypeOK'
  <2>1. IncomeExpenseEntries(type, account, amount) \in SUBSET MoneyEntry
    BY ManualAmountsPositive DEF IncomeExpenseEntries, Entry, MoneyEntry
  <2>2. QED
    BY <1>2, <2>1 DEF UpdateAsIncomeExpense, Replace, LedgerTypeOK, OperationType
<1>3. ASSUME NEW o \in Operation, NEW from \in Account, NEW to \in Account,
             NEW amount \in ManualAmount, NEW key \in Key \cup {NoKey},
             CreateTransfer(o, from, to, amount, key)
      PROVE  LedgerTypeOK'
  <2>1. TransferEntries(from, to, amount) \in SUBSET MoneyEntry
    BY ManualAmountsPositive DEF TransferEntries, Entry, MoneyEntry
  <2>2. QED
    BY <1>3, <2>1, PostTypeOK DEF CreateTransfer, OperationSource, OperationType
<1>4. ASSUME NEW o \in Operation, NEW from \in Account, NEW to \in Account,
             NEW amount \in ManualAmount, UpdateAsTransfer(o, from, to, amount)
      PROVE  LedgerTypeOK'
  <2>1. TransferEntries(from, to, amount) \in SUBSET MoneyEntry
    BY ManualAmountsPositive DEF TransferEntries, Entry, MoneyEntry
  <2>2. QED
    BY <1>4, <2>1 DEF UpdateAsTransfer, Replace, LedgerTypeOK, OperationType
<1>5. ASSUME NEW o \in Operation, Cancel(o) \/ Restore(o)
      PROVE  LedgerTypeOK'
  BY <1>5 DEF Cancel, Restore, LedgerTypeOK, OperationStatus
<1>6. QED
  BY <1>1, <1>2, <1>3, <1>4, <1>5 DEF ManualCommand

-----------------------------------------------------------------------------
(* Type correctness.                                                        *)

ReviewTypeOK ==
  /\ rowStatus \in [Row -> RowStatus]
  /\ rowLink \in [Row -> Operation \cup {NoOperation}]
  /\ suggestedRows \subseteq Row
  /\ docStatus \in [Document -> DocumentStatus]

RequestTypeOK == opRequest \in [Operation -> ImportRequests \cup {ManualRequest}]

\* TypeOK, by the module that writes the columns.
LEMMA TypeOKParts == TypeOK <=> LedgerTypeOK /\ RequestTypeOK /\ ReviewTypeOK
BY DEF TypeOK, RequestTypeOK, ReviewTypeOK

\* An account and an amount make a money entry.
LEMMA EntryType ==
  ASSUME NEW account \in Account, NEW amount \in Int
  PROVE  Entry(account, amount) \in MoneyEntry
BY DEF Entry, MoneyEntry

\* The constant functions of a row have values of their types.
LEMMA RowFacts ==
  ASSUME NEW r \in Row
  PROVE  /\ DocumentOf[r] \in Document
         /\ AccountOf(r) \in Account
         /\ AmountOf[r] \in Int
         /\ -AmountOf[r] \in Int
BY RowsBelongToDocuments DEF AccountOf

\* The requests the posting commands record are import requests.
LEMMA RequestTypes ==
  ASSUME NEW r \in Row
  PROVE  /\ ConfirmRequest(r) \in ImportRequests
         /\ \A a \in Account : NewTransferRequest(r, a) \in ImportRequests
         /\ \A m \in Row : MatchRequest(r, m) \in ImportRequests
BY DEF ConfirmRequest, NewTransferRequest, MatchRequest, Request, ImportRequests

\* A posting records a request of the right type.
LEMMA PostRequestType ==
  ASSUME RequestTypeOK, NEW o \in Operation, NEW source, NEW type, NEW entries,
         NEW key, NEW request \in ImportRequests \cup {ManualRequest},
         Post(o, source, type, entries, key, request)
  PROVE  RequestTypeOK'
BY DEF RequestTypeOK, Post

\* A manual command leaves import requests alone.
LEMMA ManualRequestType == RequestTypeOK /\ ManualCommand => RequestTypeOK'
BY PostRequestType
   DEF ManualCommand, CreateIncomeExpense, UpdateAsIncomeExpense, CreateTransfer,
       UpdateAsTransfer, Replace, Cancel, Restore, RequestTypeOK

\* What the building blocks of the review commands leave in their columns.
LEMMA MoveType ==
  ASSUME ReviewTypeOK, NEW d \in Document, NEW to \in DocumentStatus,
         MoveDocument(d, to)
  PROVE  docStatus' \in [Document -> DocumentStatus]
BY DEF ReviewTypeOK, MoveDocument

\* Bringing a document in line with its rows.
LEMMA SyncType ==
  ASSUME ReviewTypeOK, NEW d \in Document, SyncReviewStatus(d)
  PROVE  docStatus' \in [Document -> DocumentStatus]
BY MoveType DEF SyncReviewStatus, DocumentStatus

\* Marking complete documents imported.
LEMMA MarkType ==
  ASSUME ReviewTypeOK, NEW documents, MarkImportedIfComplete(documents)
  PROVE  docStatus' \in [Document -> DocumentStatus]
BY DEF ReviewTypeOK, MarkImportedIfComplete, DocumentStatus

\* Taking rows out of their operations.
LEMMA UnlinkType ==
  ASSUME ReviewTypeOK, NEW rows, UnlinkRows(rows)
  PROVE  ReviewTypeOK'
BY DEF ReviewTypeOK, UnlinkRows, RestoredStatus, RowStatus, DocumentStatus

\* Linking rows to an operation.
LEMMA LinkType ==
  ASSUME ReviewTypeOK, NEW rows, NEW o \in Operation, LinkRows(rows, o)
  PROVE  /\ rowStatus' \in [Row -> RowStatus]
         /\ rowLink' \in [Row -> Operation \cup {NoOperation}]
BY DEF ReviewTypeOK, LinkRows, RowStatus

\* Applying the rules that match.
LEMMA RulesType ==
  ASSUME ReviewTypeOK, NEW rows \in SUBSET Row, NEW matched,
         NEW status \in [Row -> RowStatus],
         ApplyRulesTo(rows, matched, status)
  PROVE  /\ rowStatus' \in [Row -> RowStatus]
         /\ suggestedRows' \subseteq Row
<1>1. \A r \in Row : RuledStatus(status[r], r \in matched) \in RowStatus
  BY DEF RuledStatus, RowStatus
<1>2. rowStatus' \in [Row -> RowStatus]
  BY <1>1 DEF ReviewTypeOK, ApplyRulesTo
<1>3. suggestedRows' \subseteq Row
  BY DEF ReviewTypeOK, ApplyRulesTo, RuleRows
<1>4. QED
  BY <1>2, <1>3

\* Storing the rows of an import.
LEMMA CreateType ==
  ASSUME ReviewTypeOK, NEW created \in SUBSET Row, NEW matched,
         NEW status \in [Row -> RowStatus],
         CreateRows(created, matched, status)
  PROVE  /\ rowStatus' \in [Row -> RowStatus]
         /\ suggestedRows' \subseteq Row
<1>1. \A r \in Row : ImportedStatus(r) \in RowStatus
  BY DEF ImportedStatus, RowStatus
<1>2. [r \in Row |-> IF r \in created THEN ImportedStatus(r) ELSE status[r]]
        \in [Row -> RowStatus]
  BY <1>1
<1>3. QED
  BY <1>2, RulesType DEF CreateRows

\* One lemma per command.
LEMMA ConfirmTypeOK ==
  ASSUME TypeOK, NEW r \in Row, NEW o \in Operation, NEW key \in Key,
         NEW remember \in BOOLEAN, NEW matched \in SUBSET RowsOf(DocumentOf[r]),
         Confirm(r, o, key, remember, matched)
  PROVE  TypeOK'
<1> DEFINE type == IF AmountOf[r] > 0 THEN "income" ELSE "expense"
           linked == [rowStatus EXCEPT ![r] = "confirmed"]
           entries == {Entry(AccountOf(r), AmountOf[r])}
<1>1. ReviewTypeOK /\ RequestTypeOK /\ LedgerTypeOK
  BY TypeOKParts
<1>2. Post(o, "bank_pdf", type, entries, key, ConfirmRequest(r))
  BY DEF Confirm
<1>3. entries \in SUBSET MoneyEntry /\ type \in OperationType
  BY RowFacts, EntryType DEF OperationType
<1>4. LedgerTypeOK'
  BY <1>1, <1>2, <1>3, PostTypeOK DEF OperationSource
<1>5. RequestTypeOK'
  BY <1>1, <1>2, RequestTypes, PostRequestType
<1>6. linked \in [Row -> RowStatus]
  BY <1>1 DEF ReviewTypeOK, RowStatus
<1>7. rowStatus' \in [Row -> RowStatus] /\ suggestedRows' \subseteq Row
  <2>1. CASE remember
    <3>1. ApplyRulesTo(RowsOf(DocumentOf[r]), matched, linked)
      BY <2>1 DEF Confirm
    <3>2. QED
      BY <1>1, <1>6, <3>1, RulesType DEF RowsOf
  <2>2. CASE ~remember
    BY <1>1, <1>6, <2>2 DEF Confirm, ReviewTypeOK
  <2>3. QED
    BY <2>1, <2>2
<1>8. rowLink' \in [Row -> Operation \cup {NoOperation}]
  BY <1>1 DEF Confirm, ReviewTypeOK
<1>9. docStatus' \in [Document -> DocumentStatus]
  BY <1>1, RowFacts, SyncType DEF Confirm
<1>10. QED
  BY <1>4, <1>5, <1>7, <1>8, <1>9 DEF TypeOK, ReviewTypeOK, RequestTypeOK

\* Posting a row as one side of a new transfer.
LEMMA NewTransferTypeOK ==
  ASSUME TypeOK, NEW r \in Row, NEW account \in Account, NEW o \in Operation,
         NEW key \in Key, PostNewTransfer(r, account, o, key)
  PROVE  TypeOK'
<1> DEFINE entries == NewTransferEntries(r, account)
<1>1. ReviewTypeOK /\ RequestTypeOK /\ LedgerTypeOK
  BY TypeOKParts
<1>2. entries \in SUBSET MoneyEntry
  BY RowFacts, EntryType DEF NewTransferEntries
<1>3. Post(o, "bank_pdf", "transfer", entries, key, NewTransferRequest(r, account))
  BY DEF PostNewTransfer
<1>4. LedgerTypeOK'
  BY <1>1, <1>2, <1>3, PostTypeOK DEF OperationSource, OperationType
<1>5. RequestTypeOK'
  BY <1>1, <1>3, RequestTypes, PostRequestType
<1>6. ReviewTypeOK'
  BY <1>1, LinkType, MarkType DEF PostNewTransfer, ReviewTypeOK
<1>7. QED
  BY <1>4, <1>5, <1>6, TypeOKParts DEF TypeOK, ReviewTypeOK, RequestTypeOK

\* Posting two rows as the sides of one transfer.
LEMMA MatchedTransferTypeOK ==
  ASSUME TypeOK, NEW r \in Row, NEW m \in Row, NEW o \in Operation,
         NEW key \in Key, PostMatchedTransfer(r, m, o, key)
  PROVE  TypeOK'
<1> DEFINE entries == {Entry(AccountOf(r), AmountOf[r]), Entry(AccountOf(m), AmountOf[m])}
<1>1. ReviewTypeOK /\ RequestTypeOK /\ LedgerTypeOK
  BY TypeOKParts
<1>2. entries \in SUBSET MoneyEntry
  BY RowFacts, EntryType
<1>3. Post(o, "bank_pdf", "transfer", entries, key, MatchRequest(r, m))
  BY DEF PostMatchedTransfer
<1>4. LedgerTypeOK'
  BY <1>1, <1>2, <1>3, PostTypeOK DEF OperationSource, OperationType
<1>5. RequestTypeOK'
  BY <1>1, <1>3, RequestTypes, PostRequestType
<1>6. ReviewTypeOK'
  BY <1>1, LinkType, MarkType DEF PostMatchedTransfer, ReviewTypeOK
<1>7. QED
  BY <1>4, <1>5, <1>6 DEF TypeOK, ReviewTypeOK, RequestTypeOK

\* Linking a row to an operation the user made.
LEMMA LinkExistingTypeOK ==
  ASSUME TypeOK, NEW r \in Row, NEW o \in Operation,
         LinkExistingTransfer(r, o) \/ LinkExistingOperation(r, o)
  PROVE  TypeOK'
<1>1. ReviewTypeOK
  BY TypeOKParts
<1>2. CASE LinkExistingTransfer(r, o)
  BY <1>1, <1>2, LinkType, MarkType
     DEF LinkExistingTransfer, ReviewTypeOK, TypeOK, LedgerTypeOK, ledgerVars
<1>3. CASE LinkExistingOperation(r, o)
  BY <1>1, <1>3, LinkType, SyncType, RowFacts
     DEF LinkExistingOperation, ReviewTypeOK, TypeOK, LedgerTypeOK, ledgerVars
<1>4. QED
  BY <1>2, <1>3

\* Undoing what a row was posted as or linked to.
LEMMA UndoTypeOK ==
  ASSUME TypeOK, NEW r \in Row, UndoPosting(r)
  PROVE  TypeOK'
<1>1. ReviewTypeOK /\ LedgerTypeOK
  BY TypeOKParts
<1>2. ReviewTypeOK'
  BY <1>1, UnlinkType DEF UndoPosting
<1>3. LedgerTypeOK'
  BY <1>1 DEF UndoPosting, LedgerTypeOK, OperationStatus
<1>4. QED
  BY <1>2, <1>3 DEF TypeOK, ReviewTypeOK, UndoPosting

\* The lifecycle actions of a row.
LEMMA LifecycleTypeOK ==
  ASSUME TypeOK, NEW r \in Row,
         NEW action \in {"mark_unique", "mark_duplicate", "ignore", "needs_review"},
         ChangeLifecycle(r, action)
  PROVE  TypeOK'
<1>1. ReviewTypeOK
  BY TypeOKParts
<1>2. LifecycleTarget(action) \in RowStatus
  BY DEF LifecycleTarget, RowStatus
<1>3. rowStatus' \in [Row -> RowStatus]
  BY <1>1, <1>2 DEF ChangeLifecycle, ReviewTypeOK
<1>4. docStatus' \in [Document -> DocumentStatus]
  BY <1>1, RowFacts, SyncType DEF ChangeLifecycle
<1>5. QED
  BY <1>3, <1>4 DEF TypeOK, LedgerTypeOK, ChangeLifecycle, ledgerVars

\* Importing the rows of a parse or of a mapping.
LEMMA ImportTypeOK ==
  ASSUME TypeOK, NEW d \in Document, NEW created \in SUBSET RowsOf(d),
         NEW matched \in SUBSET RowsOf(d),
         ImportParsed(d, created, matched) \/ ImportMapped(d, created, matched)
  PROVE  TypeOK'
<1>1. ReviewTypeOK /\ created \in SUBSET Row
  BY TypeOKParts DEF RowsOf
<1>2. CASE ImportParsed(d, created, matched)
  <2>1. rowStatus' \in [Row -> RowStatus] /\ suggestedRows' \subseteq Row
    BY <1>1, <1>2, CreateType DEF ImportParsed, ReviewTypeOK
  <2>2. docStatus' \in [Document -> DocumentStatus]
    BY <1>1, <1>2 DEF ImportParsed, ReviewTypeOK, DocumentStatus
  <2>3. QED
    BY <1>2, <2>1, <2>2
       DEF TypeOK, LedgerTypeOK, ImportParsed, CreateRows, ledgerVars
<1>3. CASE ImportMapped(d, created, matched)
  <2> DEFINE status == [r \in Row |->
               IF DocumentOf[r] = d /\ rowStatus[r] \notin Complete \cup {"absent"}
               THEN "duplicate" ELSE rowStatus[r]]
  <2>1. status \in [Row -> RowStatus]
    BY <1>1 DEF ReviewTypeOK, RowStatus
  <2>2. CreateRows(created, matched, status)
    BY <1>3 DEF ImportMapped
  <2>3. rowStatus' \in [Row -> RowStatus] /\ suggestedRows' \subseteq Row
    BY <1>1, <2>1, <2>2, CreateType
  <2>4. docStatus' \in [Document -> DocumentStatus]
    BY <1>1, <1>3, MoveType DEF ImportMapped, DocumentStatus
  <2>5. QED
    BY <1>3, <2>3, <2>4
       DEF TypeOK, LedgerTypeOK, ImportMapped, CreateRows, ledgerVars
<1>4. QED
  BY <1>2, <1>3

\* Applying the rules to a document.
LEMMA ApplyRulesTypeOK ==
  ASSUME TypeOK, NEW d \in Document, NEW matched \in SUBSET RowsOf(d),
         ApplyRules(d, matched)
  PROVE  TypeOK'
<1>1. ReviewTypeOK /\ rowStatus \in [Row -> RowStatus] /\ RowsOf(d) \in SUBSET Row
  BY TypeOKParts DEF ReviewTypeOK, RowsOf
<1>2. rowStatus' \in [Row -> RowStatus] /\ suggestedRows' \subseteq Row
  BY <1>1, RulesType DEF ApplyRules
<1>3. QED
  BY <1>2 DEF TypeOK, LedgerTypeOK, ApplyRules, ledgerVars

\* Ignoring or deleting a document.
LEMMA RemoveDocumentTypeOK ==
  ASSUME TypeOK, NEW d \in Document, IgnoreDocument(d) \/ DeleteDocument(d)
  PROVE  TypeOK'
<1>1. ReviewTypeOK
  BY TypeOKParts
<1>2. \A status \in RowStatus : SetRows(d, status) \in [Row -> RowStatus]
  BY <1>1 DEF ReviewTypeOK, SetRows
<1>3. CASE IgnoreDocument(d)
  <2>1. docStatus' \in [Document -> DocumentStatus]
    BY <1>1, <1>3, MoveType DEF IgnoreDocument, DocumentStatus
  <2>2. QED
    BY <1>2, <1>3, <2>1
       DEF IgnoreDocument, TypeOK, LedgerTypeOK, RowStatus, ledgerVars
<1>4. CASE DeleteDocument(d)
  BY <1>2, <1>4
     DEF DeleteDocument, TypeOK, LedgerTypeOK, RowStatus, DocumentStatus, ledgerVars
<1>5. QED
  BY <1>3, <1>4

\* The manual commands, deletion included.
LEMMA LedgerCommandTypeOK == TypeOK /\ LedgerCommand => TypeOK'
<1>1. ASSUME TypeOK, ManualCommand, UNCHANGED reviewVars
      PROVE  TypeOK'
  BY <1>1, ManualTypeOK, ManualRequestType, TypeOKParts
     DEF TypeOK, RequestTypeOK, reviewVars
<1>2. ASSUME TypeOK, NEW o \in Operation, DeleteManual(o)
      PROVE  TypeOK'
  <2>1. ReviewTypeOK /\ LedgerTypeOK
    BY <1>2, TypeOKParts
  <2>2. ReviewTypeOK'
    BY <1>2, <2>1, UnlinkType DEF DeleteManual
  <2>3. LedgerTypeOK'
    BY <1>2, <2>1 DEF DeleteManual, Erase, LedgerTypeOK, OperationStatus
  <2>4. QED
    BY <1>2, <2>2, <2>3 DEF TypeOK, ReviewTypeOK, DeleteManual, Erase
<1>3. QED
  BY <1>1, <1>2 DEF LedgerCommand

\* All commands on one row.
LEMMA ReviewCommandTypeOK == TypeOK /\ ReviewCommand => TypeOK'
BY ConfirmTypeOK, NewTransferTypeOK, MatchedTransferTypeOK, LinkExistingTypeOK,
   UndoTypeOK, LifecycleTypeOK
   DEF ReviewCommand

\* All commands on one document.
LEMMA DocumentCommandTypeOK == TypeOK /\ DocumentCommand => TypeOK'
BY ImportTypeOK, ApplyRulesTypeOK, RemoveDocumentTypeOK DEF DocumentCommand

\* Every history of commands keeps every column in the range its enumeration
\* and foreign keys give it, whatever the workspace holds.
THEOREM TypeCorrect == Spec => []TypeOK
<1>1. Init => TypeOK
  BY DEF Init, LedgerInit, TypeOK, LedgerTypeOK, OperationStatus,
         OperationSource, OperationType, RowStatus, DocumentStatus
<1>2. TypeOK /\ [Next]_vars => TypeOK'
  <2>1. TypeOK /\ UNCHANGED vars => TypeOK'
    BY DEF TypeOK, LedgerTypeOK, vars, ledgerVars, reviewVars
  <2>2. QED
    BY <2>1, ReviewCommandTypeOK, DocumentCommandTypeOK, LedgerCommandTypeOK
       DEF Next
<1>3. QED
  BY <1>1, <1>2, PTL DEF Spec

-----------------------------------------------------------------------------
(* The inductive invariant.  LinksOK is its part about rows and operations, *)
(* DocumentsOK its part about rows and documents.                           *)

LinksOK ==
  /\ LinkedIffConfirmed
  /\ ImportedOperationBacked
  /\ OneConfirmedRowPerHash
  /\ RequestRowsPosted

DocumentsOK == RowsHaveDocuments /\ DocumentStatusAgrees

\* IInv, by what its conjuncts speak about.
LEMMA IInvParts == IInv <=> TypeOK /\ LinksOK /\ DocumentsOK
BY DEF IInv, LinksOK, DocumentsOK

\* The row columns of TypeOK, in the form the steps below need.
LEMMA Columns ==
  ASSUME TypeOK
  PROVE  /\ rowStatus \in [Row -> RowStatus]
         /\ rowLink \in [Row -> Operation \cup {NoOperation}]
         /\ suggestedRows \subseteq Row
         /\ docStatus \in [Document -> DocumentStatus]
         /\ opStatus \in [Operation -> OperationStatus]
         /\ opSource \in [Operation -> OperationSource]
         /\ opEntries \in [Operation -> SUBSET MoneyEntry]
         /\ opRequest \in [Operation -> ImportRequests \cup {ManualRequest}]
BY DEF TypeOK, LedgerTypeOK

\* The rows a command posts from, as its request records them.
LEMMA RowsOfRequests ==
  ASSUME NEW r \in Row, NEW m \in Row, NEW account
  PROVE  /\ RequestRows(ConfirmRequest(r)) = {r}
         /\ RequestRows(NewTransferRequest(r, account)) = {r}
         /\ RequestRows(MatchRequest(r, m)) = {r, m}
BY NullsAreNotValues
   DEF RequestRows, ConfirmRequest, NewTransferRequest, MatchRequest, Request

\* A command that posts an imported operation from rows in review and links
\* them to it, whatever it does to the status of other unlinked rows.
LEMMA PostingKeepsLinks ==
  ASSUME TypeOK, TypeOK', LinksOK,
         NEW o \in Operation, NEW rows \in SUBSET Row, NEW type, NEW entries,
         NEW key, NEW request \in ImportRequests,
         RequestRows(request) = rows,
         Post(o, "bank_pdf", type, entries, key, request),
         \A r \in rows : /\ HashFree(r) /\ ~Linked(r)
                         /\ Entry(AccountOf(r), AmountOf[r]) \in entries,
         \A r, s \in rows : HashOf[r] = HashOf[s] /\ HashOf[r] # NoHash => r = s,
         rowLink' = [r \in Row |-> IF r \in rows THEN o ELSE rowLink[r]],
         \A r \in rows : rowStatus'[r] = "confirmed",
         \A r \in Row \ rows :
           rowStatus'[r] = "confirmed" <=> rowStatus[r] = "confirmed"
  PROVE  LinksOK'
<1>1. o # NoOperation /\ opStatus[o] = "unused"
  BY NullsAreNotValues DEF Post
<1>2. \A r \in Row : rowLink[r] # o
  BY <1>1 DEF LinksOK, LinkedIffConfirmed, Linked, Recorded
<1>3. \A p \in Operation \ {o} :
        /\ opStatus'[p] = opStatus[p] /\ opSource'[p] = opSource[p]
        /\ opRequest'[p] = opRequest[p] /\ opEntries'[p] = opEntries[p]
  BY Columns DEF Post
<1>4. /\ opStatus'[o] = "confirmed" /\ opSource'[o] = "bank_pdf"
      /\ opRequest'[o] = request /\ opEntries'[o] = entries
  BY Columns DEF Post
<1>5. LinkedIffConfirmed'
  BY <1>1, <1>3, <1>4, Columns DEF LinksOK, LinkedIffConfirmed, Linked, Recorded
<1>6. ImportedOperationBacked'
  <2> SUFFICES ASSUME NEW p \in Operation, Imported(p)'
               PROVE  LinkedRows(p)' = IF opStatus'[p] = "confirmed"
                                       THEN RequestRows(opRequest'[p]) ELSE {}
    BY DEF ImportedOperationBacked, RequestRows
  <2>1. CASE p = o
    BY <1>2, <1>4, <2>1 DEF LinkedRows
  <2>2. CASE p # o
    <3>1. LinkedRows(p)' = LinkedRows(p)
      BY <2>2, NullsAreNotValues DEF LinkedRows, Linked
    <3>2. QED
      BY <1>3, <2>2, <3>1 DEF LinksOK, ImportedOperationBacked, Imported, Recorded
  <2>3. QED
    BY <2>1, <2>2
<1>7. OneConfirmedRowPerHash'
  BY DEF LinksOK, OneConfirmedRowPerHash, HashFree
<1>8. RequestRowsPosted'
  BY <1>3, <1>4
     DEF LinksOK, RequestRowsPosted, Imported, Recorded, HasRowsEntry
<1>9. QED
  BY <1>5, <1>6, <1>7, <1>8 DEF LinksOK

\* A command that links one row in review to a manual operation.
LEMMA LinkingKeepsLinks ==
  ASSUME TypeOK, LinksOK, NEW r \in Row, NEW o \in Operation,
         opSource[o] = "manual", opStatus[o] = "confirmed",
         HashFree(r), ~Linked(r), LinkRows({r}, o), UNCHANGED ledgerVars
  PROVE  LinksOK'
<1>1. o # NoOperation
  BY NullsAreNotValues
<1>2. LinkedIffConfirmed'
  BY <1>1, Columns
     DEF LinksOK, LinkedIffConfirmed, Linked, Recorded, LinkRows, ledgerVars
<1>3. ImportedOperationBacked'
  <2> SUFFICES ASSUME NEW p \in Operation, Imported(p)'
               PROVE  LinkedRows(p)' = IF opStatus'[p] = "confirmed"
                                       THEN RequestRows(opRequest'[p]) ELSE {}
    BY DEF ImportedOperationBacked, RequestRows
  <2>1. Imported(p) /\ p # o
    BY DEF Imported, Recorded, ledgerVars
  <2>2. LinkedRows(p)' = LinkedRows(p)
    BY <2>1, NullsAreNotValues DEF LinkedRows, Linked, LinkRows
  <2>3. QED
    BY <2>1, <2>2 DEF LinksOK, ImportedOperationBacked, ledgerVars
<1>4. OneConfirmedRowPerHash'
  BY Columns DEF LinksOK, OneConfirmedRowPerHash, HashFree, LinkRows
<1>5. RequestRowsPosted'
  BY DEF LinksOK, RequestRowsPosted, Imported, Recorded, HasRowsEntry, ledgerVars
<1>6. QED
  BY <1>2, <1>3, <1>4, <1>5 DEF LinksOK

\* A command that changes the status of rows in review only.
LEMMA ReviewingKeepsLinks ==
  ASSUME LinksOK, UNCHANGED <<ledgerVars, rowLink>>,
         \A r \in Row : rowStatus'[r] = "confirmed" <=> rowStatus[r] = "confirmed"
  PROVE  LinksOK'
<1>1. LinkedIffConfirmed'
  BY DEF LinksOK, LinkedIffConfirmed, Linked, Recorded, ledgerVars
<1>2. ImportedOperationBacked'
  BY DEF LinksOK, ImportedOperationBacked, Imported, Recorded, LinkedRows,
         RequestRows, ledgerVars
<1>3. OneConfirmedRowPerHash'
  BY DEF LinksOK, OneConfirmedRowPerHash
<1>4. RequestRowsPosted'
  BY DEF LinksOK, RequestRowsPosted, Imported, Recorded, HasRowsEntry, ledgerVars
<1>5. QED
  BY <1>1, <1>2, <1>3, <1>4 DEF LinksOK

\* A command that takes rows away from the operation o they are linked to:
\* some of a manual operation that stays, all of one that stops counting.
LEMMA UnlinkingKeepsLinks ==
  ASSUME TypeOK, LinksOK, NEW o \in Operation, NEW rows \in SUBSET LinkedRows(o),
         UnlinkRows(rows),
         UNCHANGED <<opSource, opRequest>>,
         \A p \in Operation \ {o} : /\ opStatus'[p] = opStatus[p]
                                    /\ opEntries'[p] = opEntries[p],
         \/ /\ rows = LinkedRows(o)
            /\ opSource[o] = "bank_pdf"
            /\ opStatus[o] = "confirmed" /\ opStatus'[o] = "ignored"
            /\ opEntries'[o] = opEntries[o]
         \/ opSource[o] = "manual" /\ rows = LinkedRows(o)
         \/ opSource[o] = "manual" /\ opStatus'[o] = opStatus[o]
  PROVE  LinksOK'
<1>1. LinkedIffConfirmed'
  BY Columns
     DEF LinksOK, LinkedIffConfirmed, Linked, Recorded, LinkedRows, UnlinkRows,
         RestoredStatus
<1>2. ImportedOperationBacked'
  <2> SUFFICES ASSUME NEW p \in Operation, Imported(p)'
               PROVE  LinkedRows(p)' = IF opStatus'[p] = "confirmed"
                                       THEN RequestRows(opRequest'[p]) ELSE {}
    BY DEF ImportedOperationBacked, RequestRows
  <2>1. CASE p = o
    BY <2>1, NullsAreNotValues DEF Imported, LinkedRows, UnlinkRows
  <2>2. CASE p # o
    <3>1. LinkedRows(p)' = LinkedRows(p)
      BY <2>2, NullsAreNotValues DEF LinkedRows, UnlinkRows
    <3>2. QED
      BY <2>2, <3>1 DEF LinksOK, ImportedOperationBacked, Imported, Recorded
  <2>3. QED
    BY <2>1, <2>2
<1>3. OneConfirmedRowPerHash'
  BY Columns DEF LinksOK, OneConfirmedRowPerHash, UnlinkRows, RestoredStatus
<1>4. RequestRowsPosted'
  BY DEF LinksOK, RequestRowsPosted, Imported, Recorded, HasRowsEntry
<1>5. QED
  BY <1>1, <1>2, <1>3, <1>4 DEF LinksOK

\* Unlinked rows lie in documents that are open for review again.
LEMMA UnlinkingKeepsDocuments ==
  ASSUME TypeOK, LinksOK, DocumentsOK,
         NEW o \in Operation, NEW rows \in SUBSET LinkedRows(o), UnlinkRows(rows)
  PROVE  DocumentsOK'
<1>1. \A r \in rows : r \in Row /\ rowStatus[r] = "confirmed"
  BY NullsAreNotValues DEF LinksOK, LinkedIffConfirmed, Linked, LinkedRows
<1>2. RowsHaveDocuments'
  BY <1>1, Columns, RowFacts
     DEF DocumentsOK, RowsHaveDocuments, Stored, UnlinkRows, RestoredStatus
<1>3. DocumentStatusAgrees'
  <2> SUFFICES ASSUME NEW d \in Document
               PROVE  /\ docStatus'[d] = "imported" => AllComplete(d, rowStatus')
                      /\ docStatus'[d] = "ignored" =>
                           \A r \in RowsOf(d) : rowStatus'[r] \in {"ignored", "absent"}
    BY DEF DocumentStatusAgrees, AllComplete, RowsOf
  <2>1. CASE \E r \in rows : DocumentOf[r] = d
    BY <2>1 DEF UnlinkRows
  <2>2. CASE ~\E r \in rows : DocumentOf[r] = d
    BY <2>2, Columns
       DEF UnlinkRows, DocumentsOK, DocumentStatusAgrees, AllComplete, RowsOf
  <2>3. QED
    BY <2>1, <2>2
<1>4. QED
  BY <1>2, <1>3 DEF DocumentsOK

\* A command that changes rows of d only, to statuses a stored row can have,
\* and then brings d in line.
LEMMA SyncKeepsDocuments ==
  ASSUME TypeOK, TypeOK', DocumentsOK, NEW d \in Document, Stored(d),
         SyncReviewStatus(d),
         \A r \in Row \ RowsOf(d) : rowStatus'[r] = rowStatus[r]
  PROVE  DocumentsOK'
<1> DEFINE to == IF AllComplete(d, rowStatus') THEN "imported" ELSE "requires_review"
<1>1. docStatus' = [docStatus EXCEPT ![d] = to]
  BY DEF SyncReviewStatus, MoveDocument
<1>2. RowsHaveDocuments'
  BY <1>1, Columns, RowFacts DEF DocumentsOK, RowsHaveDocuments, Stored, RowsOf
<1>3. DocumentStatusAgrees'
  BY <1>1, Columns
     DEF DocumentsOK, DocumentStatusAgrees, AllComplete, RowsOf
<1>4. QED
  BY <1>2, <1>3 DEF DocumentsOK

\* A transfer command confirms unconfirmed rows of the given documents, of
\* which only the command's own row may have been ignored.
LEMMA MarkingKeepsDocuments ==
  ASSUME TypeOK, TypeOK', DocumentsOK, NEW rows \in SUBSET Row, NEW documents,
         \A d \in Document : d \in documents <=> \E r \in rows : DocumentOf[r] = d,
         MarkImportedIfComplete(documents),
         \A r \in rows : rowStatus[r] # "absent" /\ rowStatus'[r] = "confirmed",
         \A r \in Row \ rows : rowStatus'[r] = rowStatus[r]
  PROVE  DocumentsOK'
<1> DEFINE done == {d \in documents : AllComplete(d, rowStatus')}
<1>1. docStatus' = [d \in Document |->
                      IF d \in done THEN "imported" ELSE docStatus[d]]
  BY DEF MarkImportedIfComplete
<1>2. \A d \in done : docStatus[d] # "ignored"
  BY DEF MarkImportedIfComplete, MayMove, AllowedTransitions
<1>3. RowsHaveDocuments'
  BY <1>1, Columns, RowFacts DEF DocumentsOK, RowsHaveDocuments, Stored
<1>4. DocumentStatusAgrees'
  <2> SUFFICES ASSUME NEW d \in Document
               PROVE  /\ docStatus'[d] = "imported" => AllComplete(d, rowStatus')
                      /\ docStatus'[d] = "ignored" =>
                           \A r \in RowsOf(d) : rowStatus'[r] \in {"ignored", "absent"}
    BY DEF DocumentStatusAgrees, AllComplete, RowsOf
  <2>1. CASE d \in done
    BY <1>1, <2>1
  <2>2. CASE d \notin done /\ \E r \in rows : DocumentOf[r] = d
    <3>1. ~AllComplete(d, rowStatus')
      BY <2>2
    <3>2. PICK r \in RowsOf(d) : rowStatus'[r] \notin Complete \cup {"absent"}
      BY <3>1 DEF AllComplete
    <3>3. r \in Row /\ rowStatus[r] \notin Complete \cup {"absent"}
      BY <3>2 DEF RowsOf, Complete
    <3>4. docStatus[d] \notin {"imported", "ignored"}
      BY <3>2, <3>3
         DEF DocumentsOK, DocumentStatusAgrees, AllComplete, Complete
    <3>5. QED
      BY <1>1, <2>2, <3>4
  <2>3. CASE d \notin done /\ ~\E r \in rows : DocumentOf[r] = d
    BY <1>1, <2>3
       DEF DocumentsOK, DocumentStatusAgrees, AllComplete, RowsOf
  <2>4. QED
    BY <2>1, <2>2, <2>3
<1>5. QED
  BY <1>3, <1>4 DEF DocumentsOK

\* The rules only touch rows in review, and leave them in review.
LEMMA RulesKeepReview ==
  ASSUME NEW rows \in SUBSET Row, NEW matched,
         NEW status \in [Row -> RowStatus],
         ApplyRulesTo(rows, matched, status)
  PROVE  /\ \A r \in Row : status[r] \notin RuleSuggestable =>
                            rowStatus'[r] = status[r]
         /\ \A r \in Row : status[r] \in RuleSuggestable =>
                            rowStatus'[r] \in RuleSuggestable
         /\ \A r \in Row \ rows : rowStatus'[r] = status[r]
BY DEF ApplyRulesTo, RuleRows, RuledStatus, RuleSuggestable

-----------------------------------------------------------------------------
(* One lemma per command.                                                   *)

\* The invariant and the confirmation of a row.
LEMMA ConfirmKeepsIInv ==
  ASSUME IInv, NEW r \in Row, NEW o \in Operation, NEW key \in Key,
         NEW remember \in BOOLEAN, NEW matched \in SUBSET RowsOf(DocumentOf[r]),
         Confirm(r, o, key, remember, matched)
  PROVE  IInv'
<1> DEFINE d == DocumentOf[r]
           linked == [rowStatus EXCEPT ![r] = "confirmed"]
<1>1. TypeOK /\ LinksOK /\ DocumentsOK
  BY IInvParts
<1>2. TypeOK'
  BY <1>1, ConfirmTypeOK
<1>3. linked \in [Row -> RowStatus]
  BY <1>1, Columns DEF RowStatus
<1>4. /\ rowStatus'[r] = "confirmed"
      /\ \A s \in Row \ {r} : rowStatus'[s] = "confirmed" <=> rowStatus[s] = "confirmed"
      /\ \A s \in Row \ RowsOf(d) : rowStatus'[s] = rowStatus[s]
  <2>1. CASE remember
    <3>1. ApplyRulesTo(RowsOf(d), matched, linked)
      BY <2>1 DEF Confirm
    <3>2. linked[r] = "confirmed" /\ \A s \in Row \ {r} : linked[s] = rowStatus[s]
      BY <1>1, Columns
    <3>3. r \in RowsOf(d) /\ RowsOf(d) \in SUBSET Row
      BY DEF RowsOf
    <3> HIDE DEF linked, d
    <3>4. QED
      BY <1>3, <3>1, <3>2, <3>3, RulesKeepReview DEF RuleSuggestable
  <2>2. CASE ~remember
    BY <1>1, <2>2, Columns DEF Confirm, RowsOf
  <2>3. QED
    BY <2>1, <2>2
<1>5. LinksOK'
  <2> DEFINE type == IF AmountOf[r] > 0 THEN "income" ELSE "expense"
             entries == {Entry(AccountOf(r), AmountOf[r])}
  <2>1. Post(o, "bank_pdf", type, entries, key, ConfirmRequest(r))
    BY DEF Confirm
  <2>2. /\ ConfirmRequest(r) \in ImportRequests
        /\ RequestRows(ConfirmRequest(r)) = {r}
    BY RequestTypes, RowsOfRequests
  <2>3. rowLink' = [s \in Row |-> IF s \in {r} THEN o ELSE rowLink[s]]
    BY <1>1, Columns DEF Confirm
  <2>4. HashFree(r) /\ ~Linked(r)
    BY DEF Confirm
  <2> HIDE DEF type, entries
  <2>5. Entry(AccountOf(r), AmountOf[r]) \in entries
    BY DEF entries
  <2>6. QED
    BY <1>1, <1>2, <1>4, <2>1, <2>2, <2>3, <2>4, <2>5, PostingKeepsLinks
<1>6. DocumentsOK'
  <2>1. Stored(d) /\ d \in Document
    BY <1>1, RowFacts
       DEF Confirm, Confirmable, DocumentsOK, RowsHaveDocuments
  <2>2. SyncReviewStatus(d)
    BY DEF Confirm
  <2>3. QED
    BY <1>1, <1>2, <1>4, <2>1, <2>2, SyncKeepsDocuments
<1>7. QED
  BY <1>2, <1>5, <1>6 DEF IInv, LinksOK, DocumentsOK

\* The invariant and a transfer posted from one row.
LEMMA NewTransferKeepsIInv ==
  ASSUME IInv, NEW r \in Row, NEW account \in Account, NEW o \in Operation,
         NEW key \in Key, PostNewTransfer(r, account, o, key)
  PROVE  IInv'
<1> DEFINE entries == NewTransferEntries(r, account)
           request == NewTransferRequest(r, account)
<1>1. TypeOK /\ LinksOK /\ DocumentsOK
  BY IInvParts
<1>2. TypeOK'
  BY <1>1, NewTransferTypeOK
<1>3. /\ rowStatus'[r] = "confirmed" /\ rowStatus[r] # "absent"
      /\ \A s \in Row \ {r} : rowStatus'[s] = rowStatus[s]
      /\ rowLink' = [s \in Row |-> IF s \in {r} THEN o ELSE rowLink[s]]
      /\ ~Linked(r) /\ HashFree(r)
  BY DEF PostNewTransfer, LinkRows, CanPostAsTransfer, TransferPostable, Confirmable
<1>4. LinksOK'
  <2>1. Post(o, "bank_pdf", "transfer", entries, key, request)
    BY DEF PostNewTransfer
  <2>2. request \in ImportRequests /\ RequestRows(request) = {r}
    BY RequestTypes, RowsOfRequests
  <2> HIDE DEF entries, request
  <2>3. Entry(AccountOf(r), AmountOf[r]) \in entries
    BY DEF entries, NewTransferEntries
  <2>4. QED
    BY <1>1, <1>2, <1>3, <2>1, <2>2, <2>3, PostingKeepsLinks
<1>5. DocumentsOK'
  <2> DEFINE rows == {r}
             documents == {DocumentOf[r]}
  <2>1. MarkImportedIfComplete(documents)
    BY DEF PostNewTransfer
  <2>2. /\ rows \in SUBSET Row
        /\ \A d \in Document : d \in documents <=> \E s \in rows : DocumentOf[s] = d
    OBVIOUS
  <2>3. /\ \A s \in rows : rowStatus[s] # "absent" /\ rowStatus'[s] = "confirmed"
        /\ \A s \in Row \ rows : rowStatus'[s] = rowStatus[s]
    BY <1>3
  <2> HIDE DEF rows, documents
  <2>4. QED
    BY <1>1, <1>2, <2>1, <2>2, <2>3, MarkingKeepsDocuments
<1>6. QED
  BY <1>2, <1>4, <1>5 DEF IInv, LinksOK, DocumentsOK

\* The invariant and a transfer posted from two rows.
LEMMA MatchedTransferKeepsIInv ==
  ASSUME IInv, NEW r \in Row, NEW m \in Row, NEW o \in Operation,
         NEW key \in Key, PostMatchedTransfer(r, m, o, key)
  PROVE  IInv'
<1> DEFINE entries == {Entry(AccountOf(r), AmountOf[r]), Entry(AccountOf(m), AmountOf[m])}
           request == MatchRequest(r, m)
<1>1. TypeOK /\ LinksOK /\ DocumentsOK
  BY IInvParts
<1>2. TypeOK'
  BY <1>1, MatchedTransferTypeOK
<1>3. /\ \A s \in {r, m} : /\ rowStatus'[s] = "confirmed" /\ rowStatus[s] # "absent"
                           /\ ~Linked(s) /\ HashFree(s)
      /\ \A s \in Row \ {r, m} : rowStatus'[s] = rowStatus[s]
      /\ rowLink' = [s \in Row |-> IF s \in {r, m} THEN o ELSE rowLink[s]]
      /\ AccountOf(m) # AccountOf(r)
  BY DEF PostMatchedTransfer, LinkRows, CanPostAsTransfer, TransferCandidates,
         TransferPostable, Confirmable
<1>4. LinksOK'
  <2>1. Post(o, "bank_pdf", "transfer", entries, key, request)
    BY DEF PostMatchedTransfer
  <2>2. request \in ImportRequests /\ RequestRows(request) = {r, m}
    BY RequestTypes, RowsOfRequests
  <2>3. \A s, t \in {r, m} : HashOf[s] = HashOf[t] /\ HashOf[s] # NoHash => s = t
    BY <1>3, HashesFixFacts
  <2> HIDE DEF entries, request
  <2>4. \A s \in {r, m} : Entry(AccountOf(s), AmountOf[s]) \in entries
    BY DEF entries
  <2>5. QED
    BY <1>1, <1>2, <1>3, <2>1, <2>2, <2>3, <2>4, PostingKeepsLinks
<1>5. DocumentsOK'
  <2> DEFINE rows == {r, m}
             documents == {DocumentOf[r], DocumentOf[m]}
  <2>1. MarkImportedIfComplete(documents)
    BY DEF PostMatchedTransfer
  <2>2. /\ rows \in SUBSET Row
        /\ \A d \in Document : d \in documents <=> \E s \in rows : DocumentOf[s] = d
    OBVIOUS
  <2>3. /\ \A s \in rows : rowStatus[s] # "absent" /\ rowStatus'[s] = "confirmed"
        /\ \A s \in Row \ rows : rowStatus'[s] = rowStatus[s]
    BY <1>3
  <2> HIDE DEF rows, documents
  <2>4. QED
    BY <1>1, <1>2, <2>1, <2>2, <2>3, MarkingKeepsDocuments
<1>6. QED
  BY <1>2, <1>4, <1>5 DEF IInv, LinksOK, DocumentsOK

\* The invariant and a link to a manual operation.
LEMMA LinkExistingKeepsIInv ==
  ASSUME IInv, NEW r \in Row, NEW o \in Operation,
         LinkExistingTransfer(r, o) \/ LinkExistingOperation(r, o)
  PROVE  IInv'
<1>1. TypeOK /\ LinksOK /\ DocumentsOK
  BY IInvParts
<1>2. TypeOK'
  BY <1>1, LinkExistingTypeOK
<1>3. /\ opSource[o] = "manual" /\ opStatus[o] = "confirmed"
      /\ HashFree(r) /\ ~Linked(r) /\ rowStatus[r] # "absent"
      /\ LinkRows({r}, o) /\ UNCHANGED ledgerVars
  BY DEF LinkExistingTransfer, LinkExistingOperation, ManualTransferCandidate,
         ManualIncomeExpenseCandidate, CanPostAsTransfer, TransferPostable,
         Reviewable, Confirmable
<1>4. LinksOK'
  BY <1>1, <1>3, LinkingKeepsLinks
<1>5. /\ rowStatus'[r] = "confirmed"
      /\ \A s \in Row \ {r} : rowStatus'[s] = rowStatus[s]
  BY <1>3 DEF LinkRows
<1>6. CASE LinkExistingTransfer(r, o)
  <2>1. MarkImportedIfComplete({DocumentOf[r]})
    BY <1>6 DEF LinkExistingTransfer
  <2>2. DocumentsOK'
    BY <1>1, <1>2, <1>3, <1>5, <2>1, MarkingKeepsDocuments
  <2>3. QED
    BY <1>2, <1>4, <2>2 DEF IInv, LinksOK, DocumentsOK
<1>7. CASE LinkExistingOperation(r, o)
  <2>1. Stored(DocumentOf[r]) /\ DocumentOf[r] \in Document
    BY <1>1, <1>3, RowFacts DEF DocumentsOK, RowsHaveDocuments
  <2>2. \A s \in Row \ RowsOf(DocumentOf[r]) : rowStatus'[s] = rowStatus[s]
    BY <1>5 DEF RowsOf
  <2>3. DocumentsOK'
    BY <1>1, <1>2, <1>7, <2>1, <2>2, SyncKeepsDocuments DEF LinkExistingOperation
  <2>4. QED
    BY <1>2, <1>4, <2>3 DEF IInv, LinksOK, DocumentsOK
<1>8. QED
  BY <1>6, <1>7

\* The invariant and the undo of a row.
LEMMA UndoKeepsIInv ==
  ASSUME IInv, NEW r \in Row, UndoPosting(r)
  PROVE  IInv'
<1> DEFINE o == rowLink[r]
<1>1. TypeOK /\ LinksOK /\ DocumentsOK
  BY IInvParts
<1>2. TypeOK'
  BY <1>1, UndoTypeOK
<1>3. /\ o \in Operation /\ r \in LinkedRows(o)
      /\ UNCHANGED <<opSource, opRequest, opEntries>>
  BY <1>1, Columns DEF UndoPosting, Linked, LinkedRows
<1>4. CASE opSource[o] = "bank_pdf"
  <2>1. UnlinkRows(LinkedRows(o))
    BY <1>4 DEF UndoPosting, LinkedRows
  <2>2. /\ opStatus[o] = "confirmed" /\ opStatus'[o] = "ignored"
        /\ \A p \in Operation \ {o} : opStatus'[p] = opStatus[p]
    BY <1>1, <1>3, <1>4, Columns DEF UndoPosting
  <2> HIDE DEF o
  <2>3. LinksOK' /\ DocumentsOK'
    BY <1>1, <1>3, <1>4, <2>1, <2>2, UnlinkingKeepsLinks, UnlinkingKeepsDocuments
  <2>4. QED
    BY <1>2, <2>3 DEF IInv, LinksOK, DocumentsOK
<1>5. CASE opSource[o] # "bank_pdf"
  <2>1. UnlinkRows({r}) /\ UNCHANGED opStatus /\ opSource[o] = "manual"
    BY <1>1, <1>3, <1>5, Columns DEF UndoPosting, OperationSource
  <2> HIDE DEF o
  <2>2. LinksOK' /\ DocumentsOK'
    BY <1>1, <1>3, <2>1, UnlinkingKeepsLinks, UnlinkingKeepsDocuments
  <2>3. QED
    BY <1>2, <2>2 DEF IInv, LinksOK, DocumentsOK
<1>6. QED
  BY <1>4, <1>5

\* The invariant and the lifecycle actions of a row.
LEMMA LifecycleKeepsIInv ==
  ASSUME IInv, NEW r \in Row,
         NEW action \in {"mark_unique", "mark_duplicate", "ignore", "needs_review"},
         ChangeLifecycle(r, action)
  PROVE  IInv'
<1>1. TypeOK /\ LinksOK /\ DocumentsOK
  BY IInvParts
<1>2. TypeOK'
  BY <1>1, LifecycleTypeOK
<1>3. /\ rowStatus[r] \notin {"absent", "confirmed"}
      /\ rowStatus'[r] # "confirmed"
      /\ \A s \in Row \ {r} : rowStatus'[s] = rowStatus[s]
  BY <1>1, Columns
     DEF ChangeLifecycle, LifecycleTarget, LinksOK, LinkedIffConfirmed
<1>4. LinksOK'
  BY <1>1, <1>3, ReviewingKeepsLinks DEF ChangeLifecycle
<1>5. Stored(DocumentOf[r]) /\ DocumentOf[r] \in Document
  BY <1>1, <1>3, RowFacts DEF DocumentsOK, RowsHaveDocuments
<1>6. DocumentsOK'
  BY <1>1, <1>2, <1>3, <1>5, SyncKeepsDocuments DEF ChangeLifecycle, RowsOf
<1>7. QED
  BY <1>2, <1>4, <1>6 DEF IInv, LinksOK, DocumentsOK

\* The invariant and the import of rows.
LEMMA ImportKeepsIInv ==
  ASSUME IInv, NEW d \in Document, NEW created \in SUBSET RowsOf(d),
         NEW matched \in SUBSET RowsOf(d),
         ImportParsed(d, created, matched) \/ ImportMapped(d, created, matched)
  PROVE  IInv'
<1>1. TypeOK /\ LinksOK /\ DocumentsOK
  BY IInvParts
<1>2. TypeOK'
  BY <1>1, ImportTypeOK
<1>3. created \in SUBSET Row /\ \A r \in created : DocumentOf[r] = d
  BY DEF RowsOf
<1>4. \A r \in RowsOf(d) : rowStatus[r] # "confirmed"
  <2>1. CASE ImportParsed(d, created, matched)
    BY <1>1, <2>1 DEF ImportParsed, DocumentsOK, RowsHaveDocuments, Stored, RowsOf
  <2>2. CASE ImportMapped(d, created, matched)
    BY <2>2 DEF ImportMapped
  <2>3. QED
    BY <2>1, <2>2
<1>5. /\ \A r \in RowsOf(d) : rowStatus'[r] # "confirmed"
      /\ \A r \in Row \ RowsOf(d) : rowStatus'[r] = rowStatus[r]
      /\ UNCHANGED <<ledgerVars, rowLink>>
  <2> DEFINE before == IF ImportMapped(d, created, matched)
                       THEN [r \in Row |->
                              IF DocumentOf[r] = d /\ rowStatus[r] \notin Complete \cup {"absent"}
                              THEN "duplicate" ELSE rowStatus[r]]
                       ELSE rowStatus
             status == [r \in Row |-> IF r \in created THEN ImportedStatus(r) ELSE before[r]]
  <2>1. ApplyRulesTo(created, matched, status) /\ UNCHANGED <<ledgerVars, rowLink>>
    BY DEF ImportParsed, ImportMapped, CreateRows
  <2>2. \A r \in Row : ImportedStatus(r) \in RowStatus \ {"confirmed"}
    BY DEF ImportedStatus, RowStatus
  <2>3. before \in [Row -> RowStatus]
    BY <1>1, Columns DEF RowStatus
  <2>4. /\ \A r \in RowsOf(d) : before[r] # "confirmed"
        /\ \A r \in Row \ RowsOf(d) : before[r] = rowStatus[r]
    BY <1>1, <1>4, Columns DEF RowsOf
  <2> HIDE DEF before
  <2>5. /\ status \in [Row -> RowStatus]
        /\ \A r \in RowsOf(d) : status[r] # "confirmed"
        /\ \A r \in Row \ RowsOf(d) : status[r] = rowStatus[r]
    BY <1>3, <2>2, <2>3, <2>4 DEF RowsOf
  <2> HIDE DEF status
  <2>6. RowsOf(d) \in SUBSET Row
    BY DEF RowsOf
  <2>7. QED
    BY <1>3, <2>1, <2>5, <2>6, RulesKeepReview DEF RuleSuggestable
<1>6. LinksOK'
  BY <1>1, <1>4, <1>5, ReviewingKeepsLinks
<1>7. docStatus' = [docStatus EXCEPT ![d] = docStatus'[d]]
      /\ docStatus'[d] \in {"parsed", "requires_review"}
  BY <1>1, Columns DEF ImportParsed, ImportMapped, MoveDocument
<1>8. RowsHaveDocuments'
  BY <1>1, <1>5, <1>7, Columns, RowFacts
     DEF DocumentsOK, RowsHaveDocuments, Stored, RowsOf
<1>9. DocumentStatusAgrees'
  BY <1>1, <1>5, <1>7, Columns
     DEF DocumentsOK, DocumentStatusAgrees, AllComplete, RowsOf
<1>10. QED
  BY <1>2, <1>6, <1>8, <1>9 DEF IInv, LinksOK, DocumentsOK

\* The invariant and the rules.
LEMMA ApplyRulesKeepsIInv ==
  ASSUME IInv, NEW d \in Document, NEW matched \in SUBSET RowsOf(d),
         ApplyRules(d, matched)
  PROVE  IInv'
<1>1. TypeOK /\ LinksOK /\ DocumentsOK
  BY IInvParts
<1>2. TypeOK'
  BY <1>1, ApplyRulesTypeOK
<1>3. /\ \A r \in Row : rowStatus[r] \notin RuleSuggestable =>
                         rowStatus'[r] = rowStatus[r]
      /\ \A r \in Row : rowStatus[r] \in RuleSuggestable =>
                         rowStatus'[r] \in RuleSuggestable
  BY <1>1, Columns, RulesKeepReview DEF ApplyRules, RowsOf
<1>4. LinksOK'
  BY <1>1, <1>3, ReviewingKeepsLinks DEF ApplyRules, RuleSuggestable
<1>5. RowsHaveDocuments'
  BY <1>1, <1>3
     DEF ApplyRules, DocumentsOK, RowsHaveDocuments, Stored, RuleSuggestable
<1>6. DocumentStatusAgrees'
  BY <1>1, <1>3
     DEF ApplyRules, DocumentsOK, DocumentStatusAgrees, AllComplete, RowsOf,
         Complete, RuleSuggestable
<1>7. QED
  BY <1>2, <1>4, <1>5, <1>6 DEF IInv, LinksOK, DocumentsOK

\* The invariant and a document ignored or deleted.
LEMMA RemoveDocumentKeepsIInv ==
  ASSUME IInv, NEW d \in Document, IgnoreDocument(d) \/ DeleteDocument(d)
  PROVE  IInv'
<1>1. TypeOK /\ LinksOK /\ DocumentsOK
  BY IInvParts
<1>2. TypeOK'
  BY <1>1, RemoveDocumentTypeOK
<1>3. \E status \in {"ignored", "absent"} : rowStatus' = SetRows(d, status)
  BY DEF IgnoreDocument, DeleteDocument
<1>4. \A r \in RowsOf(d) : rowStatus[r] # "confirmed" /\ rowStatus'[r] # "confirmed"
  BY <1>1, <1>3
     DEF IgnoreDocument, DeleteDocument, NoLinkedRows, LinksOK,
         LinkedIffConfirmed, SetRows, RowsOf
<1>5. \A r \in Row \ RowsOf(d) : rowStatus'[r] = rowStatus[r]
  BY <1>3 DEF SetRows, RowsOf
<1>6. LinksOK'
  BY <1>1, <1>4, <1>5, ReviewingKeepsLinks DEF IgnoreDocument, DeleteDocument
<1>7. RowsHaveDocuments' /\ DocumentStatusAgrees'
  <2>1. CASE IgnoreDocument(d)
    BY <1>1, <1>5, <2>1, Columns, RowFacts
       DEF IgnoreDocument, MoveDocument, DocumentsOK, RowsHaveDocuments, Stored,
           DocumentStatusAgrees, AllComplete, SetRows, RowsOf
  <2>2. CASE DeleteDocument(d)
    BY <1>1, <1>5, <2>2, Columns, RowFacts
       DEF DeleteDocument, DocumentsOK, RowsHaveDocuments, Stored,
           DocumentStatusAgrees, AllComplete, SetRows, RowsOf
  <2>3. QED
    BY <2>1, <2>2
<1>8. QED
  BY <1>2, <1>6, <1>7 DEF IInv, LinksOK, DocumentsOK

\* A manual command changes one operation, which is manual afterwards, and no
\* recorded operation goes away.
LEMMA ManualCommandKeepsLinks ==
  ASSUME TypeOK, LinksOK, ManualCommand, UNCHANGED reviewVars
  PROVE  LinksOK'
<1>1. PICK o \in Operation :
        /\ opSource'[o] = "manual" /\ opStatus'[o] \in {"confirmed", "ignored"}
        /\ \A p \in Operation \ {o} :
             /\ opStatus'[p] = opStatus[p] /\ opSource'[p] = opSource[p]
             /\ opRequest'[p] = opRequest[p] /\ opEntries'[p] = opEntries[p]
        /\ opSource[o] = "manual" \/ opStatus[o] = "unused"
  BY Columns
     DEF ManualCommand, CreateIncomeExpense, CreateTransfer, Post, Replace,
         UpdateAsIncomeExpense, UpdateAsTransfer, Cancel, Restore
<1>2. LinkedIffConfirmed'
  BY <1>1, Columns DEF LinksOK, LinkedIffConfirmed, Linked, Recorded, reviewVars
<1>3. ImportedOperationBacked'
  BY <1>1
     DEF LinksOK, ImportedOperationBacked, Imported, Recorded, LinkedRows,
         RequestRows, reviewVars
<1>4. OneConfirmedRowPerHash'
  BY DEF LinksOK, OneConfirmedRowPerHash, reviewVars
<1>5. RequestRowsPosted'
  BY <1>1 DEF LinksOK, RequestRowsPosted, Imported, Recorded, HasRowsEntry
<1>6. QED
  BY <1>2, <1>3, <1>4, <1>5 DEF LinksOK

\* The invariant and the manual commands.
LEMMA LedgerCommandKeepsIInv == IInv /\ LedgerCommand => IInv'
<1> SUFFICES ASSUME IInv, LedgerCommand PROVE IInv'
  OBVIOUS
<1>1. TypeOK /\ LinksOK /\ DocumentsOK
  BY IInvParts
<1>2. TypeOK'
  BY <1>1, LedgerCommandTypeOK
<1>3. CASE ManualCommand /\ UNCHANGED reviewVars
  <2>1. DocumentsOK'
    BY <1>1, <1>3
       DEF DocumentsOK, RowsHaveDocuments, Stored, DocumentStatusAgrees,
           AllComplete, reviewVars
  <2>2. QED
    BY <1>1, <1>2, <1>3, <2>1, ManualCommandKeepsLinks DEF IInv, LinksOK, DocumentsOK
<1>4. ASSUME NEW o \in Operation, DeleteManual(o)
      PROVE  IInv'
  <2>1. /\ UnlinkRows(LinkedRows(o)) /\ opSource[o] = "manual"
        /\ UNCHANGED <<opSource, opRequest>>
        /\ \A p \in Operation \ {o} : /\ opStatus'[p] = opStatus[p]
                                      /\ opEntries'[p] = opEntries[p]
    BY <1>1, <1>4, Columns DEF DeleteManual, Erase, LinkedRows
  <2>2. LinksOK' /\ DocumentsOK'
    BY <1>1, <2>1, UnlinkingKeepsLinks, UnlinkingKeepsDocuments
  <2>3. QED
    BY <1>2, <2>2 DEF IInv, LinksOK, DocumentsOK
<1>5. QED
  BY <1>3, <1>4 DEF LedgerCommand

-----------------------------------------------------------------------------
(* The theorems.                                                            *)

\* Every step keeps the invariant.
LEMMA StepKeepsIInv == IInv /\ [Next]_vars => IInv'
<1>1. IInv /\ UNCHANGED vars => IInv'
  <2> SUFFICES ASSUME IInv, UNCHANGED vars PROVE IInv'
    OBVIOUS
  <2>1. UNCHANGED <<ledgerVars, reviewVars>>
    BY DEF vars
  <2>2. TypeOK' /\ LinksOK'
    BY <2>1, ReviewingKeepsLinks, IInvParts
       DEF TypeOK, LedgerTypeOK, ledgerVars, reviewVars
  <2>3. DocumentsOK'
    BY <2>1, IInvParts
       DEF DocumentsOK, RowsHaveDocuments, Stored, DocumentStatusAgrees,
           AllComplete, reviewVars
  <2>4. QED
    BY <2>2, <2>3 DEF IInv, LinksOK, DocumentsOK
<1>2. IInv /\ ReviewCommand => IInv'
  BY ConfirmKeepsIInv, NewTransferKeepsIInv, MatchedTransferKeepsIInv,
     LinkExistingKeepsIInv, UndoKeepsIInv, LifecycleKeepsIInv
     DEF ReviewCommand
<1>3. IInv /\ DocumentCommand => IInv'
  BY ImportKeepsIInv, ApplyRulesKeepsIInv, RemoveDocumentKeepsIInv
     DEF DocumentCommand
<1>4. QED
  BY <1>1, <1>2, <1>3, LedgerCommandKeepsIInv DEF Next

\* The strengthened invariant holds in every reachable state.
THEOREM InductiveInvariant == Spec => []IInv
<1>1. Init => IInv
  <2> SUFFICES ASSUME Init PROVE IInv
    OBVIOUS
  <2>1. TypeOK
    BY DEF Init, LedgerInit, TypeOK, LedgerTypeOK, OperationStatus,
           OperationSource, OperationType, RowStatus, DocumentStatus
  <2>2. LinksOK
    BY DEF Init, LedgerInit, LinksOK, LinkedIffConfirmed, Linked,
           ImportedOperationBacked, OneConfirmedRowPerHash, RequestRowsPosted,
           Imported, Recorded
  <2>3. DocumentsOK
    BY RowFacts
       DEF Init, DocumentsOK, RowsHaveDocuments, DocumentStatusAgrees
  <2>4. QED
    BY <2>1, <2>2, <2>3, IInvParts
<1>2. QED
  BY <1>1, StepKeepsIInv, PTL DEF Spec

\* A statement row is confirmed exactly while it is linked to an operation
\* that exists, after any history of postings, undos, links and deletions.
THEOREM RowsLinkedIffConfirmed == Spec => []LinkedIffConfirmed
BY InductiveInvariant, PTL DEF IInv

\* An imported operation in the balances has exactly the rows it was posted
\* from behind it, and an undone one has none.
THEOREM ImportedOperationsBacked == Spec => []ImportedOperationBacked
BY InductiveInvariant, PTL DEF IInv

\* Imported documents are fully reviewed and ignored ones fully ignored.
THEOREM DocumentsAgree == Spec => []DocumentStatusAgrees
BY InductiveInvariant, PTL DEF IInv

\* No double count: however often overlapping statements are imported, posted,
\* linked and undone, rows with one dedupe hash stand behind one operation.
THEOREM NoDoubleCount == Spec => []MoneyCountedOnce
<1>1. IInv => MoneyCountedOnce
  <2> SUFFICES ASSUME IInv, NEW r \in Row, NEW s \in Row,
                      HashOf[r] = HashOf[s], HashOf[r] # NoHash,
                      NEW o \in Operation, NEW p \in Operation,
                      CountsFor(o, r), CountsFor(p, s)
               PROVE  o = p
    BY DEF MoneyCountedOnce
  <2>1. rowLink[r] = o /\ rowLink[s] = p
    BY DEF IInv, ImportedOperationBacked, CountsFor, LinkedRows
  <2>2. rowStatus[r] = "confirmed" /\ rowStatus[s] = "confirmed"
    BY <2>1, NullsAreNotValues DEF IInv, LinkedIffConfirmed, Linked
  <2>3. r = s
    BY <2>2 DEF IInv, OneConfirmedRowPerHash
  <2>4. QED
    BY <2>1, <2>3
<1>2. QED
  BY <1>1, InductiveInvariant, PTL

\* What the statement prints for a posted row is in the entries of its
\* operation, transfers matched from two statements included.
THEOREM StatementsPosted == Spec => []StatementMoneyPosted
<1>1. IInv => StatementMoneyPosted
  <2> SUFFICES ASSUME IInv, NEW r \in Row, Linked(r), opSource[rowLink[r]] = "bank_pdf"
               PROVE  HasRowsEntry(rowLink[r], r)
    BY DEF StatementMoneyPosted
  <2>1. rowLink[r] \in Operation /\ Imported(rowLink[r])
    BY Columns DEF IInv, LinkedIffConfirmed, Linked, Imported
  <2>2. r \in LinkedRows(rowLink[r])
    BY DEF LinkedRows
  <2>3. r \in RequestRows(opRequest[rowLink[r]])
    BY <2>1, <2>2 DEF IInv, ImportedOperationBacked
  <2>4. QED
    BY <2>1, <2>3 DEF IInv, RequestRowsPosted
<1>2. QED
  BY <1>1, InductiveInvariant, PTL

\* A link is kept, or goes in a step that unlinks rows.
LEMMA LinkKeptOrUnlinked ==
  ASSUME TypeOK, Next, NEW r \in Row, Linked(r)
  PROVE  \/ rowLink'[r] = rowLink[r]
         \/ \E rows \in SUBSET Row : r \in rows /\ UnlinkRows(rows)
<1>1. CASE ReviewCommand
  <2>1. CASE \E s \in Row : UndoPosting(s)
    <3>1. PICK s \in Row : UndoPosting(s)
      BY <2>1
    <3>2. PICK rows \in SUBSET Row : UnlinkRows(rows)
      BY <3>1 DEF UndoPosting
    <3>3. QED
      BY <3>2, Columns DEF UnlinkRows
  <2>2. ASSUME NEW s \in Row, NEW o \in Operation, NEW key \in Key,
               \/ \E remember \in BOOLEAN, matched \in SUBSET RowsOf(DocumentOf[s]) :
                    Confirm(s, o, key, remember, matched)
               \/ \E account \in Account : PostNewTransfer(s, account, o, key)
               \/ \E m \in Row : PostMatchedTransfer(s, m, o, key)
        PROVE  rowLink'[r] = rowLink[r]
    BY <2>2, Columns
       DEF Confirm, PostNewTransfer, PostMatchedTransfer, CanPostAsTransfer,
           TransferCandidates, LinkRows
  <2>3. ASSUME NEW s \in Row, NEW o \in Operation,
               LinkExistingTransfer(s, o) \/ LinkExistingOperation(s, o)
        PROVE  rowLink'[r] = rowLink[r]
    BY <2>3 DEF LinkExistingTransfer, LinkExistingOperation, CanPostAsTransfer, LinkRows
  <2>4. ASSUME NEW s \in Row, NEW action, ChangeLifecycle(s, action)
        PROVE  rowLink'[r] = rowLink[r]
    BY <2>4 DEF ChangeLifecycle
  <2>5. QED
    BY <1>1, <2>1, <2>2, <2>3, <2>4 DEF ReviewCommand
<1>2. CASE DocumentCommand
  BY <1>2
     DEF DocumentCommand, ImportParsed, ImportMapped, CreateRows, ApplyRules,
         IgnoreDocument, DeleteDocument
<1>3. CASE LedgerCommand
  <2>1. CASE \E o \in Operation : DeleteManual(o)
    <3>1. PICK rows \in SUBSET Row : UnlinkRows(rows)
      BY <2>1 DEF DeleteManual
    <3>2. QED
      BY <3>1, Columns DEF UnlinkRows
  <2>2. CASE UNCHANGED reviewVars
    BY <2>2 DEF reviewVars
  <2>3. QED
    BY <1>3, <2>1, <2>2 DEF LedgerCommand
<1>4. QED
  BY <1>1, <1>2, <1>3 DEF Next

\* Re-mapping, ignoring and deleting never reach a posted row or its document.
THEOREM LinkedRowsStay == Spec => LinkedRowsPreserved
<1> DEFINE Preserved == \A r \in Row : Linked(r) =>
             /\ rowLink'[r] \in {rowLink[r], NoOperation}
             /\ rowStatus'[r] \in {"confirmed", "suggested", "normalized"}
             /\ docStatus'[DocumentOf[r]] \notin {"ignored", "deleted", "absent"}
<1>1. IInv /\ IInv' /\ [Next]_vars => [Preserved]_vars
  <2> SUFFICES ASSUME IInv, IInv', Next, NEW r \in Row, Linked(r)
               PROVE  /\ rowLink'[r] \in {rowLink[r], NoOperation}
                      /\ rowStatus'[r] \in {"confirmed", "suggested", "normalized"}
                      /\ docStatus'[DocumentOf[r]] \notin {"ignored", "deleted", "absent"}
    OBVIOUS
  <2>1. CASE rowLink'[r] = rowLink[r]
    <3>1. rowStatus'[r] = "confirmed"
      BY <2>1 DEF IInv, LinkedIffConfirmed, Linked
    <3>2. docStatus'[DocumentOf[r]] \notin {"deleted", "absent"}
      BY <3>1 DEF IInv, RowsHaveDocuments, Stored
    <3>3. docStatus'[DocumentOf[r]] # "ignored"
      BY <3>1, RowFacts DEF IInv, DocumentStatusAgrees, RowsOf
    <3>4. QED
      BY <2>1, <3>1, <3>2, <3>3
  <2>2. CASE \E rows \in SUBSET Row : r \in rows /\ UnlinkRows(rows)
    BY <2>2, RowFacts DEF UnlinkRows, RestoredStatus
  <2>3. QED
    BY <2>1, <2>2, LinkKeptOrUnlinked DEF IInv
<1>2. QED
  BY <1>1, InductiveInvariant, PTL DEF Spec, LinkedRowsPreserved

-----------------------------------------------------------------------------
(* What each command does to the operations.                                *)

\* The columns of one operation, but for its status.
Kept(o) == /\ opSource'[o] = opSource[o] /\ opType'[o] = opType[o]
           /\ opEntries'[o] = opEntries[o]
           /\ opKey'[o] = opKey[o] /\ opRequest'[o] = opRequest[o]

\* A posting changes no recorded operation but its own.
LEMMA PostLeavesOthers ==
  ASSUME TypeOK, NEW o \in Operation, NEW source, NEW type, NEW entries, NEW key,
         NEW request, Post(o, source, type, entries, key, request),
         NEW p \in Operation, Recorded(p)
  PROVE  p # o /\ Kept(p) /\ opStatus'[p] = opStatus[p]
BY DEF Post, Recorded, Kept

\* A review command may ignore a recorded operation and changes nothing else of it.
LEMMA ReviewLeavesOperations ==
  ASSUME TypeOK, ReviewCommand, NEW p \in Operation, Recorded(p)
  PROVE  Kept(p) /\ opStatus'[p] \in {"ignored", opStatus[p]}
<1>1. ASSUME NEW s \in Row, NEW o \in Operation, NEW key \in Key,
             \/ \E remember \in BOOLEAN, matched \in SUBSET RowsOf(DocumentOf[s]) :
                  Confirm(s, o, key, remember, matched)
             \/ \E account \in Account : PostNewTransfer(s, account, o, key)
             \/ \E m \in Row : PostMatchedTransfer(s, m, o, key)
      PROVE  Kept(p) /\ opStatus'[p] = opStatus[p]
  BY <1>1, PostLeavesOthers DEF Confirm, PostNewTransfer, PostMatchedTransfer
<1>2. ASSUME NEW s \in Row,
             \/ \E o \in Operation : LinkExistingTransfer(s, o) \/ LinkExistingOperation(s, o)
             \/ \E action \in {"mark_unique", "mark_duplicate", "ignore", "needs_review"} :
                  ChangeLifecycle(s, action)
      PROVE  Kept(p) /\ opStatus'[p] = opStatus[p]
  BY <1>2
     DEF LinkExistingTransfer, LinkExistingOperation, ChangeLifecycle, ledgerVars, Kept
<1>3. ASSUME NEW s \in Row, UndoPosting(s)
      PROVE  Kept(p) /\ opStatus'[p] \in {"ignored", opStatus[p]}
  BY <1>3, Columns DEF UndoPosting, Kept
<1>4. QED
  BY <1>1, <1>2, <1>3 DEF ReviewCommand

\* A manual command changes no imported operation.
LEMMA LedgerLeavesImported ==
  ASSUME TypeOK, LedgerCommand, NEW p \in Operation, Imported(p)
  PROVE  Kept(p) /\ opStatus'[p] = opStatus[p]
<1>1. /\ opType \in [Operation -> OperationType]
      /\ opKey \in [Operation -> Key \cup {NoKey}]
      /\ opSource[p] # "manual" /\ Recorded(p)
  BY DEF TypeOK, LedgerTypeOK, Imported
<1>2. ASSUME NEW o \in Operation, NEW account \in Account, NEW other \in Account,
             NEW amount \in ManualAmount, NEW key \in Key \cup {NoKey},
             \/ CreateTransfer(o, account, other, amount, key)
             \/ \E type \in {"income", "expense"} :
                  CreateIncomeExpense(o, type, account, amount, key)
      PROVE  Kept(p) /\ opStatus'[p] = opStatus[p]
  BY <1>1, <1>2, PostLeavesOthers DEF CreateTransfer, CreateIncomeExpense
<1>3. ASSUME NEW o \in Operation, NEW type, NEW entries, Replace(o, type, entries)
      PROVE  Kept(p) /\ opStatus'[p] = opStatus[p]
  BY <1>1, <1>3, Columns DEF Replace, Kept
<1>4. ASSUME NEW o \in Operation, Cancel(o) \/ Restore(o) \/ DeleteManual(o)
      PROVE  Kept(p) /\ opStatus'[p] = opStatus[p]
  BY <1>1, <1>4, Columns DEF Cancel, Restore, DeleteManual, Erase, Kept
<1>5. QED
  BY <1>2, <1>3, <1>4
     DEF LedgerCommand, ManualCommand, UpdateAsIncomeExpense, UpdateAsTransfer

\* An imported operation is only ever undone: nothing edits, deletes or
\* restores it.
THEOREM ImportedStayFinal == Spec => ImportedOperationsFinal
<1> DEFINE Final == \A o \in Operation : Imported(o) =>
             /\ opSource'[o] = opSource[o] /\ opType'[o] = opType[o]
             /\ opEntries'[o] = opEntries[o]
             /\ opKey'[o] = opKey[o] /\ opRequest'[o] = opRequest[o]
             /\ opStatus'[o] \in {"ignored", opStatus[o]}
<1>1. TypeOK /\ [Next]_vars => [Final]_vars
  <2> SUFFICES ASSUME TypeOK, Next, NEW o \in Operation, Imported(o)
               PROVE  Kept(o) /\ opStatus'[o] \in {"ignored", opStatus[o]}
    BY DEF Kept
  <2>1. CASE DocumentCommand
    BY <2>1
       DEF DocumentCommand, ImportParsed, ImportMapped, ApplyRules,
           IgnoreDocument, DeleteDocument, ledgerVars, Kept
  <2>2. QED
    BY <2>1, ReviewLeavesOperations, LedgerLeavesImported DEF Next, Imported
<1>2. QED
  BY <1>1, TypeCorrect, PTL DEF Spec, ImportedOperationsFinal

-----------------------------------------------------------------------------
(* The entries of every operation fit its type.                             *)

\* The entry an income or expense is built with has its shape.
LEMMA IncomeExpenseFits ==
  ASSUME NEW type \in {"income", "expense"}, NEW account \in Account,
         NEW amount \in ManualAmount
  PROVE  Fits(type, IncomeExpenseEntries(type, account, amount))
BY ManualAmountsPositive
   DEF Fits, IncomeExpenseShape, IncomeExpenseEntries, Entry

\* The entries a transfer is built with have its shape.
LEMMA TransferFits ==
  ASSUME NEW from \in Account, NEW to \in Account, NEW amount \in Int,
         from # to, SameCurrency(from, to)
  PROVE  Fits("transfer", {Entry(from, amount), Entry(to, -amount)})
<1> DEFINE e == Entry(from, amount)
           f == Entry(to, -amount)
<1>1. /\ e.account = from /\ e.amount = amount
      /\ f.account = to /\ f.amount = -amount
  BY DEF Entry
<1>2. e.account # f.account /\ SameCurrency(e.account, f.account)
  BY <1>1
<1>3. e.amount + f.amount = 0
  BY <1>1
<1> HIDE DEF e, f
<1>4. Fits("transfer", {e, f})
  BY <1>2, <1>3 DEF Fits, TransferShape
<1>5. QED
  BY <1>4 DEF e, f

\* A posting of fitting entries keeps all entries fitting.
LEMMA PostKeepsFit ==
  ASSUME TypeOK, EntriesFitType, NEW o \in Operation, NEW source, NEW type,
         NEW entries, NEW key, NEW request,
         Post(o, source, type, entries, key, request), Fits(type, entries)
  PROVE  EntriesFitType'
<1>1. opType \in [Operation -> OperationType]
  BY DEF TypeOK, LedgerTypeOK
<1> SUFFICES ASSUME NEW p \in Operation, Recorded(p)'
             PROVE  Fits(opType'[p], opEntries'[p])
  BY DEF EntriesFitType, Fits, TransferShape, IncomeExpenseShape
<1>2. CASE p = o
  BY <1>1, <1>2, Columns DEF Post
<1>3. CASE p # o
  <2>1. /\ opType'[p] = opType[p] /\ opEntries'[p] = opEntries[p]
        /\ Recorded(p)
    BY <1>1, <1>3, Columns DEF Post, Recorded
  <2>2. QED
    BY <2>1 DEF EntriesFitType
<1>4. QED
  BY <1>2, <1>3

\* So does an edit to fitting entries.
LEMMA ReplaceKeepsFit ==
  ASSUME TypeOK, EntriesFitType, NEW o \in Operation, NEW type, NEW entries,
         Replace(o, type, entries), Fits(type, entries)
  PROVE  EntriesFitType'
<1>1. opType \in [Operation -> OperationType]
  BY DEF TypeOK, LedgerTypeOK
<1> SUFFICES ASSUME NEW p \in Operation, Recorded(p)'
             PROVE  Fits(opType'[p], opEntries'[p])
  BY DEF EntriesFitType, Fits, TransferShape, IncomeExpenseShape
<1>2. CASE p = o
  BY <1>1, <1>2, Columns DEF Replace
<1>3. CASE p # o
  <2>1. /\ opType'[p] = opType[p] /\ opEntries'[p] = opEntries[p]
        /\ Recorded(p)
    BY <1>1, <1>3, Columns DEF Replace, Recorded
  <2>2. QED
    BY <2>1 DEF EntriesFitType
<1>4. QED
  BY <1>2, <1>3

\* A step that changes the type and the entries of no recorded operation, and
\* records none.
LEMMA OtherStepsKeepFit ==
  ASSUME EntriesFitType, UNCHANGED opType,
         \A p \in Operation : Recorded(p)' =>
           Recorded(p) /\ opEntries'[p] = opEntries[p]
  PROVE  EntriesFitType'
<1> SUFFICES ASSUME NEW p \in Operation, Recorded(p)'
             PROVE  Fits(opType'[p], opEntries'[p])
  BY DEF EntriesFitType, Fits, TransferShape, IncomeExpenseShape
<1>1. QED
  BY DEF EntriesFitType

\* The review commands post fitting entries.
LEMMA ReviewKeepsFit == TypeOK /\ EntriesFitType /\ ReviewCommand => EntriesFitType'
<1> SUFFICES ASSUME TypeOK, EntriesFitType, ReviewCommand PROVE EntriesFitType'
  OBVIOUS
<1>1. ASSUME NEW r \in Row, NEW o \in Operation, NEW key \in Key,
             NEW remember \in BOOLEAN, NEW matched \in SUBSET RowsOf(DocumentOf[r]),
             Confirm(r, o, key, remember, matched)
      PROVE  EntriesFitType'
  <2> DEFINE type == IF AmountOf[r] > 0 THEN "income" ELSE "expense"
             e == Entry(AccountOf(r), AmountOf[r])
  <2>1. e.amount = AmountOf[r] /\ AmountOf[r] # 0 /\ AmountOf[r] \in Int
    BY <1>1, RowFacts DEF Confirm, Entry
  <2>2. Post(o, "bank_pdf", type, {e}, key, ConfirmRequest(r))
    BY <1>1 DEF Confirm
  <2>3. IF type = "income" THEN e.amount > 0 ELSE e.amount < 0
    BY <2>1
  <2> HIDE DEF e
  <2>4. Fits(type, {e})
    BY <2>3 DEF Fits, IncomeExpenseShape
  <2> HIDE DEF type
  <2>5. QED
    BY <2>2, <2>4, PostKeepsFit
<1>2. ASSUME NEW r \in Row, NEW o \in Operation, NEW key \in Key,
             NEW account \in Account, PostNewTransfer(r, account, o, key)
      PROVE  EntriesFitType'
  <2>1. Fits("transfer", NewTransferEntries(r, account))
    BY <1>2, RowFacts, TransferFits
       DEF PostNewTransfer, NewTransferEntries, SameCurrency
  <2>2. QED
    BY <1>2, <2>1, PostKeepsFit DEF PostNewTransfer
<1>3. ASSUME NEW r \in Row, NEW m \in Row, NEW o \in Operation, NEW key \in Key,
             PostMatchedTransfer(r, m, o, key)
      PROVE  EntriesFitType'
  <2>1. /\ AmountOf[m] = -AmountOf[r] /\ AccountOf(r) # AccountOf(m)
        /\ SameCurrency(AccountOf(r), AccountOf(m))
    BY <1>3 DEF PostMatchedTransfer, TransferCandidates, SameCurrency
  <2>2. Fits("transfer", {Entry(AccountOf(r), AmountOf[r]), Entry(AccountOf(m), -AmountOf[r])})
    BY <2>1, RowFacts, TransferFits
  <2>3. QED
    BY <1>3, <2>1, <2>2, PostKeepsFit DEF PostMatchedTransfer
<1>4. ASSUME NEW r \in Row,
             \/ \E o \in Operation : LinkExistingTransfer(r, o) \/ LinkExistingOperation(r, o)
             \/ \E action \in {"mark_unique", "mark_duplicate", "ignore", "needs_review"} :
                  ChangeLifecycle(r, action)
             \/ UndoPosting(r)
      PROVE  EntriesFitType'
  <2>1. UNCHANGED <<opType, opEntries>>
    BY <1>4
       DEF LinkExistingTransfer, LinkExistingOperation, ChangeLifecycle,
           UndoPosting, ledgerVars
  <2>2. \A p \in Operation : Recorded(p)' => Recorded(p)
    <3>1. CASE UNCHANGED opStatus
      BY <3>1 DEF Recorded
    <3>2. CASE UndoPosting(r)
      BY <3>2, Columns DEF UndoPosting, Recorded
    <3>3. QED
      BY <1>4, <3>1, <3>2
         DEF LinkExistingTransfer, LinkExistingOperation, ChangeLifecycle, ledgerVars
  <2>3. QED
    BY <2>1, <2>2, OtherStepsKeepFit
<1>5. QED
  BY <1>1, <1>2, <1>3, <1>4 DEF ReviewCommand

\* The manual commands post fitting entries.
LEMMA LedgerKeepsFit == TypeOK /\ EntriesFitType /\ LedgerCommand => EntriesFitType'
<1> SUFFICES ASSUME TypeOK, EntriesFitType, LedgerCommand PROVE EntriesFitType'
  OBVIOUS
<1>1. ASSUME NEW o \in Operation, NEW type \in {"income", "expense"},
             NEW account \in Account, NEW amount \in ManualAmount,
             \/ \E key \in Key \cup {NoKey} :
                  CreateIncomeExpense(o, type, account, amount, key)
             \/ UpdateAsIncomeExpense(o, type, account, amount)
      PROVE  EntriesFitType'
  BY <1>1, IncomeExpenseFits, PostKeepsFit, ReplaceKeepsFit
     DEF CreateIncomeExpense, UpdateAsIncomeExpense
<1>2. ASSUME NEW o \in Operation, NEW from \in Account, NEW to \in Account,
             NEW amount \in ManualAmount,
             \/ \E key \in Key \cup {NoKey} : CreateTransfer(o, from, to, amount, key)
             \/ UpdateAsTransfer(o, from, to, amount)
      PROVE  EntriesFitType'
  <2>1. /\ from # to /\ SameCurrency(from, to)
        /\ amount \in Int /\ -amount \in Int /\ -(-amount) = amount
    BY <1>2, ManualAmountsPositive DEF CreateTransfer, UpdateAsTransfer
  <2>2. Fits("transfer", {Entry(from, -amount), Entry(to, -(-amount))})
    BY <2>1, TransferFits
  <2>3. Fits("transfer", TransferEntries(from, to, amount))
    BY <2>1, <2>2 DEF TransferEntries
  <2>4. QED
    BY <1>2, <2>3, PostKeepsFit, ReplaceKeepsFit DEF CreateTransfer, UpdateAsTransfer
<1>3. ASSUME NEW o \in Operation, Cancel(o) \/ Restore(o) \/ DeleteManual(o)
      PROVE  EntriesFitType'
  BY <1>3, Columns, OtherStepsKeepFit
     DEF Cancel, Restore, DeleteManual, Erase, Recorded
<1>4. QED
  BY <1>1, <1>2, <1>3 DEF LedgerCommand, ManualCommand

\* Every recorded operation, typed in, edited or imported, has the entries its
\* type calls for; a transfer's sum to zero.
THEOREM EntriesAlwaysFit == Spec => []EntriesFitType
<1>1. Init => EntriesFitType
  BY DEF Init, LedgerInit, EntriesFitType, Recorded
<1>2. TypeOK /\ EntriesFitType /\ [Next]_vars => EntriesFitType'
  <2>1. EntriesFitType /\ (DocumentCommand \/ UNCHANGED vars) => EntriesFitType'
    BY OtherStepsKeepFit
       DEF DocumentCommand, ImportParsed, ImportMapped, ApplyRules,
           IgnoreDocument, DeleteDocument, vars, ledgerVars, Recorded
  <2>2. QED
    BY <2>1, ReviewKeepsFit, LedgerKeepsFit DEF Next
<1>3. QED
  BY <1>1, <1>2, TypeCorrect, PTL DEF Spec

-----------------------------------------------------------------------------
(* Idempotency keys.                                                        *)

\* A posting takes a free key.
LEMMA PostKeepsKeys ==
  ASSUME TypeOK, OneOperationPerKey, NEW o \in Operation, NEW source, NEW type,
         NEW entries, NEW key, NEW request,
         Post(o, source, type, entries, key, request)
  PROVE  OneOperationPerKey'
<1>1. opKey \in [Operation -> Key \cup {NoKey}]
  BY DEF TypeOK, LedgerTypeOK
<1>2. QED
  BY <1>1, Columns DEF Post, KeyFree, OneOperationPerKey, Recorded

\* A step that records no operation and gives no operation a key.
LEMMA OtherStepsKeepKeys ==
  ASSUME OneOperationPerKey,
         \A p \in Operation : Recorded(p)' => Recorded(p),
         \A p \in Operation : opKey'[p] \in {opKey[p], NoKey}
  PROVE  OneOperationPerKey'
BY DEF OneOperationPerKey

\* A retried key is answered from at most one operation.
THEOREM KeysStayUnique == Spec => []OneOperationPerKey
<1>1. Init => OneOperationPerKey
  BY DEF Init, LedgerInit, OneOperationPerKey, Recorded
<1>2. TypeOK /\ OneOperationPerKey /\ [Next]_vars => OneOperationPerKey'
  <2> SUFFICES ASSUME TypeOK, OneOperationPerKey, [Next]_vars
               PROVE  OneOperationPerKey'
    OBVIOUS
  <2>1. CASE ReviewCommand
    <3>1. ASSUME NEW r \in Row, NEW o \in Operation, NEW key \in Key,
                 \/ \E remember \in BOOLEAN, matched \in SUBSET RowsOf(DocumentOf[r]) :
                      Confirm(r, o, key, remember, matched)
                 \/ \E account \in Account : PostNewTransfer(r, account, o, key)
                 \/ \E m \in Row : PostMatchedTransfer(r, m, o, key)
          PROVE  OneOperationPerKey'
      BY <3>1, PostKeepsKeys DEF Confirm, PostNewTransfer, PostMatchedTransfer
    <3>2. ASSUME NEW r \in Row,
                 \/ \E o \in Operation : LinkExistingTransfer(r, o) \/ LinkExistingOperation(r, o)
                 \/ \E action \in {"mark_unique", "mark_duplicate", "ignore", "needs_review"} :
                      ChangeLifecycle(r, action)
          PROVE  OneOperationPerKey'
      BY <3>2, OtherStepsKeepKeys
         DEF LinkExistingTransfer, LinkExistingOperation, ChangeLifecycle,
             ledgerVars, Recorded
    <3>3. ASSUME NEW r \in Row, UndoPosting(r)
          PROVE  OneOperationPerKey'
      BY <3>3, Columns, OtherStepsKeepKeys DEF UndoPosting, Recorded
    <3>4. QED
      BY <2>1, <3>1, <3>2, <3>3 DEF ReviewCommand
  <2>2. CASE DocumentCommand \/ UNCHANGED vars
    BY <2>2, OtherStepsKeepKeys
       DEF DocumentCommand, ImportParsed, ImportMapped, ApplyRules,
           IgnoreDocument, DeleteDocument, vars, ledgerVars, Recorded
  <2>3. CASE LedgerCommand
    <3>1. ASSUME NEW o \in Operation, NEW account \in Account, NEW other \in Account,
                 NEW amount \in ManualAmount, NEW key \in Key \cup {NoKey},
                 \/ CreateTransfer(o, account, other, amount, key)
                 \/ \E type \in {"income", "expense"} :
                      CreateIncomeExpense(o, type, account, amount, key)
          PROVE  OneOperationPerKey'
      BY <3>1, PostKeepsKeys DEF CreateTransfer, CreateIncomeExpense
    <3>2. ASSUME NEW o \in Operation,
                 \/ \E type, entries : Replace(o, type, entries)
                 \/ Cancel(o) \/ Restore(o)
          PROVE  OneOperationPerKey'
      BY <3>2, Columns, OtherStepsKeepKeys DEF Replace, Cancel, Restore, Recorded
    <3>3. ASSUME NEW o \in Operation, DeleteManual(o)
          PROVE  OneOperationPerKey'
      <4>1. opKey \in [Operation -> Key \cup {NoKey}]
        BY DEF TypeOK, LedgerTypeOK
      <4>2. QED
        BY <3>3, <4>1, Columns, OtherStepsKeepKeys DEF DeleteManual, Erase, Recorded
    <3>4. QED
      BY <2>3, <3>1, <3>2, <3>3
         DEF LedgerCommand, ManualCommand, UpdateAsIncomeExpense, UpdateAsTransfer
  <2>4. QED
    BY <2>1, <2>2, <2>3 DEF Next
<1>3. QED
  BY <1>1, <1>2, TypeCorrect, PTL DEF Spec

\* The tables agree with each other and with the ledger after every command.
THEOREM TablesConsistent == Spec => []Consistent
<1>1. IInv /\ EntriesFitType /\ OneOperationPerKey => Consistent
  BY DEF Consistent
<1>2. QED
  BY <1>1, InductiveInvariant, EntriesAlwaysFit, KeysStayUnique, PTL

-----------------------------------------------------------------------------
(* ImportReview implements StatementBooking.                                *)

\* What BookedAs says, without the choice of a row.
BookingFacts ==
  /\ BookedAs \in [Hash -> Operation \cup {NoOperation}]
  /\ \A r \in Row : HashOf[r] \in Hash /\ Linked(r) =>
       BookedAs[HashOf[r]] = rowLink[r]
  /\ \A h \in Hash :
       \/ BookedAs[h] = NoOperation
       \/ \E r \in Row : HashOf[r] = h /\ Linked(r)

\* At most one linked row carries a hash, so it does not matter which one the
\* booking is read from.
LEMMA BookingsKnown == IInv => BookingFacts
<1> SUFFICES ASSUME IInv PROVE BookingFacts
  OBVIOUS
<1>1. rowLink \in [Row -> Operation \cup {NoOperation}]
  BY Columns, IInvParts
<1>2. ASSUME NEW r \in Row, NEW s \in Row, Linked(r), Linked(s),
             HashOf[r] = HashOf[s], HashOf[r] \in Hash
      PROVE  r = s
  BY <1>2, IInvParts, HashesFixFacts
     DEF LinksOK, LinkedIffConfirmed, OneConfirmedRowPerHash
<1>3. ASSUME NEW h \in Hash, NEW r \in RowsLinkedWith(h)
      PROVE  BookedAs[h] = rowLink[r]
  <2> DEFINE s == CHOOSE q \in RowsLinkedWith(h) : TRUE
  <2>1. s \in RowsLinkedWith(h)
    OBVIOUS
  <2>2. BookedAs[h] = rowLink[s]
    BY <1>3 DEF BookedAs
  <2>3. s = r
    BY <1>2, <1>3, <2>1 DEF RowsLinkedWith
  <2>4. QED
    BY <2>2, <2>3
<1>4. ASSUME NEW h \in Hash, RowsLinkedWith(h) = {}
      PROVE  BookedAs[h] = NoOperation
  BY <1>4 DEF BookedAs
<1>5. \A h \in Hash : BookedAs[h] \in Operation \cup {NoOperation}
  BY <1>1, <1>3, <1>4 DEF RowsLinkedWith
<1>6. BookedAs \in [Hash -> Operation \cup {NoOperation}]
  BY <1>5 DEF BookedAs
<1>7. QED
  BY <1>3, <1>4, <1>6 DEF BookingFacts, RowsLinkedWith

\* Which row a booking is read from is decided by the links alone.
LEMMA BookingsStay == UNCHANGED rowLink => BookedAs' = BookedAs
BY DEF BookedAs, RowsLinkedWith, Linked

\* Giving the rows in question to q changes the bookings of their hashes to q
\* and no other booking.
LEMMA LinkChange ==
  ASSUME IInv, IInv', NEW rows \in SUBSET Row,
         NEW q \in Operation \cup {NoOperation},
         q = NoOperation => \A r \in rows : Linked(r),
         rowLink' = [r \in Row |-> IF r \in rows THEN q ELSE rowLink[r]]
  PROVE  BookedAs' = [h \in Hash |-> IF \E r \in rows : HashOf[r] = h
                                     THEN q ELSE BookedAs[h]]
<1>1. BookingFacts
  BY BookingsKnown
<1>2. BookingFacts'
  BY BookingsKnown, PTL
<1>3. \A r \in rows : rowLink'[r] = q
  OBVIOUS
<1>4. \A r \in Row \ rows : rowLink'[r] = rowLink[r]
  OBVIOUS
<1>5. ASSUME NEW h \in Hash, NEW r \in rows, HashOf[r] = h
      PROVE  BookedAs'[h] = q
  <2>1. CASE q # NoOperation
    BY <1>2, <1>3, <1>5, <2>1 DEF BookingFacts, Linked
  <2>2. CASE q = NoOperation
    <3>1. Linked(r)
      BY <2>2
    <3>2. \A s \in Row : HashOf[s] = h /\ Linked(s) => s = r
      BY <1>5, <3>1, IInvParts, HashesFixFacts
         DEF LinksOK, LinkedIffConfirmed, OneConfirmedRowPerHash
    <3>3. \A s \in Row : HashOf[s] = h => rowLink'[s] = NoOperation
      BY <1>3, <1>4, <2>2, <3>2 DEF Linked
    <3>4. QED
      BY <1>2, <2>2, <3>3 DEF BookingFacts, Linked
  <2>3. QED
    BY <2>1, <2>2
<1>6. ASSUME NEW h \in Hash, \A r \in rows : HashOf[r] # h
      PROVE  BookedAs'[h] = BookedAs[h]
  <2>1. \A s \in Row : HashOf[s] = h => rowLink'[s] = rowLink[s]
    BY <1>4, <1>6
  <2>2. CASE \E s \in Row : HashOf[s] = h /\ Linked(s)
    BY <1>1, <1>2, <2>1, <2>2 DEF BookingFacts, Linked
  <2>3. CASE \A s \in Row : HashOf[s] = h => ~Linked(s)
    BY <1>1, <1>2, <2>1, <2>3 DEF BookingFacts, Linked
  <2>4. QED
    BY <2>2, <2>3
<1>7. BookedAs' = [h \in Hash |-> BookedAs'[h]]
  BY <1>2 DEF BookingFacts
<1>8. QED
  BY <1>5, <1>6, <1>7

-----------------------------------------------------------------------------
(* The commands.                                                            *)

\* A command that changes no link and no operation changes nothing here.
LEMMA ReviewingBooksNothing ==
  UNCHANGED <<rowLink, ledgerVars>> => Booking!Next
<1> SUFFICES ASSUME UNCHANGED <<rowLink, ledgerVars>> PROVE Booking!Next
  OBVIOUS
<1>1. BookedAs' = BookedAs
  BY BookingsStay
<1>2. KindOf' = KindOf
  BY DEF KindOf, Recorded, ledgerVars
<1>3. QED
  BY <1>1, <1>2 DEF Booking!Next, Booking!OtherCommand, Booking!vars

\* Changes of one operation's row of the ledger, as a change of its kind.
LEMMA KindChange ==
  ASSUME NEW o \in Operation, NEW k,
         \A p \in Operation \ {o} : /\ opStatus'[p] = opStatus[p]
                                    /\ opSource'[p] = opSource[p],
         KindOf'[o] = k
  PROVE  KindOf' = [KindOf EXCEPT ![o] = k]
<1>1. \A p \in Operation \ {o} : KindOf'[p] = KindOf[p]
  BY DEF KindOf, Recorded
<1>2. /\ KindOf = [p \in Operation |-> KindOf[p]]
      /\ KindOf' = [p \in Operation |-> KindOf'[p]]
  BY DEF KindOf
<1>3. QED
  BY <1>1, <1>2

\* A posting books the hashes of its rows, none of which was booked.
LEMMA PostingBooks ==
  ASSUME IInv, IInv', NEW rows \in SUBSET Row, rows # {}, NEW o \in Operation,
         NEW type, NEW entries, NEW key, NEW request,
         Post(o, "bank_pdf", type, entries, key, request),
         rowLink' = [r \in Row |-> IF r \in rows THEN o ELSE rowLink[r]],
         \A r \in rows : r \notin Unreadable /\ HashFree(r) /\ ~Linked(r)
  PROVE  Booking!Next
<1> DEFINE ts == {HashOf[r] : r \in rows}
<1>1. TypeOK /\ LinkedIffConfirmed
  BY IInvParts DEF LinksOK
<1>2. \A r \in rows : HashOf[r] \in Hash
  BY HashesFixFacts
<1>3. ts \in SUBSET Hash /\ ts # {}
  BY <1>2
<1>4. \A t \in ts : BookedAs[t] = NoOperation
  <2> SUFFICES ASSUME NEW r \in rows, NEW s \in Row,
                      HashOf[s] = HashOf[r], Linked(s)
               PROVE  FALSE
    BY <1>2, BookingsKnown DEF BookingFacts
  <2>1. s \in Row \ {r} /\ rowStatus[s] = "confirmed"
    BY <1>1 DEF LinkedIffConfirmed
  <2>2. QED
    BY <1>2, <2>1, HashesFixFacts DEF HashFree
<1>5. BookedAs' = [h \in Hash |-> IF \E r \in rows : HashOf[r] = h
                                  THEN o ELSE BookedAs[h]]
  BY LinkChange, NullsAreNotValues
<1>6. Booking!Book(ts, o)
  <2>1. \A h \in Hash : h \in ts <=> \E r \in rows : HashOf[r] = h
    OBVIOUS
  <2>2. QED
    BY <1>5, <2>1 DEF Booking!Book
<1>7. KindOf[o] = "unused" /\ KindOf' = [KindOf EXCEPT ![o] = "imported"]
  <2>1. /\ opStatus[o] = "unused"
        /\ opStatus'[o] = "confirmed" /\ opSource'[o] = "bank_pdf"
        /\ \A p \in Operation \ {o} : /\ opStatus'[p] = opStatus[p]
                                      /\ opSource'[p] = opSource[p]
    BY <1>1, Columns DEF Post
  <2>2. KindOf[o] = "unused" /\ KindOf'[o] = "imported"
    BY <2>1 DEF KindOf, Recorded
  <2>3. QED
    BY <2>1, <2>2, KindChange
<1>8. Booking!PostImported(o, ts)
  BY <1>3, <1>4, <1>6, <1>7
     DEF Booking!PostImported, Booking!Unbooked, Booking!Become
<1>9. QED
  BY <1>3, <1>8 DEF Booking!Next, Booking!Command

\* A link to a manual operation books the row's hash as it.
LEMMA LinkingAttaches ==
  ASSUME IInv, IInv', NEW r \in Row, NEW o \in Operation,
         LinkExistingTransfer(r, o) \/ LinkExistingOperation(r, o)
  PROVE  Booking!Next
<1>1. TypeOK /\ LinkedIffConfirmed
  BY IInvParts DEF LinksOK
<1>2. /\ opSource[o] = "manual" /\ opStatus[o] = "confirmed"
      /\ HashFree(r) /\ ~Linked(r) /\ r \notin Unreadable
      /\ UNCHANGED ledgerVars
      /\ LinkRows({r}, o)
  BY DEF LinkExistingTransfer, LinkExistingOperation, CanPostAsTransfer,
         ManualTransferCandidate, ManualIncomeExpenseCandidate
<1>3. HashOf[r] \in Hash
  BY <1>2, HashesFixFacts
<1>4. BookedAs[HashOf[r]] = NoOperation
  <2> SUFFICES ASSUME NEW s \in Row, HashOf[s] = HashOf[r], Linked(s)
               PROVE  FALSE
    BY <1>3, BookingsKnown DEF BookingFacts
  <2>1. s \in Row \ {r} /\ rowStatus[s] = "confirmed"
    BY <1>1, <1>2 DEF LinkedIffConfirmed
  <2>2. QED
    BY <1>2, <1>3, <2>1, HashesFixFacts DEF HashFree
<1>5. Booking!Book({HashOf[r]}, o)
  <2>1. BookedAs' = [h \in Hash |-> IF \E s \in {r} : HashOf[s] = h
                                    THEN o ELSE BookedAs[h]]
    <3> DEFINE rows == {r}
    <3>1. rowLink' = [s \in Row |-> IF s \in rows THEN o ELSE rowLink[s]]
      BY <1>2 DEF LinkRows
    <3>2. rows \in SUBSET Row
      OBVIOUS
    <3> HIDE DEF rows
    <3>3. BookedAs' = [h \in Hash |-> IF \E s \in rows : HashOf[s] = h
                                      THEN o ELSE BookedAs[h]]
      BY <3>1, <3>2, LinkChange, NullsAreNotValues
    <3>4. QED
      BY <3>3 DEF rows
  <2>2. QED
    BY <2>1 DEF Booking!Book
<1>6. KindOf[o] = "manual" /\ KindOf' = KindOf
  BY <1>2 DEF KindOf, Recorded, ledgerVars
<1>7. Booking!Attach(o, HashOf[r])
  BY <1>4, <1>5, <1>6 DEF Booking!Attach, Booking!Unbooked
<1>8. QED
  BY <1>3, <1>7 DEF Booking!Next, Booking!Command

\* Taking every row from an operation takes every hash booked as it.
LEMMA ReleaseAll ==
  ASSUME IInv, IInv', NEW o \in Operation, UnlinkRows(LinkedRows(o))
  PROVE  Booking!Book(Booking!Booked(o), NoOperation)
<1>1. BookingFacts
  BY BookingsKnown
<1>2. \A r \in LinkedRows(o) : r \in Row /\ Linked(r) /\ rowLink[r] = o
  BY NullsAreNotValues DEF LinkedRows, Linked
<1>3. BookedAs' = [h \in Hash |-> IF \E r \in LinkedRows(o) : HashOf[r] = h
                                  THEN NoOperation ELSE BookedAs[h]]
  <2>1. rowLink' = [r \in Row |-> IF r \in LinkedRows(o) THEN NoOperation
                                                       ELSE rowLink[r]]
    BY DEF UnlinkRows
  <2>2. LinkedRows(o) \in SUBSET Row
    BY DEF LinkedRows
  <2>3. QED
    BY <1>2, <2>1, <2>2, LinkChange
<1>4. ASSUME NEW h \in Hash
      PROVE  h \in Booking!Booked(o) <=> \E r \in LinkedRows(o) : HashOf[r] = h
  <2>1. ASSUME NEW r \in LinkedRows(o), HashOf[r] = h
        PROVE  BookedAs[h] = o
    BY <1>1, <1>2, <2>1 DEF BookingFacts
  <2>2. ASSUME BookedAs[h] = o
        PROVE  \E r \in LinkedRows(o) : HashOf[r] = h
    <3>1. PICK r \in Row : HashOf[r] = h /\ Linked(r)
      BY <1>1, <2>2, NullsAreNotValues DEF BookingFacts
    <3>2. r \in LinkedRows(o)
      BY <1>1, <2>2, <3>1 DEF BookingFacts, LinkedRows
    <3>3. QED
      BY <3>1, <3>2
  <2>3. QED
    BY <2>1, <2>2 DEF Booking!Booked
<1>5. QED
  BY <1>3, <1>4 DEF Booking!Book

\* Undoing an imported operation releases all it books; undoing a link to a
\* manual one releases one row's hash.
LEMMA UndoReleases ==
  ASSUME IInv, IInv', NEW r \in Row, UndoPosting(r)
  PROVE  Booking!Next
<1> DEFINE o == rowLink[r]
<1>1. TypeOK /\ BookingFacts
  BY IInvParts, BookingsKnown
<1>2. o \in Operation /\ opStatus[o] = "confirmed" /\ UNCHANGED opSource
  BY <1>1, Columns DEF UndoPosting, Linked
<1>3. CASE opSource[o] = "bank_pdf"
  <2>1. /\ UnlinkRows(LinkedRows(o))
        /\ opStatus' = [opStatus EXCEPT ![o] = "ignored"]
    BY <1>3 DEF UndoPosting, LinkedRows
  <2>2. KindOf[o] = "imported" /\ KindOf'[o] = "undone"
    BY <1>1, <1>2, <1>3, <2>1, Columns DEF KindOf, Recorded
  <2>3. KindOf' = [KindOf EXCEPT ![o] = "undone"]
    BY <1>1, <1>2, <2>1, <2>2, KindChange, Columns
  <2>4. Booking!UndoImported(o)
    BY <1>2, <2>1, <2>2, <2>3, ReleaseAll
       DEF Booking!UndoImported, Booking!Become
  <2>5. QED
    BY <1>2, <2>4 DEF Booking!Next, Booking!Command
<1>4. CASE opSource[o] # "bank_pdf"
  <2>1. /\ UnlinkRows({r}) /\ UNCHANGED opStatus
        /\ opSource[o] = "manual" /\ Linked(r)
    BY <1>4 DEF UndoPosting
  <2>2. KindOf[o] = "manual" /\ KindOf' = KindOf
    BY <1>2, <2>1 DEF KindOf, Recorded
  <2>3. BookedAs' = [h \in Hash |-> IF \E s \in {r} : HashOf[s] = h
                                    THEN NoOperation ELSE BookedAs[h]]
    <3> DEFINE rows == {r}
    <3>1. rowLink' = [s \in Row |-> IF s \in rows THEN NoOperation
                                                  ELSE rowLink[s]]
      BY <2>1 DEF UnlinkRows
    <3>2. rows \in SUBSET Row /\ \A s \in rows : Linked(s)
      BY <2>1
    <3> HIDE DEF rows
    <3>3. BookedAs' = [h \in Hash |-> IF \E s \in rows : HashOf[s] = h
                                      THEN NoOperation ELSE BookedAs[h]]
      BY <3>1, <3>2, LinkChange
    <3>4. QED
      BY <3>3 DEF rows
  <2>4. CASE HashOf[r] \in Hash
    <3>1. Booking!Book({HashOf[r]}, NoOperation)
      BY <2>3 DEF Booking!Book
    <3>2. HashOf[r] \in Booking!Booked(o)
      BY <1>1, <2>1, <2>4 DEF Booking!Booked, BookingFacts
    <3>3. Booking!Detach(o, HashOf[r])
      BY <2>2, <3>1, <3>2 DEF Booking!Detach
    <3>4. QED
      BY <1>2, <2>4, <3>3 DEF Booking!Next, Booking!Command
  <2>5. CASE HashOf[r] \notin Hash
    <3>1. BookedAs' = BookedAs
      BY <1>1, <2>3, <2>5 DEF BookingFacts
    <3>2. QED
      BY <2>2, <3>1 DEF Booking!Next, Booking!OtherCommand, Booking!vars
  <2>6. QED
    BY <2>4, <2>5
<1>5. QED
  BY <1>3, <1>4

\* A deletion releases all the operation books.
LEMMA DeletionReleases ==
  ASSUME IInv, IInv', NEW o \in Operation, DeleteManual(o)
  PROVE  Booking!Next
<1>1. TypeOK
  BY IInvParts
<1>2. /\ UnlinkRows(LinkedRows(o))
      /\ opSource[o] = "manual" /\ opStatus[o] = "ignored"
      /\ opStatus' = [opStatus EXCEPT ![o] = "deleted"]
      /\ UNCHANGED opSource
  BY DEF DeleteManual, Erase, LinkedRows
<1>3. KindOf[o] = "manual" /\ KindOf'[o] = "deleted"
  BY <1>1, <1>2, Columns DEF KindOf, Recorded
<1>4. KindOf' = [KindOf EXCEPT ![o] = "deleted"]
  BY <1>1, <1>2, <1>3, KindChange, Columns
<1>5. Booking!DeleteManual(o)
  BY <1>2, <1>3, <1>4, ReleaseAll DEF Booking!DeleteManual, Booking!Become
<1>6. QED
  BY <1>5 DEF Booking!Next, Booking!Command

\* The other manual commands record an operation or change nothing here.
LEMMA ManualCommandsBook ==
  ASSUME IInv, ManualCommand, UNCHANGED reviewVars
  PROVE  Booking!Next
<1>1. TypeOK
  BY IInvParts
<1>2. BookedAs' = BookedAs
  BY BookingsStay DEF reviewVars
<1>3. ASSUME NEW o \in Operation, NEW type, NEW entries, NEW key, NEW request,
             Post(o, "manual", type, entries, key, request)
      PROVE  Booking!Next
  <2>1. /\ opStatus[o] = "unused"
        /\ opStatus'[o] = "confirmed" /\ opSource'[o] = "manual"
        /\ \A p \in Operation \ {o} : /\ opStatus'[p] = opStatus[p]
                                      /\ opSource'[p] = opSource[p]
    BY <1>1, <1>3, Columns DEF Post
  <2>2. KindOf[o] = "unused" /\ KindOf'[o] = "manual"
    BY <2>1 DEF KindOf, Recorded
  <2>3. KindOf' = [KindOf EXCEPT ![o] = "manual"]
    BY <2>1, <2>2, KindChange
  <2>4. QED
    BY <1>2, <2>2, <2>3
       DEF Booking!Next, Booking!Command, Booking!RecordManual, Booking!Become
<1>4. ASSUME NEW o \in Operation, NEW type, NEW entries, Replace(o, type, entries)
      PROVE  Booking!Next
  <2>1. KindOf' = KindOf
    BY <1>4 DEF KindOf, Recorded, Replace
  <2>2. QED
    BY <1>2, <2>1 DEF Booking!Next, Booking!OtherCommand, Booking!vars
<1>5. ASSUME NEW o \in Operation, Cancel(o) \/ Restore(o)
      PROVE  Booking!Next
  <2>1. /\ opSource[o] = "manual" /\ UNCHANGED opSource
        /\ opStatus[o] \in {"confirmed", "ignored"}
        /\ opStatus'[o] \in {"confirmed", "ignored"}
        /\ \A p \in Operation \ {o} : opStatus'[p] = opStatus[p]
    BY <1>1, <1>5, Columns DEF Cancel, Restore
  <2>2. KindOf[o] = "manual" /\ KindOf'[o] = "manual"
    BY <2>1 DEF KindOf, Recorded
  <2>3. KindOf' = [KindOf EXCEPT ![o] = "manual"]
    BY <2>1, <2>2, KindChange
  <2>4. KindOf' = KindOf
    BY <2>2, <2>3 DEF KindOf
  <2>5. QED
    BY <1>2, <2>4 DEF Booking!Next, Booking!OtherCommand, Booking!vars
<1>6. QED
  BY <1>3, <1>4, <1>5
     DEF ManualCommand, CreateIncomeExpense, UpdateAsIncomeExpense,
         CreateTransfer, UpdateAsTransfer

\* Every command on a row.
LEMMA ReviewCommandsBook ==
  ASSUME IInv, IInv', ReviewCommand
  PROVE  Booking!Next
<1>1. TypeOK
  BY IInvParts
<1>2. ASSUME NEW r \in Row, NEW o \in Operation, NEW key, NEW remember, NEW matched,
             Confirm(r, o, key, remember, matched)
      PROVE  Booking!Next
  <2>1. rowLink' = [s \in Row |-> IF s \in {r} THEN o ELSE rowLink[s]]
    BY <1>1, <1>2, Columns DEF Confirm
  <2>2. /\ Post(o, "bank_pdf", IF AmountOf[r] > 0 THEN "income" ELSE "expense",
                {Entry(AccountOf(r), AmountOf[r])}, key, ConfirmRequest(r))
        /\ r \notin Unreadable /\ HashFree(r) /\ ~Linked(r)
    BY <1>2 DEF Confirm
  <2>3. QED
    BY <2>1, <2>2, PostingBooks
<1>3. ASSUME NEW r \in Row, NEW account, NEW o \in Operation, NEW key,
             PostNewTransfer(r, account, o, key)
      PROVE  Booking!Next
  <2>1. /\ Post(o, "bank_pdf", "transfer", NewTransferEntries(r, account),
                key, NewTransferRequest(r, account))
        /\ r \notin Unreadable /\ HashFree(r) /\ ~Linked(r)
        /\ rowLink' = [s \in Row |-> IF s \in {r} THEN o ELSE rowLink[s]]
    BY <1>3 DEF PostNewTransfer, CanPostAsTransfer, LinkRows
  <2>2. QED
    BY <2>1, PostingBooks
<1>4. ASSUME NEW r \in Row, NEW m \in Row, NEW o \in Operation, NEW key,
             PostMatchedTransfer(r, m, o, key)
      PROVE  Booking!Next
  <2>1. /\ Post(o, "bank_pdf", "transfer",
                {Entry(AccountOf(r), AmountOf[r]), Entry(AccountOf(m), AmountOf[m])},
                key, MatchRequest(r, m))
        /\ r \notin Unreadable /\ HashFree(r) /\ ~Linked(r)
        /\ m \notin Unreadable /\ HashFree(m) /\ ~Linked(m)
        /\ rowLink' = [s \in Row |-> IF s \in {r, m} THEN o ELSE rowLink[s]]
    BY <1>4 DEF PostMatchedTransfer, CanPostAsTransfer, TransferCandidates, LinkRows
  <2>2. QED
    BY <2>1, PostingBooks
<1>5. ASSUME NEW r \in Row, NEW action, ChangeLifecycle(r, action)
      PROVE  Booking!Next
  BY <1>5, ReviewingBooksNothing DEF ChangeLifecycle
<1>6. QED
  BY <1>2, <1>3, <1>4, <1>5, LinkingAttaches, UndoReleases DEF ReviewCommand

\* No command on a document books or releases anything.
LEMMA DocumentCommandsBookNothing == DocumentCommand => Booking!Next
BY ReviewingBooksNothing
   DEF DocumentCommand, ImportParsed, ImportMapped, CreateRows, ApplyRules,
       IgnoreDocument, DeleteDocument

\* Import review keeps the promise of StatementBooking: every step changes the
\* bookings as one of the promised commands does.
THEOREM BookingRefined == Spec => StatementsBooked
<1>1. Init => Booking!Init
  BY DEF Init, LedgerInit, Booking!Init, BookedAs, RowsLinkedWith, Linked,
         KindOf, Recorded
<1>2. IInv /\ IInv' /\ [Next]_vars => Booking!Next
  <2> SUFFICES ASSUME IInv, IInv', [Next]_vars PROVE Booking!Next
    OBVIOUS
  <2>1. CASE UNCHANGED vars
    BY <2>1, ReviewingBooksNothing DEF vars, reviewVars
  <2>2. CASE ReviewCommand
    BY <2>2, ReviewCommandsBook
  <2>3. CASE DocumentCommand
    BY <2>3, DocumentCommandsBookNothing
  <2>4. CASE LedgerCommand
    BY <2>4, ManualCommandsBook, DeletionReleases DEF LedgerCommand
  <2>5. QED
    BY <2>1, <2>2, <2>3, <2>4 DEF Next
<1>3. IInv /\ IInv' /\ [Next]_vars => [Booking!Next]_Booking!vars
  BY <1>2
<1>4. QED
  BY <1>1, <1>3, InductiveInvariant, PTL DEF Spec, StatementsBooked, Booking!Spec

=============================================================================
