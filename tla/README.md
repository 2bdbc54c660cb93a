# Formal models of booker-tee

TLA+ models of the back end of booker-tee (`src/src/app`, FastAPI, SQLAlchemy,
PostgreSQL): a shared ledger that is filled by hand, from bank statements and
from a Telegram bot. TLC checks the models on small instances; TLAPS proves what
matters most for every instance. Paths below are relative to `src/`.

Contents: 1 the system, 2 the modules, 3 from code to model, 4 the runs,
5 fairness, 6 the proofs, 7 what the models found, 8 what is left out, 9 the plan.

## 1. The system

All state is in PostgreSQL (READ COMMITTED) except uploaded files, and the memory
of the polling worker. Two things shape everything else:

* **The workspace lock.** A mutating API request locks its workspace row in
  `get_api_request_context` (`src/app/api/dependencies.py:114`) and holds it until
  its first commit; chat commands do so in `require_bound_workspace`. A command
  that commits once is therefore atomic with respect to every other command of
  the workspace. What is not: uploads, which commit four times; chat handlers that
  list the categories, which commits in the middle; what a request reads before
  the lock (session, membership, bindings of a chat); commands on an account, which
  lock the user instead; cleaning and the bookkeeping of the webhook.
* **`expire_on_commit=False`** (`src/app/db/session.py`). An object read before a
  commit keeps its old values after it; whatever a request checks against such
  an object is checked against the past.

### Inventory

| Component | State | Operations | What is hard | Correct means |
|---|---|---|---|---|
| Ledger (`features/ledger`) | operations, money entries, versions, idempotency keys | create, edit, cancel, restore, delete; postings for the other components | edits that change the type; retried keys; operations other tables refer to | entries fit the type, transfers balance, one operation per key |
| Import review (`features/import_review`) | statement rows and their link to an operation, document status | confirm, post as transfer (new, matched, existing), link, undo, lifecycle, rules | commands on rows of two documents; undo of what another command did; duplicates across statements | money counted once; confirmed exactly while linked; document status agrees with its rows |
| Import documents (`features/imports/documents`) | document, parse attempts, file in the storage | upload, ignore, delete, retention cleanup | four commits, a lock-free parse, crashes between file system and database, key reuse | failed documents have no rows; files needed are there; all files expire |
| Statement rows (`features/imports/statements`) | rows, dedupe hashes, fingerprints | the end of a parse, duplicate classification | overlapping periods | a known row is a duplicate |
| Statement mapping (`features/imports/mapping`) | mapping templates, executions by key | preview, import of mapped rows, replacement of earlier rows | re-import over reviewed rows | linked rows survive |
| Statement parsers, parser sidecar | none; a process behind a socket | extract | time-outs, garbage | it answers or fails |
| Transaction rules (`features/transaction_rules`) | rules, suggestions on rows | create, apply, learn from a confirmation | re-application over reviewed rows | only rows in review change |
| Telegram webhook | `telegram_webhook_updates`: status, attempts, lease | claim, complete, fail | repeated deliveries, dead and slow requests | no update lost, attempts justified |
| Telegram polling | offset and seen set in memory | get updates, handle, restart | crashes | no update lost, order of first effects |
| Chat conversations (`features/chat_integrations/use_cases`) | one row per state of a dialog, named by the token in its buttons | start, answer, correct, confirm, upload; expiry, scrubbing of payloads | old buttons, repeated deliveries, commits in the middle of a handler | one open state and one effect per dialog |
| Chat identity and workspace | link codes, bindings of chats, open choices | issue a code, link, switch, revoke with the access | bindings are read before the lock; closing of an account takes another lock | a chat acts for members only |
| Chat notifications | deliveries by document and binding | send | sent before committed | repeated only after a crash |
| Workspaces (`features/workspaces`) | workspaces, members, roles, invitations | create, invite, accept, change role, disable, leave, hand over, deactivate, restore | the actor's role is read before the lock | one owner; only the invited get in |
| Users and sessions (`features/users`) | account, password, mailed links, sessions with rotating tokens | sign up, sign in, refresh, change, reset, revoke, close | sign-in without a lock; objects older than the lock; a token lost on its way | an old password opens nothing; honest clients stay signed in |
| Debts (`features/debts`) | debts with an account of their own, payments and their two operations | create, pay, undo a payment, archive, restore, delete | undo out of order; manual commands on the same accounts; history that no longer counts | what is owed is explained by the payments; payments are undone whole |
| API request context | none | authenticate, lock, check again | session and membership are read before the lock | checks hold when the command runs |
| Categories (`features/categories`) | categories of a workspace, defaults included | seed, create, rename, archive, delete | defaults are seeded by reads, without the lock | names are unique, references stand |
| Accounts and properties | reference data | create, rename, archive, change of currency | rows written long after the currency was read | posted money keeps its currency |
| Reports and dashboard (`features/reports`) | none | read | the same figure computed by the database and in memory | both agree, and with the balances |
| Frontend, migrations, scripts | client state, schema | — | none for the models | — |

How they interact: uploads and mappings create rows; review commands turn rows
into operations through the ledger's posting service; deleting a manual operation
puts the rows linked to it back into review; rules are applied at the end of an
import, after a confirmation that remembers a rule, and on request; the chat
calls the same application services as the API; debts post operations of source
`debt`; deactivating a workspace shuts out every command, ends its invitations and
the bindings of its chats, and is looked at again by a running upload; losing a
membership or closing an account ends bindings, choices, codes and sessions; what
any of them posts refers to categories, which cannot be deleted under it.

The hazards — every place where a test would hardly reach what can go wrong —
are in `PROJECT.json`, each at its line, with the properties that watch it, or the
reason why none does.

## 2. The modules

| Module | Models | Composition |
|---|---|---|
| `Ledger` | operations, entries, keys, manual commands | extended by `ImportReview` and `Debts` |
| `ImportReview` | rows, documents, review commands, imports, rules, with the ledger | `Next` of the composed system |
| `StatementBooking` | abstract: which printed transaction is booked as which operation | what `ImportReview` promises |
| `ImportBooking` | the refinement mapping, `INSTANCE StatementBooking WITH …` | extends `ImportReview` |
| `Debts` | debts, payments, the manual commands that may reach a debt, with the ledger | `Next` of the composed system |
| `Reports` | income, expense and balances, by both ways of the code | extends `Debts` |
| `StatementUpload` | one Idempotency-Key: uploads, file storage, cleaning, deactivation | its `Complete` is `ImportReview`'s `ImportParsed`, seen from the upload |
| `Catalog` | categories, transaction rules, the currency of an account, and what refers to them | its operations and rows are those of `ImportReview`, seen from the reference data |
| `WorkspaceAccess` | members, roles, ownership, invitations, sessions' workspaces, requests | |
| `UserSessions` | one account: password, links, sessions, tokens | its sessions are those of `WorkspaceAccess`, seen from the account |
| `ChatIdentity` | codes, bindings, choices, handlers of updates | takes up the endings of access of `WorkspaceAccess` |
| `ChatConversation` | dialogs, handlers that commit in the middle, notices | its handlers run in the chats of `ChatIdentity` |
| `TelegramWebhook` | deliveries, requests, leases | its `Apply` stands for any chat command |
| `TelegramPolling` | the polling worker | same |

`MC…` modules hold the instances for TLC (`MCImportReview` extends `ImportBooking`,
`MCDebts` extends `Reports`); `StatementUpload`, `TelegramWebhook` and
`TelegramPolling` need none: their configurations give every constant a value.
`…_proofs` modules hold the theorems: of `ImportReview` (with the refinement), `Debts`,
`WorkspaceAccess`, `UserSessions`, `ChatIdentity`, `ChatConversation` and `Catalog` in a
module of their own, of `StatementUpload`, `TelegramWebhook` and `TelegramPolling`
together in `Retries_proofs`. The names of these three do not meet for that reason:
what other modules call `Init`, `Next`, `Spec` and `Consistent` is `UploadInit`,
`WebhookNext`, `PollingConsistent`… in them.

## 3. From code to model

`PROJECT.json` maps each definition to its lines. What a reader should know beside it:

**Ledger, ImportReview.** One function per column (`opStatus`, `rowLink`,
`docStatus`…) over the identifiers a history may use. A command is one action,
from its guards to the document refresh it ends with, because it runs under the
workspace lock and commits once. A command that is refused (wrong status, stale
`expected_version`, conflict of keys) or answered as a replay changes nothing and
has no action. `MoveDocument` keeps the transition table as a *guard*: a move the
table does not have rolls the whole command back. Undo and deletion assign the
status directly, as the code does, and do not go through the table. A row
keeps its document, amount, hash and fingerprint for life, so these are
constants; `HashesFixFacts` says what `build_dedupe_hash` guarantees (equal hashes,
equal account and amount). A dedupe hash is compared across documents
(`HashFree`, `Known`), a fingerprint only marks possible duplicates.
Rules are abstracted to the set of rows they match, chosen freely on every
application. An operation's `opRequest` is what its fingerprint hashes and its
import metadata records: the command, its row, the matched row or account.

**Debts.** A debt stands for its account and its creation key, a payment for its row
and key, so a repeated key has no step. `debtState` is `is_active` together with
the existence of the row. A balance is computed as the code does, the initial
balance plus the confirmed entries, and `SignKept` is the refusal of
`DebtPolicy.ensure_balance`: a command that reads a balance of the wrong sign fails.
`PostDebt` writes all postings of one command at once; their identifiers are new.
`ManualStep` takes the ledger's commands under the guards of
`LedgerReferenceResolver`: expenses on an active credit card, transfers between
ordinary accounts; cancelling, restoring and deleting look at no account.
`ReversePayment` looks at no debt, so it also undoes a payment of an archived one.

**StatementUpload.** All requests carry one key, so there is one document
identifier (`uuid5` of workspace and key). `pc` names the place between two
commits, `known` the document status the request last read; `Complete` checks the
transition against `known` and writes the table, which is what a session that
does not expire its objects does. `CompleteReportsError` and `UploadReconciled`
are commits that persist and report an error. `Stop` is the end of a request at
any place: a crash, or an exception that changes nothing more. The parse itself
is a choice of outcome. `old` stands for "past the retention cutoff".

**TelegramWebhook.** A worker is one request being served. The claim, the
command's commit and the final mark (`MarkCompleted`, `Fail`) are transactions of their own. `leased` holds
the updates claimed less than the lease ago. `awaiting` is Telegram's side: one
open request per update, given up on a time-out. `mark_completed` and
`mark_failed` look at no status and no owner, as in the code. `applied`,
`failures`, `expiries` and `finished` are history variables.

**TelegramPolling.** `lastOffset` and `seen` are the worker's memory; a failed
update raises out of `run_forever`, so a failure is a crash (`WorkerFails`) and memory
starts empty. Telegram drops what lies below the offset it is sent.

**StatementBooking.** One function `booking` from transactions to operations and one
`kind` per operation. A transaction is a dedupe hash; it is booked as what the linked
row with that hash is linked to, so the mapping is defined only because no two rows of
a hash are linked, which `IInv` says. Its steps are booking an imported operation
with everything it consists of, taking all of it back, and giving or taking
transactions to and from an operation the user made. Parsing, rules, ignoring and
documents are stuttering.

**Reports.** The web adds up entries in SQL, chat and category pages add up operations in
Python. Both are operators over the state of `Debts`; there is no action.

**WorkspaceAccess.** `Resolve` is authentication and the read of the membership, without
a lock; each command is a second step under the lock of its workspace. The SQLAlchemy
session returns the objects it has, so the role a command checks in the *current*
workspace is the one `Resolve` read (`SeenRole`), in any other workspace a fresh one.
A command whose workspace is not active by then is refused and changes nothing.
`CloseAccount` holds the row of the account, not of a workspace.

**UserSessions.** Passwords and tokens are numbered in the order they are made.
`VerifyPassword` and `SignIn` are the two halves of a sign-in, `Authenticate` and a
command those of a request; `Rotated` writes the previous token from the stale object and
everything else into the locked row. `late`, `skewed` and `reused` record, for
the properties, that a session was added after its password was replaced, that its
rotation was written from a stale object, and that the reuse of the token current just
before ended it.

**ChatIdentity.** A handler is in the stages *read* (bindings known, nothing locked),
*acting* (workspace locked), *switching* (target locked too). Commands on a workspace are
enabled while nobody holds it; the closing of an account always is.

**ChatConversation.** Only open states are kept. A press of any button at any time is one
step; a state that is not open has none. `ElsewhereDecided` is a decision of another member
on the same row, one of those the review allows for its status (`Decisions`). Handlers that
upload or list categories stop after their commit and go on later (`Handler`), and any of them
may be past the commit together: two presses of one button, or two accepted suggestions for
twin rows, both checked before either is posted. A handler that asks something goes on
whatever became of the state it read, and `split` counts, by dialog, how often that one had been
left; `splits` counts all of them. One that posts claims the state first: this fails when it was
consumed, not when it ran out (`expired`), and who updates a claimed row waits for the
posting's commit (`Claimed`; a press that read it before is put in front of the posting, with
the same outcome). A state has a token, as in the code, where it is random and unique; here the
tokens are few (`Token`) and a new state takes one that tells it from every state that is
open or in a handler (`Distinct`). A notice is sent before its delivery is recorded.
`MaxThreads`, `MaxCrashes`, `MaxElsewhere` bound the histories; `Room` keeps, of the bound on
threads, one for each handler whose state was left.

**Catalog.** `ReadDirectory` and `WriteDefaults` are the two halves of seeding, with
anything in between. Rules are kept in the order of their creation; `SelectBest` and
`Score` choose as the code does. A rule asks for an account or amounts (`Narrow`) or
takes any row. `money` records the currency operations and rows were written in.

## 4. The runs

| Run | Instance | Checks | Shows |
|---|---|---|---|
| `overlap` | one account, two statements that repeat one transaction, three operations, two keys | `Consistent`, `MoneyCountedOnce`, `StatementsBooked` | no history of imports, re-imports, confirmations, links, undos and deletions counts money twice or strands a row; the whole implements `StatementBooking` |
| `transfer` | two accounts, one statement each, the two sides of a transfer, two operations, two keys | `Consistent`, `StatementMoneyPosted`, `ImportedOperationsFinal` | the three ways to book a transfer and their undo agree with the statements |
| `debts` | an ordinary account, money lent, a credit card, three operations, two payments, amounts 1 and 2 | `IInv`, `LoanBalanceExplained`, `DeletedDebtForgotten`, `ReportsAgree` | payments, undo, archiving, deletion and manual commands beside them keep debts, ledger and reports in agreement |
| `upload` | two requests, the key comes back after a deletion | `UploadConsistent`, `SourceKeptWhileNeeded`, `NoRowsWhileInactive`, `FilesExpire` | failures and errors at every commit leave a consistent document; no file stays for ever |
| `catalog` | three categories, two rules, one row, one operation, two currencies | `Consistent`, `ActiveRulesUsable`, `OnlySeededTwice`, `BestRuleChosen` | references stand while defaults are seeded without a lock |
| `access` | two users, workspaces, sessions, requests and invitations; two members at most | `Consistent`, `OneOwner`, `SessionAmongOwn`, `AdmittedByInvitation` | rights read before the lock do not break ownership, roles or invitations |
| `sessions` | two sessions, two requests, three passwords, three tokens | `Consistent`, `OldPasswordEnds`, `ReuseJustified`, `EndIsFinal` | what a password change, a reset and a closing end stays ended |
| `identity` | two users, workspaces, chats and handlers, two codes | `Consistent`, `AmbiguousOnlyByTwoCodes`, `SwitchKeepsUser`, no deadlock | a chat only ever acts for a member |
| `chat` | two dialogs, two rows of one hash, two handlers, one crash, one decision elsewhere | `Consistent`, `OneOpenState`, `OneEffectPerDialog`, `PostedOnce`, `FileForgotten` | buttons pressed at any time and handlers cut in two take effect once |
| `webhook` | one update, three requests, three faults | `AcknowledgedOnlyIfApplied`, `WebhookConsistent`, `EventuallyAcknowledged`, `CompletedRepeatsJustified` | leases and retries, safety and liveness |
| `polling` | four updates, three crashes | `PollingConsistent`, `EventuallyHandled` | the offset may move before the work is done |
| `relink` | two users and workspaces, one chat, one handler, two codes | `LiveCodeLinks`, violated | see 7 |

`Consistent` (with a prefix where the module's name is given with it) is the type invariant
of a module together with the agreements between its tables:

| Module | `Consistent` beside `TypeOK` |
|---|---|
| `ImportReview` | `LinkedIffConfirmed`, `ImportedOperationBacked`, `DocumentStatusAgrees`, … (`IInv`), `EntriesFitType`, `OneOperationPerKey` |
| `StatementUpload` (`UploadConsistent`) | `RowsOnlyInParsedDocument` |
| `Catalog` | `ReferencesStand`, `CurrencyKept` |
| `WorkspaceAccess` | `OneOpenInvitation`, `InvitationsEndWithWorkspace` |
| `UserSessions` | `ResetLinksCurrent`, `SessionsVerified` |
| `ChatIdentity` | `BindingsOfMembers`, `SelectionsOfMembers`, `OneUsableCode` |
| `ChatConversation` | `PayloadComplete`, `RuleAfterBooking`, `NoticeRepeatedOnlyIfLost` |
| `TelegramWebhook` (`WebhookConsistent`) | `AttemptsJustified`, `OneHandlerPerLease` |
| `TelegramPolling` (`PollingConsistent`) | `ConfirmedOnlyIfApplied`, `RepeatsJustified`, `FirstEffectsInOrder` |

Why the bounds are enough to meet the interesting cases. `ImportReview`: a conflict
takes two rows (equal hash, or the two sides of a transfer) and two documents.
Three operations are the two that could count one transaction and a manual one
beside them; an undone operation keeps its identifier, so a behaviour has at most
three postings. Two keys are the key of a command and another one. `Debts`: three
operations are an opening transfer with a payment of two operations, or two payments
of one each with a manual expense; amounts 1 and 2 let a payment be partial, exact or
too large. `StatementUpload`: one request is interleaved with every command beside it;
the second makes replacement and late steps possible. `TelegramWebhook`: three requests
for one update are the owner, the one that took over and one more after the lease of
the second; three faults let each of them fail. `Catalog`: two slots beside the system
category are a category and the one it collides with; two rules are a better and a
worse one, and `BestRuleChosen` speaks of every choice of matching and narrow rules.
`WorkspaceAccess`: every conflict is between two members of one workspace, or one
member in two; two requests are one that has read and one that changes what it read.
`UserSessions`: a session that acts and one that is ended by it; three passwords are the
one replaced, the one that replaces it and a second replacement; three tokens are the
current, the previous and an older one. `ChatIdentity`: two updates in flight, in one
chat or two; two codes are what an ambiguous chat takes. `ChatConversation`: two
dialogs over the same two rows, and two handlers that have committed: two presses of one
button of one dialog, which then splits, or one press for each of two twin rows. Two threads
are what either takes; splits beside a second dialog are beyond this instance, and in the
theorems. `Room` leaves out only that a state is left when the bound has no thread for who
holds it: it could do nothing any more but give up, which it may do before the state is left,
and such histories made up nearly all of the states. Three tokens, one for an open state and
one for each handler, never leave a step without a new state (with two, histories are
missing; a fourth adds none).
Where a module has proofs, its theorems carry the properties beyond every bound.

`Operation`, `Key`, `Payment`, `User`, `Session`… are finite sets of identifiers,
`ManualAmount`, `MaxMembers`, `MaxCodes`, `MaxPasswords`, `MaxTokens`, `MaxThreads`,
`MaxCrashes`, `MaxElsewhere`, `Token`, `MaxFaults`, `MaxUpdate`, `Request`, `Worker` and `Handler`
are bounds; nothing else is (`MaxMembers` is one in the code too). Interchangeable
identifiers are declared as `SYMMETRY`, only in runs without liveness properties.

Deadlock is checked in `identity` and `relink`, where somebody can always act. The other
systems may stop: no rows left to import and no identifiers left, requests all
done, updates all handled, bounds of histories reached.

Each checked property has a mutant in its module, a variant of one definition as
a plausible bug would make it (`\* Mutant:` comments); TLC finds the property
violated when the mutant takes the definition's place.

## 5. Fairness

* `StatementUpload`: weak fairness of `GrowOld` and `Cleanup` per file. Time
  passes; the cleanup is the service `upload-cleanup` of `compose.production.yaml`, an
  hourly loop that is restarted when it fails. Nothing is assumed of requests: they may stop anywhere.
* `ChatConversation`: weak fairness of the lapse of open upload states (half an hour after
  they were made) and of `ScrubPayloads`, the part of the same service that clears payloads of
  dialogs that are over. Nothing is assumed of members or handlers.
* `TelegramWebhook`: Telegram repeats unacknowledged updates (`Deliver`), leases run
  out (`Expire`), and a request that neither fails nor dies goes on (`Progress`).
  Faults are bounded by `MaxFaults` and are not fair; time-outs are neither bounded
  nor fair, so the liveness property also covers a Telegram that never waits.
* `TelegramPolling`: the worker loops for ever (`run_forever`) and somebody starts it again
  when it dies. It is the local mode and no service of the repository restarts it, so
  the restart is an assumption; crashes are bounded by `MaxCrashes`.
* The others have none. Users need never press a button, so they promise no progress.

## 6. The proofs

`ImportReview_proofs` proves for every set of operations, accounts, documents,
rows, hashes and keys:

| Theorem | States |
|---|---|
| `TypeCorrect` | `Spec => []TypeOK` |
| `InductiveInvariant` | `Spec => []IInv` |
| `RowsLinkedIffConfirmed` | `Spec => []LinkedIffConfirmed` |
| `ImportedOperationsBacked` | `Spec => []ImportedOperationBacked` |
| `DocumentsAgree` | `Spec => []DocumentStatusAgrees` |
| `NoDoubleCount` | `Spec => []MoneyCountedOnce` |
| `StatementsPosted` | `Spec => []StatementMoneyPosted` |
| `LinkedRowsStay` | `Spec => LinkedRowsPreserved` |
| `ImportedStayFinal` | `Spec => ImportedOperationsFinal` |
| `EntriesAlwaysFit` | `Spec => []EntriesFitType` |
| `KeysStayUnique` | `Spec => []OneOperationPerKey` |
| `TablesConsistent` | `Spec => []Consistent` |

*Assumptions*: `AccountsHaveCurrency`, `ManualAmountsPositive`, `NoKeyIsNoKey` (Ledger),
`RowsBelongToDocuments`, `HashesFixFacts`, `NullsAreNotValues` (ImportReview). TLC
evaluates them on every run.

*Argument*. `MoneyCountedOnce` speaks of operations, but the guard that protects it
(`HashFree`) speaks of rows: no other row with the hash is confirmed. The bridge is
`IInv`: a row is confirmed exactly while linked (`LinkedIffConfirmed`), a counting
imported operation has exactly the rows of its request linked
(`ImportedOperationBacked`), hence an operation that counts for a row is the one the
row is linked to, and at most one row per hash is confirmed
(`OneConfirmedRowPerHash`). `RequestRowsPosted` keeps the entries of imported
operations equal to what their rows print and `RowsHaveDocuments` keeps new imports
away from linked rows. The proof that `Next` preserves `IInv` has one lemma per kind
of step (post, link, review, unlink), used by one lemma per command, each split into
the part about links and the part about documents. `EntriesFitType` and
`OneOperationPerKey` are inductive with `TypeOK` alone.

The same module proves, from the same assumptions, that `ImportReview` implements
`StatementBooking`:

| Theorem | States |
|---|---|
| `BookingRefined` | `Spec => StatementsBooked` |

*Argument*. Under `IInv` at most one row of a hash is linked, so `BookedAs` is the link of
that row whichever is chosen (`CHOOSE` disappears). Every command is then one of three
kinds: it changes no link, it links the rows of one operation, or it takes rows from
one operation; one lemma per kind maps it to the abstract step, and for an imported
operation `ImportedOperationBacked` says that the rows are all of them.

`Debts_proofs` proves for every set of debts, payments and operations and every finite set
of accounts, about `Debts` and `Reports`:

| Theorem | States |
|---|---|
| `DebtTypeCorrect` | `Spec => []TypeOK` |
| `PaymentsAreWhole` | `Spec => []PaymentsWhole` |
| `DeletedDebtsForgotten` | `Spec => []DeletedDebtForgotten` |
| `LoanBalancesExplained` | `Spec => []LoanBalanceExplained` |
| `TheReportsAgree` | `Spec => []ReportsAgree` |
| `OperationsFit` | `Spec => []EntriesFitType` |
| `DebtInvariant` | `Spec => []IInv` |

*Assumptions*: `DebtAccountsAreAccounts`, `NoDebtIsNoAccount`, `NoOperationIsNone`,
those of `Ledger` and, because `ReportsAgree` adds up balances, `AccountsFinite`. *Argument
for payments and deletions*. Undoing a payment must not touch the operations of
another one, and deleting a debt removes an operation of source `debt`, which must not
be a payment's. The invariant says both: operations of different payments are disjoint and
those of one payment move no other debt's money (`PaymentsApart`), so an operation of
a payment on the deleted debt would make `Payments(d)` non-empty. `DebtsStand` says that
payments and entries refer to existing debts only, which is what a deletion has to
keep. Manual commands change no operation of source `debt` (`ManualStepFacts`). This part of
the invariant is `PaymentInv`.

*Argument for the loans*. What is owed is a sum over the confirmed operations, what is repaid
a sum over the payments that stand. A fold over a set says nothing to a prover, so the
module first shows that the folds of the model are sums of a function over a finite set
(`SumOver`): the sum of the empty set is 0, and one element more adds its term. Facts about
all finite sets follow by taking the least counterexample (`SubsetInduction`). What the
sums range over is finite for every value of the constants because a step posts two
operations at most and records one payment (`FinitelyMany`, part of the invariant). A sum
is then followed over a step: only the terms of the operations and of the payment
the step touches change. For the terms to cancel, the principal of a payment must hold exactly
the two entries it repaid with (`PrincipalsRepay`) and its interest none on a debt, and
nothing else may move a loan: an operation with an entry on a loan is of source `debt`, and
moves one debt at most (`OperationsSound`). Manual commands may spend with a credit card, so
`Loan` leaves the cards out. `IInv` is all of this with `LoanBalanceExplained`.

*Argument for the reports*. The entries shown are the union of the entries of the operations
listed, and what an operation of one type adds by its entries is what it adds by its signed
total: an income or expense has one entry, of the sign of its type, and a transfer is not
shown (`EntriesFitType`). The change of all balances is a table, accounts by operations,
summed by rows; summed by columns (`SumSwap`) a transfer adds 0 and the others their
signed total.

`Retries_proofs` proves about `StatementUpload`, for every set of requests and documents,
whether keys come back or not:

| Theorem | States |
|---|---|
| `UploadInvariant` | `UploadSpec => []UploadIInv` |
| `UploadsConsistent` | `UploadSpec => []UploadConsistent` |
| `SourcesKept` | `UploadSpec => []SourceKeptWhileNeeded` |
| `InactiveGetsNoRows` | `UploadSpec => NoRowsWhileInactive` |

*Assumption*: `NoFileIsNoRequest`. *Argument*. A request parses only what it has stored: as
long as the key was not used again there is one request at work on the document
(`OneRequestWorks`), at a place that fits the document's status (`PlacesKnown`), and before
the first document there is nothing to clean (`FirstDocument`, `NothingYet`). Cleaning
takes a file only from documents that need none, which is what the status at each
place says. Rows are written by `Complete` alone, which looks at the workspace under its
lock.

The same module proves about `TelegramWebhook`, for every set of updates and requests and every number
of faults:

| Theorem | States |
|---|---|
| `WebhookTypeCorrect` | `WebhookSpec => []WebhookTypeOK` |
| `NothingAcknowledgedEarly` | `WebhookSpec => []AcknowledgedOnlyIfApplied` |
| `AttemptsAreJustified` | `WebhookSpec => []AttemptsJustified` |
| `LeasesExclude` | `WebhookSpec => []OneHandlerPerLease` |
| `CompletedAreRepeatedLate` | `WebhookSpec => CompletedRepeatsJustified` |
| `LeasesConsistent` | `WebhookSpec => []WebhookConsistent` |

*Assumptions*: `NullsAreNotValues`, `MaxFaultsIsNatural`. *Argument*. A request past its
commit, and a row marked completed, are honest (`MarksHonest`), so every answer of
success is. An update that may be claimed has a failure or an expiry that no attempt
has used yet (`AttemptsPaid`). `AttemptsJustified` also bounds the commits by the
attempts; that is inductive only when the requests that may still commit are counted
with them (`CommitsCounted`, a cardinality). A lease excludes a second handler because
it is held as long as it has not run out (`LeaseHeld`).

And about `TelegramPolling`, for every number of updates and crashes:

| Theorem | States |
|---|---|
| `PollingTypeCorrect` | `PollingSpec => []PollingTypeOK` |
| `NoUpdateLost` | `PollingSpec => []ConfirmedOnlyIfApplied` |
| `RepeatsAreJustified` | `PollingSpec => []RepeatsJustified` |
| `OrderKept` | `PollingSpec => []FirstEffectsInOrder` |
| `UpdatesConsistent` | `PollingSpec => []PollingConsistent` |

*Assumption*: `BoundsAreNatural`. *Argument*. The offset is advanced before the
handler runs, so the offset that would be sent may be one ahead of what is done. The
invariant says that it is never more than one (`PassedHandled`) and that the one is the
update in the worker's hands (`Position`); `GetUpdates` is reached with empty hands. A
worker that has seen an update does not handle it again, so a repeat has a crash to
itself (`RepeatsCounted`).

`WorkspaceAccess_proofs` proves for every set of users, workspaces, sessions, requests and
invitations:

| Theorem | States |
|---|---|
| `AccessInvariant` | `Spec => []IInv` |
| `AccessConsistent` | `Spec => []Consistent` |
| `OwnersStay` | `Spec => []OneOwner` |
| `SessionsAmongOwn` | `Spec => []SessionAmongOwn` |
| `EntriesInvited` | `Spec => AdmittedByInvitation` |

*Assumption*: `AccessAssumption`. *Argument*. The invariant has a part for the members, one for
sessions and requests, one for invitations. No command trusts the stale role alone
where ownership is concerned: a role that is changed, given or taken is never the
owner's (`OneMember`), and an invitation never offers it (`Offers`). Sessions move only to
workspaces where their user's membership was just looked at (`SessionEffect`), and
memberships are never forgotten (`Kept`), so what a request read stays a workspace of
its user. `EntriesInvited` looks at each step that makes a membership active; that a
founder is new rests on `FoundedByOwner`.

`UserSessions_proofs` proves for every set of sessions and requests and every number of
passwords and tokens:

| Theorem | States |
|---|---|
| `SessionsInvariant` | `Spec => []IInv` |
| `SessionsConsistent` | `Spec => []Consistent` |
| `OldPasswordsEnd` | `Spec => []OldPasswordEnds` |
| `ReusesJustified` | `Spec => []ReuseJustified` |
| `EndsAreFinal` | `Spec => EndIsFinal` |

*Assumption*: `SessionsAssumption`. *Argument*. What a request read is never newer than what
is stored, and if its account was closed meanwhile its session has ended
(`RequestsKnown`); so a command that needs its session active finds the account open.
As long as the previous token is tolerated it is the one just before the current,
except in a session rotated from a stale object (`GraceKnown`); so only there can the
token before the current one end it. One lemma treats all commands that only end
sessions (`EndsInvariant`), one all that keep a single one (`RotationKeeps`).

`ChatIdentity_proofs` proves for every set of users, chats and handlers, every finite set of
workspaces and every number of codes:

| Theorem | States |
|---|---|
| `Invariant`, `TypeCorrect` | `Spec => []IInv`, `Spec => []TypeOK` |
| `Bindings`, `Selections`, `Codes` | `Spec => []BindingsOfMembers`, `[]SelectionsOfMembers`, `[]OneUsableCode` |
| `Ambiguity` | `Spec => []AmbiguousOnlyByTwoCodes` |
| `ChatsConsistent` | `Spec => []Consistent` |
| `SwitchesKeepUser` | `Spec => SwitchKeepsUser` |

*Assumptions*: `IdentityAssumption`, `IdleAssumption`. *Argument*. A binding is written by a
handler that looked at the member before; the invariant says that what it saw still
holds while it holds the locks (`HandlersOfMembers`, `LocksExclude`, `TargetsSwitchable`), or
the account was closed. `Ambiguity` compares two cardinalities: each active binding of a
chat beyond those a switch replaces has a code of its own (`RowsLinked`, `LiveCodesUnused`,
`LiveCodesIssued`).

`Catalog_proofs` proves for every set of categories, names, rules, rows, operations and
currencies, however many:

| Theorem | States |
|---|---|
| `CatalogConsistent` | `Spec => []Consistent` |
| `RulesStayUsable` | `Spec => []ActiveRulesUsable` |
| `NamesAreUnique` | `Spec => []OnlySeededTwice` |
| `LoopChoosesBestRule` | `Spec => []BestRuleChosen` |

*Assumption*: `CatalogAssumption`. *Argument*. A command deletes or archives only what the
tables do not name (`Unreferenced`, `Unruled`), and one that writes a name looks the category
up; so the invariant says, table by table, that what is named is there: in rules
(`TargetsOK`), in suggestions (`RowsOK`), in operations (`OperationsOK`). Seeding only fills
slots that are free. A suggestion is what the loop chose from the list of rules, so it is
there because the list is the rules that exist, each once (`RulesOK`). The account keeps its
currency as long as a row or an operation is there (`MoneyOK`), and an operation posted from
a row needs the row. `BestRuleChosen` is about a loop over a list of any length, and the
list the loop has gone through is a prefix: `BestAmong` says that the fold over it has kept
the best candidate of the prefix, the oldest among equals. A shortest prefix for which it
fails would have a shorter one; that every set of numbers has a least one (`LeastNat`) takes
the place of the induction.

`ChatConversation_proofs` proves for every set of rows, accounts and tokens, every finite set
of handlers, any of which may be past the commit of the categories at the same time, and every
number of dialogs, crashes and decisions elsewhere:

| Theorem | States |
|---|---|
| `DialogsConsistent` | `Spec => []Consistent` |
| `OneStatePerDialog` | `Spec => []OneOpenState` |
| `EffectsOnce` | `Spec => []OneEffectPerDialog` |
| `TwinsPostedOnce` | `Spec => []PostedOnce` |

*Assumption*: `ChatAssumption`. *Argument*. Neither `OneOpenState` nor `OneEffectPerDialog` is
inductive: what limits effects is that a press finds its state open and closes it, what
limits open states is that it opens at most one. So the invariant adds them up: the
operations a dialog made and its open states are no more than one and its splits
(`EffectsOK`), the same for decisions and the states that may still decide, and a rule,
saved or still offered, has a decision of its own. A handler that goes on from a state left
meanwhile adds one and is counted by `split`; with several past the commit together, from one
state or from several, each is counted at the step in which it goes on, so the invariant says
nothing of how they overlap. The sum counts a set of states by its
cardinality, so the states must be different (`StoreOK`): that is what the tokens are for.
`Complete` needs more than itself as well: a corrected answer goes back through the same
steps, and the category of a dialog that has reached its description is known
(`WellFormed`), also in a state a handler holds without the lock (`Held`). `PostedOnce` holds
because `BookAccepted` is refused by the unique index over dedupe hashes, whatever it and
others had checked without the lock.

*Only model-checked*: liveness (`FilesExpire`, `FileForgotten`, `EventuallyAcknowledged`,
`EventuallyHandled`), which is out of the prover's reach. Every other property of a
passing run is a theorem.

## 7. What the models found

One statement of the repository is not true of the code, shown by `relink`: a member who
lost the access to a workspace and regained it cannot link the same chat again. The binding
stayed as an inactive row, `bind_chat_identity` looks for an active one and inserts
(`features/chat_integrations/use_cases/identity.py:116`), the unique constraint refuses, and
the transaction that spent the code is rolled back, at every delivery of the message.
`docs/integrations/CHAT_INTEGRATIONS.md:64-67` says that the code links the chat.

Behaviour that is in the models, where no document of the repository says otherwise or the
disagreement is one of wording. Ledger and review:

* The command that links a row to a manual income or expense does not repeat the candidate
  list's check that the operation has no row yet (`features/import_review/application/operation_linking.py:83`);
  two rows of one statement can share one operation.
* A manual operation linked to a row can be cancelled or edited; the row stays confirmed, and
  undoing it is refused until the operation is restored.
* The replay of a transfer does not look at the operation's status, the replay of a
  confirmation does (`features/import_review/application/transfers.py:109`).
* An expense of a credit card can be cancelled, or edited onto another account, after the
  card was paid off; its balance gets a sign that `DebtPolicy.ensure_balance` refuses
  (`features/debts/domain.py:86`) at the next read. Payments of an archived debt can be
  undone.

Uploads:

* A document ignored during its parse becomes parsed (`features/imports/documents/commands/upload.py:258`),
  and an attempt whose failure is refused for that reason stays running.
* After a crash between the first commit and the parse the document stays uploaded, and the
  key answers with it for ever.
* A document deleted before its attempt starts comes back under the same key with the attempts
  of two requests (`upload.py:116`).

Chats:

* A request that outlives its lease and then fails overwrites `completed`
  (`features/chat_integrations/webhook_repository.py:77`), and the update is processed again;
  `CompletedRepeatsJustified` says that this is the only way.
* Two presses of one message continue both, if the second comes while the first lists the
  categories, also when both list them (`split` in `ChatConversation`). An accepted suggestion
  is posted although its state expired after it was read.
* Before a chat books a row it compares the row with itself, not with what the dialog showed.

Access:

* A member whose account was closed is disabled, but may be reactivated and then be given the
  ownership: neither command looks at the account (`features/workspaces/application/members.py`,
  `ownership.py:93`), and nobody can act as the owner any more. `OneOwner` therefore asks for
  an active owner only as long as the account is open.
* A sign-in that verified the old password may add its session after a reset has ended all
  sessions (`features/users/service.py:167`); `OldPasswordEnds` excepts these sessions.

Catalog:

* A default category that was renamed comes back at the next seeding, and one that a member
  created meanwhile is joined by a second of its name; then the next check of this name fails.
* Accounts and properties can be archived under active rules that ask for them.

Read while modelling, in no model: the report of a statement loses the `mapping_sources`
of its control totals at its first refresh (`features/imports/statements/validation_service.py`
against `docs/integrations/UNKNOWN_STATEMENT_IMPORTER.md`), counts superseded rows as neighbours
(`features/imports/statements/validation.py:292`), and keeps control balances of an earlier
mapping. `docs/features/debts/README.md` says that an initial debt is a confirmed transfer from an
opening-balance account; `add_existing_debt` writes the initial balance of the account.

## 8. What is left out

Amounts are integers and one number per row; precision and rounding of money are
not looked at. Descriptions, dates (all rows of an instance lie within one matching
window), properties, validation totals, credit limits, statements imported for a credit
card, read models, and the contents of parses and chat messages are abstracted. A
row's currency is that of its document's account. `expected_version` only refuses
commands. Isolation below the workspace lock (two commands of one workspace at a
time) is excluded by the lock for every command of `ImportReview` and `Debts`, with one
exception: a suggestion accepted in a chat is posted after the categories were committed and
the lock was given up, which `ChatConversation` looks at, with the row reduced to its status;
`WorkspaceAccess` and `ChatIdentity` look at what happens before it is taken. Rate
limits, the renewal of an outdated password hash at a sign-in (`features/users/service.py:176`),
mails and names are left out of `UserSessions`, pages of long lists out of
`ChatConversation`.

No module at all:

* *Statement parsers, parser sidecar, mapping analysis and preview*: functions from the
  text of a PDF to rows, thousands of lines of formats. Whether they read a bank right is a
  question about data TLC cannot enumerate; a parse is a choice of outcome.
* *Routers, schemas, presentation of chats, read models, dashboard queries*: they convert and
  format, and change no state. They are most of the lines the map does not cover.
* *Frontend, migrations, scripts, deployment*: no state the models need.

The map covers the parts of the program that decide and change state; the components
and their status are in `PROJECT.json`.

## 9. The plan

Done: `Ledger`, `ImportReview`, `StatementBooking` and the refinement, `Debts`, `Reports`,
`StatementUpload`, `TelegramWebhook`, `TelegramPolling`, `WorkspaceAccess`, `UserSessions`,
`ChatIdentity`, `ChatConversation`, `Catalog`; proofs about every one of them.

What would come next, most important first:

1. The stored report of a statement: control totals, balance pairs and their recalculation
   over re-imported rows.
2. Executions of a mapping and their keys; the coordinate engine behind them.
3. One composition of `ChatConversation` with `TelegramWebhook`: a button that Telegram
   delivers again after the effect was committed.
