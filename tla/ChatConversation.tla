-------------------------- MODULE ChatConversation --------------------------
(***************************************************************************)
(* The dialogs a linked chat holds with one workspace                      *)
(* (features/chat_integrations): entering an operation by hand, deciding   *)
(* the rows of a statement, uploading a statement, and the notice of an    *)
(* upload in a shared feed.                                                *)
(*                                                                         *)
(* What a dialog has reached is a row of chat_conversation_states, named   *)
(* by the token in the buttons of a message.  Every step of a dialog reads *)
(* the open row of the token, adds a row with a new token and consumes the *)
(* old one.  Messages keep their buttons, Telegram delivers an update      *)
(* again when its answer was lost: any button may be pressed at any time,  *)
(* any number of times, and a press whose row is not open is refused.  So  *)
(* only open rows are kept here; consumed and expired ones differ in       *)
(* nothing but the file they may still name.                               *)
(*                                                                         *)
(* An update is handled under the row lock of the workspace, one at a      *)
(* time, up to its first commit.  Two kinds commit in the middle and go on *)
(* without the lock: the upload of a statement, and every step that lists  *)
(* the categories, because listing them first creates the missing default  *)
(* ones and commits (CategoryService.seed_defaults).  What they do after   *)
(* it interleaves with other updates, also with more of their own kind:    *)
(* presses of one button, or of the buttons of twin rows, may all be past  *)
(* this commit together.                                                   *)
(***************************************************************************)
EXTENDS Naturals, Sequences, FiniteSets, SequencesExt

CONSTANTS
    Row,            \* the imported rows of the workspace
    Account,        \* the accounts offered for an upload
    Handler,        \* updates that may be in flight together after a commit
    Token,          \* what tells states apart that are alike, bound of the model
    MaxThreads,     \* dialogs started, and states that were left and gone on from
                    \* once more, together: bound of the model
    MaxCrashes,     \* crashes of a handler, bound of the model
    MaxElsewhere,   \* decisions taken outside this chat, bound of the model
    HashOf,         \* row -> its dedupe hash
    Parsed,         \* row -> the status its statement was parsed to
    NoRow, NoAccount

ASSUME ChatAssumption ==
    /\ Token # {}
    /\ IsFiniteSet(Handler)
    /\ MaxThreads \in Nat \ {0}
    /\ MaxCrashes \in Nat
    /\ MaxElsewhere \in Nat
    /\ Parsed \in [Row -> {"open", "possible_duplicate"}]
    /\ NoRow \notin Row
    /\ NoAccount \notin Account

Dialog == 1..MaxThreads

\* "record_money" stands for record_income and record_expense, which differ in
\* the categories offered only.
ManualFlow == {"record_money", "record_transfer"}
Flow == ManualFlow \cup {"review", "upload_document"}

Step ==
    {"choose_account", "choose_source_account", "choose_destination_account",
     "enter_amount", "choose_date", "enter_custom_date", "choose_category",
     "enter_description", "confirm",
     "choose_document", "review_item", "choose_property",
     "choose_transfer_target", "confirm_transfer", "confirm_review_action",
     "suggest_rule", "enter_rule_pattern"}

\* What state_payload may hold beside the row and the file.
Field ==
    {"account", "source", "destination", "amount", "date", "category", "description",
     "property", "target", "offer_rule", "mark_duplicate", "ignore"}

\* Two messages of a dialog may have reached the same point: the token tells
\* their states apart.
State == [token : Token, dialog : Dialog, flow : Flow, step : Step,
          row : Row \cup {NoRow}, has : SUBSET Field]

\* "open" is normalized, suggested, matched and needs_review, "booked" is confirmed.
RowStatus == {"open", "possible_duplicate", "ignored", "duplicate", "booked"}

\* What a dialog leaves in the database.
Effect == {"operation", "decision", "rule", "document"}

Upload == [dialog : Dialog, stage : {"stored", "completed", "sent"}]

\* A handler that read a state and then committed the default categories;
\* "checked" is a posting that was accepted and is not committed yet.
Seeded == [state : State, stage : {"ask_category", "accept", "checked"}]

Idle == [stage |-> "idle"]

NoState == [stage |-> "none"]

VARIABLES
    open,       \* the open conversation states, oldest first
    started,    \* how many dialogs were started
    row,        \* the status of the imported rows
    elsewhere,  \* how many decisions others took about rows
    effect,     \* dialog -> how often it had each effect
    document,   \* dialog -> the account of the document made of its file
    handler,    \* what an update has left to do after its first commit
    split,      \* dialog -> how often it went on from a state that had been left
    splits,     \* how often any of them did
    expired,    \* states that ran out, unconsumed, while a handler held them
    file,       \* dialogs whose state still names the file of the chat
    delivered,  \* dialogs with a delivery recorded for the shared feed
    sent,       \* dialog -> notices sent to the shared feed
    unrecorded, \* dialog -> notices whose delivery was lost in a crash
    crashes

vars == <<open, started, row, elsewhere, effect, document, handler, split, splits, expired, file,
          delivered, sent, unrecorded, crashes>>

fileVars == <<document, file, delivered, sent, unrecorded, crashes>>

splitVars == <<split, splits, expired>>

otherVars == <<elsewhere, handler, splitVars, fileVars>>

OpenStates == ToSet(open)

TypeOK ==
    /\ open \in Seq(State)
    /\ \A s \in OpenStates :
          s.row \in Row <=> s.flow = "review" /\ s.step # "choose_document"
    /\ started \in 0..MaxThreads
    /\ row \in [Row -> RowStatus]
    /\ elsewhere \in 0..MaxElsewhere
    /\ effect \in [Dialog -> [Effect -> Nat]]
    /\ document \in [Dialog -> Account \cup {NoAccount}]
    /\ handler \in [Handler -> Upload \cup Seeded \cup {Idle}]
    /\ split \in [Dialog -> 0..MaxThreads]
    /\ splits \in 0..MaxThreads
    /\ expired \subseteq State
    /\ file \subseteq Dialog
    /\ delivered \subseteq Dialog
    /\ sent \in [Dialog -> Nat]
    /\ unrecorded \in [Dialog -> Nat]
    /\ crashes \in 0..MaxCrashes

Init ==
    /\ open = <<>>
    /\ started = 0
    /\ row = Parsed
    /\ elsewhere = 0
    /\ effect = [d \in Dialog |-> [e \in Effect |-> 0]]
    /\ document = [d \in Dialog |-> NoAccount]
    /\ handler = [h \in Handler |-> Idle]
    /\ split = [d \in Dialog |-> 0]
    /\ splits = 0
    /\ expired = {}
    /\ file = {}
    /\ delivered = {}
    /\ sent = [d \in Dialog |-> 0]
    /\ unrecorded = [d \in Dialog |-> 0]
    /\ crashes = 0

-----------------------------------------------------------------------------
(* The store of conversation states.                                       *)

Threads == started + splits

\* Handlers are alike: one that is idle takes the update.
Free(h) == handler[h] = Idle /\ h = CHOOSE idle \in Handler : handler[idle] = Idle

Without(s) == RemoveFirst(open, s)

Seeding(h) == handler[h].stage \in {"ask_category", "accept", "checked"}

\* The handlers past the commit of the categories that read this state.
Holders(s) == {h \in Handler : Seeding(h) /\ handler[h].state = s}

Stranded == {h \in Handler : Seeding(h) /\ handler[h].state \notin OpenStates}

\* Bound of the model: who holds a state that was left finds a thread to go on
\* with; without one it could only give up, which it may also do before.
Room(more) == Threads + Cardinality(Stranded) + more <= MaxThreads

\* A posting not committed yet has the row of the state updated: others that
\* update it wait.
Claimed(s) == \E h \in Handler : handler[h].stage = "checked" /\ handler[h].state = s

\* A new state is told apart, by its token if need be, from every other that
\* stays open and from those the handlers hold.  left is the state it replaces.
Distinct(s, left) ==
    /\ s \notin OpenStates \ {left}
    /\ \A h \in Handler : Seeding(h) => handler[h].state # s

\* Tokens are alike: one of those that do.
New(like, left) ==
    LET distinct == {s \in {[like EXCEPT !.token = t] : t \in Token} : Distinct(s, left)} IN
    {s \in distinct : s = CHOOSE other \in distinct : TRUE}

\* create_conversation_state for a dialog that begins
Begin(flow, step, r, has) ==
    /\ Room(1)
    /\ started' = started + 1
    /\ open' = Append(open, [token |-> CHOOSE t \in Token : TRUE, dialog |-> started + 1,
                             flow |-> flow, step |-> step, row |-> r, has |-> has])

\* Mutant: the state a dialog comes from stays open.
ReplaceKeepingOld(s, new) ==
    /\ \E state \in New(new, NoState) : open' = Append(open, state)
    /\ UNCHANGED started

\* The next state is created and the one it comes from is consumed, whatever
\* it has become since it was read (consume_conversation_state).
Exchange(s, new) ==
    /\ \E state \in New(new, s) : open' = Append(Without(s), state)
    /\ UNCHANGED started

\* A press.  One that found the state open while a posting had claimed it waits
\* for the posting's commit to consume it: here it goes first and the posting
\* finds the state left, which leaves the same.
Replace(s, new) == Room(Cardinality(Holders(s))) /\ Exchange(s, new)

\* try_consume_active_conversation_state: the dialog's last step
Consume(s) ==
    /\ Room(Cardinality(Holders(s))) /\ ~Claimed(s)
    /\ open' = Without(s)
    /\ UNCHANGED started

To(s, step, has) == [s EXCEPT !.step = step, !.has = has]

Has(d, e) == effect' = [effect EXCEPT ![d][e] = @ + 1]

\* get_latest_active_conversation_state_for_flows
Latest(s, flows) ==
    /\ s \in OpenStates /\ s.flow \in flows
    /\ \A i, j \in DOMAIN open :
          open[i] = s /\ open[j].flow \in flows => j <= i

\* The lifetime of a state is over, which who read it before does not look at
\* again, or the state is consumed because the member lost access to the
\* workspace (revoke_workspace_access_for_user).
Lapse(s) ==
    /\ s \in OpenStates
    /\ Room(Cardinality(Holders(s)))
    /\ open' = Without(s)
    /\ \/ UNCHANGED expired
       \/ Holders(s) # {} /\ expired' = expired \cup {s}
    /\ UNCHANGED <<started, row, elsewhere, effect, handler, split, splits, fileVars>>

-----------------------------------------------------------------------------
(* Steps that list the categories.                                         *)

Stage(h, s, stage) == handler' = [handler EXCEPT ![h] = [state |-> s, stage |-> stage]]

\* list_or_seed_defaults: the state was read, the lock of the workspace is given
\* up, whatever other handlers have read and given up
Seed(s, stage) ==
    /\ \E h \in Handler : Free(h) /\ Stage(h, s, stage)
    /\ UNCHANGED <<open, started, row, elsewhere, effect, splitVars, fileVars>>

\* The handler goes on with the state it read, also when that was left meanwhile.
Resume(h) ==
    LET s == handler[h].state IN
    /\ handler' = [handler EXCEPT ![h] = Idle]
    /\ expired' = expired \ {s}
    /\ \/ /\ s \in OpenStates
          /\ Room(Cardinality(Holders(s) \ {h}))
          /\ UNCHANGED <<split, splits>>
       \/ /\ s \notin OpenStates
          /\ Threads < MaxThreads
          /\ split' = [split EXCEPT ![s.dialog] = @ + 1]
          /\ splits' = splits + 1

CategoryAsked(s) ==
    To(s, "choose_category", IF s.flow = "review" THEN {} ELSE s.has \cup {"date"})

AskCategory(h) ==
    /\ handler[h].stage = "ask_category"
    /\ ~Claimed(handler[h].state)
    /\ Resume(h)
    /\ Exchange(handler[h].state, CategoryAsked(handler[h].state))
    /\ UNCHANGED <<row, elsewhere, effect, fileVars>>

\* The suggested category is not offered any more, the posting is refused, or
\* the process dies: what was not committed is rolled back.
GiveUp(h) ==
    /\ Seeding(h)
    /\ handler' = [handler EXCEPT ![h] = Idle]
    /\ expired' = {s \in expired : Holders(s) # {h}}
    /\ UNCHANGED <<open, started, row, elsewhere, effect, split, splits, fileVars>>

-----------------------------------------------------------------------------
(* Operations entered by hand (use_cases/manual).                          *)

Unchanging == UNCHANGED <<row, effect, otherVars>>

StartManual ==
    /\ \/ Begin("record_money", "choose_account", NoRow, {})
       \/ Begin("record_transfer", "choose_source_account", NoRow, {})
    /\ Unchanging

SelectAccount(s) ==
    /\ s \in OpenStates /\ s.flow \in ManualFlow
    /\ \/ /\ s.step = "choose_account"
          /\ Replace(s, To(s, "enter_amount", {"account"}))
       \/ /\ s.step = "choose_source_account"
          /\ Replace(s, To(s, "choose_destination_account", {"source"}))
       \/ /\ s.step = "choose_destination_account"
          /\ Replace(s, To(s, "enter_amount", {"source", "destination"}))
    /\ Unchanging

\* _continue_after_operation_date: a transfer has no category
AfterDate(s) ==
    \/ /\ s.flow = "record_transfer"
       /\ Replace(s, To(s, "enter_description", s.has \cup {"date"}))
       /\ Unchanging
    \/ /\ s.flow = "record_money"
       /\ Seed(s, "ask_category")

SelectDate(s) ==
    /\ s \in OpenStates /\ s.flow \in ManualFlow /\ s.step = "choose_date"
    /\ \/ /\ Replace(s, To(s, "enter_custom_date", s.has))
          /\ Unchanging
       \/ AfterDate(s)

\* "no category" is one of the choices; the payload then holds None.
SelectCategory(s) ==
    /\ s \in OpenStates /\ s.flow \in ManualFlow /\ s.step = "choose_category"
    /\ Replace(s, To(s, "enter_description", s.has \cup {"category"}))
    /\ Unchanging

SkipDescription(s) ==
    /\ s \in OpenStates /\ s.flow \in ManualFlow /\ s.step = "enter_description"
    /\ Replace(s, To(s, "confirm", s.has \cup {"description"}))
    /\ Unchanging

\* Mutant: a corrected operation loses its amount before it is asked again.
CorrectionForgetsAmount(s) ==
    {To(s, "enter_amount", s.has), To(s, "choose_date", s.has \ {"amount"}),
     To(s, "enter_description", s.has)}

\* select_correction; the payload is kept and what follows the step is asked again.
Correction(s) ==
    {To(s, step, s.has) : step \in {"enter_amount", "choose_date", "enter_description"}}

SelectCorrection(s) ==
    /\ s \in OpenStates /\ s.flow \in ManualFlow /\ s.step = "confirm"
    /\ \/ \E new \in Correction(s) : Replace(s, new) /\ Unchanging
       \/ s.flow = "record_money" /\ Seed(s, "ask_category")

\* confirm: the operation is posted and the state consumed in one transaction;
\* the ledger may refuse, then both are rolled back.
ConfirmOperation(s) ==
    /\ s \in OpenStates /\ s.flow \in ManualFlow /\ s.step = "confirm"
    /\ Consume(s)
    /\ Has(s.dialog, "operation")
    /\ UNCHANGED <<row, otherVars>>

Waiting == {"enter_amount", "choose_date", "enter_custom_date", "enter_description"}

\* A text goes to the newest manual dialog when that waits for one; a text it
\* cannot parse is answered with an error.
AnswerText(s) ==
    /\ Latest(s, ManualFlow)
    /\ \/ /\ s.step = "enter_amount"
          /\ Replace(s, To(s, "choose_date", s.has \cup {"amount"}))
          /\ Unchanging
       \/ /\ s.step \in {"choose_date", "enter_custom_date"}
          /\ AfterDate(s)
       \/ /\ s.step = "enter_description"
          /\ Replace(s, To(s, "confirm", s.has \cup {"description"}))
          /\ Unchanging

-----------------------------------------------------------------------------
(* Decisions about imported rows (use_cases/review).  The command is that   *)
(* of the web application; it reads the row under the workspace lock and    *)
(* refuses what the row's status does not allow, then the claim of the      *)
(* state is rolled back with it.                                            *)

InReview(s, steps) == s \in OpenStates /\ s.flow = "review" /\ s.step \in steps

OpenDocuments ==
    /\ Begin("review", "choose_document", NoRow, {})
    /\ Unchanging

\* start_next_review_item, and the second transaction of a handler whose
\* decision was committed: show_next_item_after_success
OpenItem(r) ==
    /\ row[r] \in {"open", "possible_duplicate"}
    /\ Begin("review", "review_item", r, {})
    /\ Unchanging

SelectDocument(s) ==
    /\ InReview(s, {"choose_document"})
    /\ \/ \E r \in Row :
             /\ row[r] \in {"open", "possible_duplicate"}
             /\ Replace(s, [s EXCEPT !.step = "review_item", !.row = r])
       \/ /\ \A r \in Row : row[r] \notin {"open", "possible_duplicate"}
          /\ Consume(s)
    /\ Unchanging

AdjacentItem(s, r) ==
    /\ InReview(s, {"review_item"}) /\ r # s.row
    /\ Replace(s, [s EXCEPT !.row = r])
    /\ Unchanging

ReturnToItem(s) ==
    /\ InReview(s, {"choose_category", "choose_property", "choose_transfer_target",
                    "confirm_review_action", "confirm_transfer"})
    /\ Replace(s, To(s, "review_item", {}))
    /\ Unchanging

StartConfirmation(s) ==
    /\ InReview(s, {"review_item", "confirm_transfer"})
    /\ Seed(s, "ask_category")

\* No handler has locked the row for a posting it has not committed.
Unlocked(r) ==
    \A h \in Handler : handler[h].stage = "checked" => handler[h].state.row # r

\* has_confirmed_raw_transaction_with_dedupe_hash, and the unique index over the
\* hashes of confirmed rows
HashFree(r) == \A other \in Row \ {r} : HashOf[other] = HashOf[r] => row[other] # "booked"

\* The statuses an income or an expense is posted from; the row is not linked.
Bookable(r) == row[r] \in {"open", "ignored"} /\ Unlocked(r) /\ HashFree(r)

\* _confirm_transaction and _maybe_start_rule_suggestion; has is what was chosen
Book(s, has) ==
    /\ Bookable(s.row)
    /\ row' = [row EXCEPT ![s.row] = "booked"]
    /\ Has(s.dialog, "decision")
    /\ \/ Consume(s)
       \/ /\ "offer_rule" \in has
          /\ Replace(s, To(s, "suggest_rule", {"category"} \cup (has \cap {"property"})))

\* _finish_category_confirmation: the property is asked when there are any
FinishCategory(s, has) ==
    /\ \/ Book(s, has)
       \/ /\ Replace(s, To(s, "choose_property", has))
          /\ UNCHANGED <<row, effect>>
    /\ UNCHANGED otherVars

AcceptSuggestion(s) == InReview(s, {"review_item"}) /\ Seed(s, "accept")

AskProperty(h) ==
    /\ handler[h].stage = "accept"
    /\ ~Claimed(handler[h].state)
    /\ Resume(h)
    /\ Exchange(handler[h].state, To(handler[h].state, "choose_property", {"category"}))
    /\ UNCHANGED <<row, elsewhere, effect, fileVars>>

\* The state is claimed, unless it was consumed, and the row is found bookable,
\* in one transaction with the posting but without the lock of the workspace.
CheckAccepted(h) ==
    LET s == handler[h].state IN
    /\ handler[h].stage = "accept"
    /\ s \in OpenStates \cup expired /\ ~Claimed(s)
    /\ Bookable(s.row)
    /\ Stage(h, s, "checked")
    /\ UNCHANGED <<open, started, row, elsewhere, effect, splitVars, fileVars>>

\* Mutant: the hashes of confirmed rows have no unique index.
BookUnindexed(h) ==
    LET s == handler[h].state IN
    /\ handler[h].stage = "checked"
    /\ Resume(h)
    /\ open' = Without(s)
    /\ row' = [row EXCEPT ![s.row] = "booked"]
    /\ Has(s.dialog, "decision")
    /\ UNCHANGED <<started, elsewhere, fileVars>>

\* The index refuses the row when its twin was posted since the check.
BookAccepted(h) ==
    LET s == handler[h].state IN
    /\ handler[h].stage = "checked"
    /\ HashFree(s.row)
    /\ Resume(h)
    /\ open' = Without(s)
    /\ row' = [row EXCEPT ![s.row] = "booked"]
    /\ Has(s.dialog, "decision")
    /\ UNCHANGED <<started, elsewhere, fileVars>>

ConfirmWithCategory(s) ==
    InReview(s, {"choose_category"}) /\ FinishCategory(s, {"category", "offer_rule"})

ConfirmWithProperty(s) ==
    /\ InReview(s, {"choose_property"})
    /\ Book(s, s.has \cup {"property"})
    /\ UNCHANGED otherVars

\* Also the button "another account" of the message that asks to confirm.
StartTransfer(s) ==
    /\ InReview(s, {"review_item", "confirm_transfer"})
    /\ Replace(s, To(s, "choose_transfer_target", {}))
    /\ Unchanging

SelectTransferTarget(s) ==
    /\ InReview(s, {"choose_transfer_target"})
    /\ Replace(s, To(s, "confirm_transfer", {"target"}))
    /\ Unchanging

ConfirmTransfer(s) ==
    /\ InReview(s, {"confirm_transfer"})
    /\ row[s.row] \in {"open", "possible_duplicate", "ignored"} /\ Unlocked(s.row)
    /\ HashFree(s.row)
    /\ row' = [row EXCEPT ![s.row] = "booked"]
    /\ Has(s.dialog, "decision")
    /\ Consume(s)
    /\ UNCHANGED otherVars

StartReviewAction(s) ==
    /\ InReview(s, {"review_item"})
    /\ \/ Replace(s, To(s, "confirm_review_action", {"ignore"}))
       \/ /\ row[s.row] = "possible_duplicate"
          /\ Replace(s, To(s, "confirm_review_action", {"mark_duplicate"}))
    /\ Unchanging

\* _apply_stored_action: the transition of a row that is not booked; one that
\* is in the target status already is answered as done.
ApplyAction(s, from, target) ==
    /\ row[s.row] \in from \cup {target} /\ Unlocked(s.row)
    /\ row' = [row EXCEPT ![s.row] = target]
    /\ Has(s.dialog, "decision")
    /\ Consume(s)
    /\ UNCHANGED otherVars

ConfirmReviewAction(s) ==
    /\ InReview(s, {"confirm_review_action"})
    /\ \/ /\ "ignore" \in s.has
          /\ ApplyAction(s, {"open", "possible_duplicate", "duplicate"}, "ignored")
       \/ /\ "mark_duplicate" \in s.has
          /\ ApplyAction(s, {"open", "possible_duplicate"}, "duplicate")

MarkUnique(s) ==
    /\ InReview(s, {"review_item"})
    /\ ApplyAction(s, {"possible_duplicate", "duplicate"}, "open")

SuggestedRule(s) == InReview(s, {"suggest_rule", "enter_rule_pattern"})

EnterPattern(s) ==
    /\ SuggestedRule(s)
    /\ Replace(s, To(s, "enter_rule_pattern", s.has))
    /\ Unchanging

SkipRule(s) ==
    /\ SuggestedRule(s)
    /\ Consume(s)
    /\ Unchanging

\* save_suggestion, save_pattern_selection
SaveRule(s) ==
    /\ SuggestedRule(s)
    /\ Consume(s)
    /\ Has(s.dialog, "rule")
    /\ UNCHANGED <<row, otherVars>>

\* A text no manual dialog took becomes the pattern when the newest review
\* dialog waits for one.
AnswerPattern(s) ==
    /\ Latest(s, {"review"}) /\ s.step = "enter_rule_pattern"
    /\ \A m \in OpenStates : Latest(m, ManualFlow) => m.step \notin Waiting
    /\ Consume(s)
    /\ Has(s.dialog, "rule")
    /\ UNCHANGED <<row, otherVars>>

\* What the commands of the review make of a row: postings, transitions, undo.
Decisions(status) ==
    CASE status = "open"               -> {"ignored", "duplicate", "booked"}
      [] status = "possible_duplicate" -> {"open", "ignored", "duplicate", "booked"}
      [] status = "duplicate"          -> {"open", "ignored"}
      [] status = "ignored"            -> {"open", "booked"}
      [] status = "booked"             -> {"open"}

\* Another member, or this one in the web application, works on the row.
ElsewhereDecided(r) ==
    /\ elsewhere < MaxElsewhere
    /\ elsewhere' = elsewhere + 1
    /\ Unlocked(r)
    /\ \E status \in Decisions(row[r]) :
          /\ status = "booked" => HashFree(r)
          /\ row' = [row EXCEPT ![r] = status]
    /\ UNCHANGED <<open, started, effect, handler, splitVars, fileVars>>

-----------------------------------------------------------------------------
(* Statements uploaded from the chat (application.py) and the notice in the *)
(* shared feed (notifications/dispatcher.py).                               *)

StartUpload ==
    /\ Begin("upload_document", "choose_account", NoRow, {})
    /\ file' = file \cup {started + 1}
    /\ UNCHANGED <<row, elsewhere, effect, document, handler, splitVars, delivered, sent,
                   unrecorded, crashes>>

Staged(h, d, stage) == handler' = [handler EXCEPT ![h] = [dialog |-> d, stage |-> stage]]

\* Mutant: every press of the button makes a document of its own.
StoreNew(d, a) ==
    /\ document' = [document EXCEPT ![d] = a]
    /\ Has(d, "document")

\* upload_statement with the state as idempotency key, up to its first commit
Store(d, a) ==
    \/ /\ document[d] = NoAccount
       /\ document' = [document EXCEPT ![d] = a]
       /\ Has(d, "document")
    \/ /\ document[d] = a
       /\ UNCHANGED <<document, effect>>

PressAccount(h, s, a) ==
    /\ Free(h)
    /\ s \in OpenStates /\ s.flow = "upload_document"
    /\ Store(s.dialog, a)
    /\ Staged(h, s.dialog, "stored")
    /\ UNCHANGED <<open, started, row, elsewhere, splitVars, file, delivered, sent, unrecorded,
                   crashes>>

\* Mutant: the maintenance only looks at the states that were consumed in time.
EndedCompleted == {d \in Dialog : document[d] # NoAccount}

\* The dialogs whose state is consumed or expired.
Ended == {d \in 1..started : \A s \in OpenStates : s.dialog # d}

\* The payload is cleared and the state consumed, whatever it has become.
CompleteUpload(h) ==
    LET d == handler[h].dialog IN
    /\ handler[h].stage = "stored"
    /\ IF d \in Ended THEN UNCHANGED open
       ELSE \E s \in OpenStates : s.dialog = d /\ open' = Without(s)
    /\ file' = file \ {d}
    /\ Staged(h, d, "completed")
    /\ UNCHANGED <<started, row, elsewhere, effect, document, splitVars, delivered, sent,
                   unrecorded, crashes>>

\* Notices of a workspace are sent one at a time, under its row lock.
NoticeDue(h) ==
    /\ handler[h].stage = "completed"
    /\ \A other \in Handler : handler[other].stage # "sent"
    /\ handler[h].dialog \notin delivered

SendNotice(h) ==
    LET d == handler[h].dialog IN
    /\ NoticeDue(h)
    /\ sent' = [sent EXCEPT ![d] = @ + 1]
    /\ Staged(h, d, "sent")
    /\ UNCHANGED <<open, started, row, elsewhere, effect, document, splitVars, file, delivered,
                   unrecorded, crashes>>

\* The delivery is committed after the message was sent.
RecordDelivery(h) ==
    /\ handler[h].stage = "sent"
    /\ delivered' = delivered \cup {handler[h].dialog}
    /\ handler' = [handler EXCEPT ![h] = Idle]
    /\ UNCHANGED <<open, started, row, elsewhere, effect, document, splitVars, file, sent,
                   unrecorded, crashes>>

\* The delivery exists, there is no feed, or the workspace is inactive by now.
SkipNotice(h) ==
    /\ handler[h].stage = "completed"
    /\ handler' = [handler EXCEPT ![h] = Idle]
    /\ UNCHANGED <<open, started, row, elsewhere, effect, document, splitVars, file, delivered,
                   sent,
                   unrecorded, crashes>>

\* The process dies, or the rest of the upload fails, between two commits.
Crash(h) ==
    LET d == handler[h].dialog IN
    /\ handler[h].stage \in {"stored", "completed", "sent"}
    /\ crashes < MaxCrashes
    /\ crashes' = crashes + 1
    /\ handler' = [handler EXCEPT ![h] = Idle]
    /\ unrecorded' = IF handler[h].stage = "sent"
                     THEN [unrecorded EXCEPT ![d] = @ + 1] ELSE unrecorded
    /\ UNCHANGED <<open, started, row, elsewhere, effect, document, splitVars, file, delivered,
                   sent>>

\* scrub_terminal_upload_state_payloads
ScrubPayloads ==
    /\ file \cap Ended # {}
    /\ file' = file \ Ended
    /\ UNCHANGED <<open, started, row, elsewhere, effect, document, handler, splitVars,
                   delivered, sent,
                   unrecorded, crashes>>

-----------------------------------------------------------------------------
Button(s) ==
    \/ SelectAccount(s) \/ SelectDate(s) \/ SelectCategory(s) \/ SkipDescription(s)
    \/ SelectCorrection(s) \/ ConfirmOperation(s)
    \/ SelectDocument(s) \/ ReturnToItem(s) \/ StartConfirmation(s)
    \/ \E r \in Row : AdjacentItem(s, r)
    \/ AcceptSuggestion(s) \/ ConfirmWithCategory(s) \/ ConfirmWithProperty(s)
    \/ StartTransfer(s) \/ SelectTransferTarget(s) \/ ConfirmTransfer(s)
    \/ StartReviewAction(s) \/ ConfirmReviewAction(s) \/ MarkUnique(s)
    \/ EnterPattern(s) \/ SkipRule(s) \/ SaveRule(s)

Text(s) == AnswerText(s) \/ AnswerPattern(s)

UploadStep(h) ==
    CompleteUpload(h) \/ SendNotice(h) \/ RecordDelivery(h) \/ SkipNotice(h)

CategoryStep(h) ==
    AskCategory(h) \/ AskProperty(h) \/ CheckAccepted(h) \/ BookAccepted(h) \/ GiveUp(h)

Next ==
    \/ StartManual \/ OpenDocuments \/ StartUpload
    \/ \E r \in Row : OpenItem(r) \/ ElsewhereDecided(r)
    \/ \E s \in OpenStates : Button(s) \/ Text(s) \/ Lapse(s)
    \/ \E h \in Handler, s \in OpenStates, a \in Account : PressAccount(h, s, a)
    \/ \E h \in Handler : UploadStep(h) \/ CategoryStep(h) \/ Crash(h)
    \/ ScrubPayloads

Spec == Init /\ [][Next]_vars

\* Half an hour after a state was made it is no longer open, whatever the
\* member does; the clean-up of uploads runs on a schedule.  Nothing is assumed
\* of the handlers: any of them may stop for good.
FairSpec ==
    /\ Spec
    /\ WF_vars(\E s \in OpenStates : s.flow = "upload_document" /\ Lapse(s))
    /\ WF_vars(ScrubPayloads)

-----------------------------------------------------------------------------
\* A dialog is in one state at a time: no two of its messages have buttons
\* that still work, whatever was corrected, repeated or returned to.  One more
\* is open only for a press that went on from a state which another press, or
\* its lapse, had left since the lock was given up to list the categories.
OneOpenState ==
    \A d \in Dialog : Cardinality({s \in OpenStates : s.dialog = d}) <= 1 + split[d]

\* A dialog makes one document at most, and posts one operation, decides one
\* row and saves one rule for each state it went on from, however often its
\* buttons are pressed, its updates are delivered again or a handler dies
\* between two commits.
OneEffectPerDialog ==
    \A d \in Dialog :
        /\ effect[d]["document"] <= 1
        /\ \A e \in Effect \ {"document"} : effect[d][e] <= 1 + split[d]

\* What a step reads from the payload was put there on every way that leads
\* to it, corrections included (the readers of state_reader.py raise otherwise).
Needed(step) ==
    CASE step \in {"choose_date", "enter_custom_date"} -> {"amount"}
      [] step \in {"choose_category", "enter_description"} -> {"amount", "date"}
      [] step = "confirm" -> {"amount", "date", "description"}
      [] OTHER -> {}

Complete(s) ==
    /\ Needed(s.step) \subseteq s.has
    /\ s.step \in Waiting \cup {"choose_category", "confirm"} =>
           {"account"} \subseteq s.has \/ {"source", "destination"} \subseteq s.has
    /\ s.step = "confirm" /\ s.flow # "record_transfer" => "category" \in s.has

PayloadComplete == \A s \in OpenStates : s.flow \in ManualFlow => Complete(s)

\* A rule is offered or saved only by a dialog that booked its row: the claim
\* of the button, the posting and the offer are committed together.
RuleAfterBooking ==
    /\ \A s \in OpenStates :
          s.step \in {"suggest_rule", "enter_rule_pattern"} => effect[s.dialog]["decision"] >= 1
    /\ \A d \in Dialog : effect[d]["rule"] <= effect[d]["decision"]

\* The shared feed hears of a document twice only when a crash lost the record
\* of a notice that had been sent.
NoticeRepeatedOnlyIfLost ==
    \A d \in Dialog : sent[d] <= 1 + unrecorded[d]

\* One transaction that came with two statements is posted once, also when
\* suggestions for both rows were accepted and checked without the lock of the
\* workspace before either is posted.
PostedOnce ==
    \A r, other \in Row :
        r # other /\ HashOf[r] = HashOf[other] => ~(row[r] = "booked" /\ row[other] = "booked")

\* The file a chat sent is not named by the state for ever: the payload is
\* cleared when the upload completes and, after a lapse, by the clean-up.
FileForgotten == \A d \in Dialog : d \in file ~> d \notin file

\* What a dialog keeps between two messages is enough to go on and true: the
\* answers its step needs, a rule only for a row it booked, a notice that was
\* repeated only after a crash.
Consistent == TypeOK /\ PayloadComplete /\ RuleAfterBooking /\ NoticeRepeatedOnlyIfLost
=============================================================================
