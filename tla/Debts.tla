-------------------------------- MODULE Debts --------------------------------
(***************************************************************************)
(* Debts, features/debts: accounts of type debt beside the ordinary ones,  *)
(* payments made of a principal transfer and an interest operation, and    *)
(* the manual ledger commands that may touch a debt's account.             *)
(*                                                                         *)
(* A command holds the workspace lock (and the debt's row lock) and        *)
(* commits once, so it is one step.  A debt and a payment stand for their  *)
(* idempotency keys: a repeated key is answered as a replay and has no     *)
(* step.  Ordinary accounts are always active.  Names, dates, limits and   *)
(* the terms they restrict are left out, and so are statements of credit   *)
(* cards.                                                                  *)
(***************************************************************************)
EXTENDS Ledger, FiniteSetsExt

CONSTANTS DebtAccount,   \* the accounts of type debt the history may use
          KindOf,        \* the kind of each
          Payment,       \* payments the history may use (a bound)
          NoDebt, NoOperation

Kind == {"loan_receivable", "loan_payable", "credit_card", "mortgage"}

ASSUME DebtAccountsAreAccounts ==
  /\ DebtAccount \subseteq Account
  /\ KindOf \in [DebtAccount -> Kind]
ASSUME NoDebtIsNoAccount == NoDebt \notin DebtAccount
ASSUME NoOperationIsNone == NoOperation \notin Operation

VARIABLES debtState,       \* none, active, archived or deleted
          initialBalance,  \* of the debt's account
          lent,            \* principal paid out at its creation, if any
          payState,        \* none, recorded or reversed
          payDebt,         \* debt_account_id
          payPrincipal,    \* principal_operation_id
          payInterest      \* interest_operation_id

debtVars == <<debtState, initialBalance, lent>>
paymentVars == <<payState, payDebt, payPrincipal, payInterest>>
vars == <<ledgerVars, debtVars, paymentVars>>

DebtState == {"none", "active", "archived", "deleted"}
PaymentState == {"none", "recorded", "reversed"}

TypeOK ==
  /\ LedgerTypeOK
  /\ debtState \in [DebtAccount -> DebtState]
  /\ initialBalance \in [DebtAccount -> Int]
  /\ lent \in [DebtAccount -> Nat]
  /\ payState \in [Payment -> PaymentState]
  /\ payDebt \in [Payment -> DebtAccount \cup {NoDebt}]
  /\ payPrincipal \in [Payment -> Operation \cup {NoOperation}]
  /\ payInterest \in [Payment -> Operation \cup {NoOperation}]

Init ==
  /\ LedgerInit
  /\ debtState = [d \in DebtAccount |-> "none"]
  /\ initialBalance = [d \in DebtAccount |-> 0]
  /\ lent = [d \in DebtAccount |-> 0]
  /\ payState = [p \in Payment |-> "none"]
  /\ payDebt = [p \in Payment |-> NoDebt]
  /\ payPrincipal = [p \in Payment |-> NoOperation]
  /\ payInterest = [p \in Payment |-> NoOperation]

-----------------------------------------------------------------------------
(* Balances                                                                *)

Magnitude(n) == IF n < 0 THEN -n ELSE n

EntryOn(o, account) ==
  MapThenSumSet(LAMBDA e : e.amount, {e \in opEntries[o] : e.account = account})

Confirmed == {o \in Operation : opStatus[o] = "confirmed"}

\* Initial balance plus confirmed entries.
Balance(d) ==
  initialBalance[d] + MapThenSumSet(LAMBDA o : EntryOn(o, d), Confirmed)

Receivable(d) == KindOf[d] = "loan_receivable"

\* DebtPolicy.ensure_balance: a command that reads a balance of the wrong
\* sign is refused.
SignKept(d) == IF Receivable(d) THEN Balance(d) >= 0 ELSE Balance(d) <= 0

Outstanding(d) == Magnitude(Balance(d))

-----------------------------------------------------------------------------
(* Postings of source debt; they carry no key.                             *)

Posting(o, type, entries) == [op |-> o, type |-> type, entries |-> entries]

PostDebt(postings) ==
  LET new == {q.op : q \in postings}
      of(o) == CHOOSE q \in postings : q.op = o
  IN /\ \A o \in new : opStatus[o] = "unused"
     /\ opStatus' = [o \in Operation |->
                       IF o \in new THEN "confirmed" ELSE opStatus[o]]
     /\ opSource' = [o \in Operation |->
                       IF o \in new THEN "debt" ELSE opSource[o]]
     /\ opType' = [o \in Operation |->
                     IF o \in new THEN of(o).type ELSE opType[o]]
     /\ opEntries' = [o \in Operation |->
                        IF o \in new THEN of(o).entries ELSE opEntries[o]]
     /\ UNCHANGED <<opKey, opRequest>>

Settles(account, d) == account \notin DebtAccount /\ SameCurrency(account, d)

\* Money paid out on a debt leaves the account a receivable is lent from and
\* comes to the account a loan is taken to; a payment goes the other way.
LendEntries(d, account, amount) ==
  IF Receivable(d) THEN TransferEntries(account, d, amount)
                   ELSE TransferEntries(d, account, amount)
RepayEntries(d, account, amount) ==
  IF Receivable(d) THEN TransferEntries(d, account, amount)
                   ELSE TransferEntries(account, d, amount)

InterestType(d) == IF Receivable(d) THEN "income" ELSE "expense"

-----------------------------------------------------------------------------
(* Creation                                                                *)

Create(d, initial, paidOut) ==
  /\ debtState[d] = "none"
  /\ debtState' = [debtState EXCEPT ![d] = "active"]
  /\ initialBalance' = [initialBalance EXCEPT ![d] = initial]
  /\ lent' = [lent EXCEPT ![d] = paidOut]

\* Its original principal is kept for display only.
AddExistingDebt(d, balance) ==
  /\ KindOf[d] # "credit_card"
  /\ Create(d, IF Receivable(d) THEN balance ELSE -balance, 0)
  /\ UNCHANGED <<ledgerVars, paymentVars>>

\* give_loan and take_loan: the debt starts with a transfer of its principal.
OpenLoan(d, account, amount, o) ==
  /\ KindOf[d] # "credit_card"
  /\ Settles(account, d)
  /\ Create(d, 0, amount)
  /\ PostDebt({Posting(o, "transfer", LendEntries(d, account, amount))})
  /\ UNCHANGED paymentVars

OpenCreditCard(d, opening) ==
  /\ KindOf[d] = "credit_card"
  /\ Create(d, -opening, 0)
  /\ UNCHANGED <<ledgerVars, paymentVars>>

-----------------------------------------------------------------------------
(* Payments                                                                *)

\* What RecordPayment posts; DebtPaymentPlanner decides which parts there are.
PaymentPostings(d, account, principal, interest, o, i) ==
  {q \in {Posting(o, "transfer", RepayEntries(d, account, principal)),
          Posting(i, InterestType(d),
                  IncomeExpenseEntries(InterestType(d), account, interest))} :
     IF q.op = o THEN principal > 0 ELSE interest > 0}

RecordPayment(p, d, account, principal, interest) ==
  /\ payState[p] = "none"
  /\ debtState[d] = "active"
  /\ Settles(account, d)
  /\ principal + interest > 0
  /\ SignKept(d)
  /\ Outstanding(d) > 0
  /\ principal <= Outstanding(d)
  /\ \E o, i \in Operation :
       /\ o # i
       /\ PostDebt(PaymentPostings(d, account, principal, interest, o, i))
       /\ payPrincipal' = [payPrincipal EXCEPT ![p] =
                             IF principal = 0 THEN NoOperation ELSE o]
       /\ payInterest' = [payInterest EXCEPT ![p] =
                            IF interest = 0 THEN NoOperation ELSE i]
  /\ payState' = [payState EXCEPT ![p] = "recorded"]
  /\ payDebt' = [payDebt EXCEPT ![p] = d]
  /\ UNCHANGED debtVars

PaymentOperations(p) == {payPrincipal[p], payInterest[p]} \ {NoOperation}

\* Mutant: the interest stays.
ReversePrincipal(p) ==
  /\ payState[p] = "recorded"
  /\ opStatus' = [o \in Operation |->
                    IF o = payPrincipal[p] THEN "ignored" ELSE opStatus[o]]
  /\ payState' = [payState EXCEPT ![p] = "reversed"]
  /\ UNCHANGED <<opSource, opType, opEntries, opKey, opRequest, debtVars,
                 payDebt, payPrincipal, payInterest>>

\* The debt may be archived by now: nothing looks at it.
ReversePayment(p) ==
  /\ payState[p] = "recorded"
  /\ \A o \in PaymentOperations(p) : opStatus[o] = "confirmed"
                                  /\ opSource[o] = "debt"
  /\ opStatus' = [o \in Operation |->
                    IF o \in PaymentOperations(p) THEN "ignored" ELSE opStatus[o]]
  /\ payState' = [payState EXCEPT ![p] = "reversed"]
  /\ UNCHANGED <<opSource, opType, opEntries, opKey, opRequest, debtVars,
                 payDebt, payPrincipal, payInterest>>

-----------------------------------------------------------------------------
(* The life of a debt                                                      *)

Archive(d) ==
  /\ debtState[d] = "active"
  /\ SignKept(d)
  /\ Outstanding(d) = 0
  /\ debtState' = [debtState EXCEPT ![d] = "archived"]
  /\ UNCHANGED <<ledgerVars, initialBalance, lent, paymentVars>>

RestoreDebt(d) ==
  /\ debtState[d] = "archived"
  /\ debtState' = [debtState EXCEPT ![d] = "active"]
  /\ UNCHANGED <<ledgerVars, initialBalance, lent, paymentVars>>

OperationsOn(d) ==
  {o \in Operation : Recorded(o) /\ \E e \in opEntries[o] : e.account = d}

Payments(d) == {p \in Payment : payState[p] # "none" /\ payDebt[p] = d}

\* Mutant: an operation that does not count does not keep the debt.
DeletableByBalance(d) ==
  /\ Payments(d) = {}
  /\ \A o \in OperationsOn(d) : opStatus[o] = "confirmed" =>
       opSource[o] = "debt" /\ opType[o] = "transfer"

\* has_payments and list_account_operations, whatever their status.
Deletable(d) ==
  /\ Payments(d) = {}
  /\ Cardinality(OperationsOn(d)) <= 1
  /\ \A o \in OperationsOn(d) : opSource[o] = "debt" /\ opType[o] = "transfer"

\* The opening transfer goes with the debt and its account.
DeleteDebt(d) ==
  LET opening == {o \in OperationsOn(d) : opSource[o] = "debt"}
  IN /\ debtState[d] \in {"active", "archived"}
     /\ Deletable(d)
     /\ debtState' = [debtState EXCEPT ![d] = "deleted"]
     /\ opStatus' = [o \in Operation |->
                       IF o \in opening THEN "deleted" ELSE opStatus[o]]
     /\ opEntries' = [o \in Operation |->
                        IF o \in opening THEN {} ELSE opEntries[o]]
     /\ initialBalance' = [initialBalance EXCEPT ![d] = 0]
     /\ lent' = [lent EXCEPT ![d] = 0]
     /\ UNCHANGED <<opSource, opType, opKey, opRequest, paymentVars>>

-----------------------------------------------------------------------------
(* Manual commands                                                         *)

\* Mutant: any active debt may be charged.
IncomeExpenseOnDebt(account, type) ==
  account \in DebtAccount => debtState[account] = "active" /\ type = "expense"

\* ensure_income_expense_account
IncomeExpenseAccount(account, type) ==
  account \in DebtAccount => /\ debtState[account] = "active"
                             /\ KindOf[account] = "credit_card"
                             /\ type = "expense"

\* Transfers are made between ordinary accounts only; cancelling, restoring
\* and deleting an operation look at no account.
ManualStep ==
  /\ \E o \in Operation :
       \/ \E type \in {"income", "expense"}, account \in Account,
             amount \in ManualAmount :
            /\ IncomeExpenseAccount(account, type)
            /\ \/ \E key \in Key \cup {NoKey} :
                    CreateIncomeExpense(o, type, account, amount, key)
               \/ UpdateAsIncomeExpense(o, type, account, amount)
       \/ \E from, to \in Account \ DebtAccount, amount \in ManualAmount :
            \/ \E key \in Key \cup {NoKey} :
                 CreateTransfer(o, from, to, amount, key)
            \/ UpdateAsTransfer(o, from, to, amount)
       \/ Cancel(o)
       \/ Restore(o)
       \/ Erase(o)
  /\ UNCHANGED <<debtVars, paymentVars>>

-----------------------------------------------------------------------------
DebtStep ==
  \E d \in DebtAccount :
    \/ \E balance \in ManualAmount : AddExistingDebt(d, balance)
    \/ \E account \in Account, amount \in ManualAmount, o \in Operation :
         OpenLoan(d, account, amount, o)
    \/ \E opening \in ManualAmount \cup {0} : OpenCreditCard(d, opening)
    \/ Archive(d)
    \/ RestoreDebt(d)
    \/ DeleteDebt(d)

PaymentStep ==
  \E p \in Payment :
    \/ \E d \in DebtAccount, account \in Account,
          principal, interest \in ManualAmount \cup {0} :
         RecordPayment(p, d, account, principal, interest)
    \/ ReversePayment(p)

Next == DebtStep \/ PaymentStep \/ ManualStep

Spec == Init /\ [][Next]_vars

-----------------------------------------------------------------------------
(* Properties                                                              *)

\* docs/features/debts: a payment is undone with all its operations or not at
\* all.  Its operations count exactly while it is not reversed, whatever the
\* manual commands and other payments do beside it.
PaymentsWhole ==
  \A p \in Payment : payState[p] # "none" =>
    /\ PaymentOperations(p) # {}
    /\ \A o \in PaymentOperations(p) :
         /\ opSource[o] = "debt"
         /\ opStatus[o] = IF payState[p] = "recorded" THEN "confirmed" ELSE "ignored"

Standing(d) == debtState[d] \in {"active", "archived"}

Loan == {d \in DebtAccount : KindOf[d] # "credit_card"}

\* The payments that stand and repaid something.
PaidBy(d) ==
  {p \in Payments(d) : payState[p] = "recorded" /\ payPrincipal[p] # NoOperation}

PaidPrincipal(d) ==
  MapThenSumSet(LAMBDA p : Magnitude(EntryOn(payPrincipal[p], d)), PaidBy(d))

Explained(d) ==
  /\ SignKept(d)
  /\ Outstanding(d) = lent[d] + Magnitude(initialBalance[d]) - PaidPrincipal(d)

\* What the ledger says is owed on a loan is what it began with less
\* the principal of the payments that stand, never less than nothing: no manual command and
\* no reversal moves a loan's principal in another way.
LoanBalanceExplained == \A d \in Loan : Standing(d) => Explained(d)

\* A deleted debt leaves nothing behind: no operation, counting or cancelled,
\* has an entry on its account, and no payment refers to it.
DeletedDebtForgotten ==
  \A d \in DebtAccount : debtState[d] = "deleted" =>
    OperationsOn(d) = {} /\ Payments(d) = {}

-----------------------------------------------------------------------------
(* The inductive invariant the proofs use.                                 *)

\* An operation belongs to one payment and moves no other debt's money.
PaymentsApart ==
  \A p \in Payment :
    /\ \A q \in Payment \ {p} : PaymentOperations(p) \cap PaymentOperations(q) = {}
    /\ payState[p] = "none" => PaymentOperations(p) = {}
    /\ \A o \in PaymentOperations(p) : \A e \in opEntries[o] :
         e.account \in DebtAccount => e.account = payDebt[p]

\* Payments and entries are there for existing debts only.
DebtsStand ==
  /\ \A p \in Payment : payState[p] # "none" =>
       payDebt[p] \in DebtAccount /\ Standing(payDebt[p])
  /\ \A o \in Operation : Recorded(o) => \A e \in opEntries[o] :
       e.account \in DebtAccount => Standing(e.account)

\* What the theorems about payments and deleted debts rest on.
PaymentInv == TypeOK /\ PaymentsWhole /\ PaymentsApart /\ DebtsStand

\* An operation has the entries of its type, moves one debt at most, and a
\* loan only if it is one of the debts'.
Sound(o) ==
  /\ Fits(opType[o], opEntries[o])
  /\ \A e, f \in opEntries[o] :
       e.account \in DebtAccount /\ f.account \in DebtAccount => e.account = f.account
  /\ \A e \in opEntries[o] : e.account \in Loan => opSource[o] = "debt"

OperationsSound == \A o \in Operation : Recorded(o) => Sound(o)

\* The principal of a payment moved what it repaid, its interest no debt.
PrincipalsRepay ==
  \A p \in Payment : payState[p] # "none" =>
    /\ payPrincipal[p] # NoOperation =>
         \E account \in Account, amount \in ManualAmount :
           /\ Settles(account, payDebt[p])
           /\ opEntries[payPrincipal[p]] = RepayEntries(payDebt[p], account, amount)
    /\ payInterest[p] # NoOperation =>
         \A e \in opEntries[payInterest[p]] : e.account \notin DebtAccount

RecordedPayments == {p \in Payment : payState[p] = "recorded"}

\* What the sums range over is finite, whatever the constants are: every step
\* adds two operations and one payment at most.
FinitelyMany == IsFiniteSet(Confirmed) /\ IsFiniteSet(RecordedPayments)

IInv ==
  /\ PaymentInv /\ OperationsSound /\ PrincipalsRepay /\ FinitelyMany
  /\ LoanBalanceExplained
=============================================================================
